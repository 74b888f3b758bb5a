---------------------------- MODULE Parts_proofs ----------------------------
(***************************************************************************)
(* The smaller parts whose invariants are proved, for any number of        *)
(* threads, tasks, clients, stations, buffers and datagrams: the counter   *)
(* of lock.c and CAS.c counts every turn once, the pool of threadpool.c is *)
(* sound, users, sessions and notices of the chat room agree, every buffer *)
(* of the user-space stack has one owner, its event poll loses no wake-up  *)
(* and its UDP half no piece, and the web servers on NtyCo are sound.      *)
(***************************************************************************)
EXTENDS UPacketPath, KcpRoom, TinyHttp, ThreadPool, Counter, UEventPoll, UStackUdp,
        FiniteSetTheorems, SequenceTheorems, TLAPS

-----------------------------------------------------------------------------
(* The counter *)

\* The lock: whoever is past it holds it, and no two are.
OneInside ==
    how = "lock" =>
        /\ \A t \in Threads : cpc[t] # "start" => lock = "held"
        /\ \A t, u \in Threads : cpc[t] # "start" /\ cpc[u] # "start" => t = u

\* A turn begun is a turn not finished yet.
TurnOpen == \A t \in Threads : cpc[t] # "start" => done[t] < Rounds

\* Only under the lock is there a stage between the start and the read.
LockStage == \A t \in Threads : cpc[t] = "read" => how = "lock"

CounterInv ==
    CounterTypeOK /\ OneInside /\ TurnOpen /\ LockStage /\ ReadIsFresh /\ MissMeansHit

\* The invariant of the counter holds at the start.
LEMMA CounterInit_Inv == CounterInit => CounterInv
<1> SUFFICES ASSUME CounterInit PROVE CounterInv
    OBVIOUS
<1>1. CounterTypeOK
      BY CounterAssumption DEF CounterInit, CounterTypeOK
<1>2. OneInside /\ TurnOpen /\ LockStage /\ ReadIsFresh /\ MissMeansHit
      BY DEF CounterInit, OneInside, TurnOpen, LockStage, ReadIsFresh, MissMeansHit
<1>3. QED
      BY <1>1, <1>2 DEF CounterInv

\* Every step of a thread keeps it.
LEMMA CounterNext_Inv == CounterInv /\ [CounterNext]_counterVars => CounterInv'
<1> SUFFICES ASSUME CounterInv, [CounterNext]_counterVars PROVE CounterInv'
    OBVIOUS
<1> USE CounterAssumption
    DEF CounterInv, CounterTypeOK, OneInside, TurnOpen, LockStage, ReadIsFresh, MissMeansHit
<1>1. ASSUME NEW t \in Threads, TakeLock(t) PROVE CounterInv'
      BY <1>1 DEF TakeLock
<1>2. ASSUME NEW t \in Threads, Read(t) PROVE CounterInv'
  <2>1. old' = [old EXCEPT ![t] = pcount] /\ cpc' = [cpc EXCEPT ![t] = "write"]
        /\ UNCHANGED <<how, pcount, done, lock>>
        BY <1>2 DEF Read
  <2>2. CASE how \in {"bare", "cas"} /\ cpc[t] = "start" /\ done[t] < Rounds
        BY <2>1, <2>2
  <2>3. CASE how = "lock" /\ cpc[t] = "read"
        BY <2>1, <2>3
  <2>4. QED
        BY <1>2, <2>2, <2>3 DEF Read
<1>3. ASSUME NEW t \in Threads, Write(t) PROVE CounterInv'
  <2>1. pcount' = old[t] + 1 /\ lock' = "free" /\ UNCHANGED <<how, old>>
        /\ done' = [done EXCEPT ![t] = @ + 1] /\ cpc' = [cpc EXCEPT ![t] = "start"]
        BY <1>3 DEF Write, Finish
  <2>2. cpc[t] = "write" /\ done[t] + 1 \in 0..Rounds
        BY <1>3 DEF Write
  <2>3. CASE how = "bare"
        BY <2>1, <2>2, <2>3
  <2>4. CASE how = "lock"
    <3>1. \A u \in Threads : cpc'[u] = "start"
          BY <2>1, <2>2, <2>4
    <3>2. QED
          BY <2>1, <2>2, <2>4, <3>1
  <2>5. QED
        BY <1>3, <2>3, <2>4 DEF Write
<1>4. ASSUME NEW t \in Threads, Xadd(t) PROVE CounterInv'
      BY <1>4 DEF Xadd, Finish
<1>5. ASSUME NEW t \in Threads, Cas(t) PROVE CounterInv'
      BY <1>5 DEF Cas, Finish
<1>6. CASE UNCHANGED counterVars
      BY <1>6 DEF counterVars
<1>7. QED
      BY <1>1, <1>2, <1>3, <1>4, <1>5, <1>6 DEF CounterNext, CountTurn

\* So it always holds.
LEMMA CounterInvariant == CounterSpec => []CounterInv
BY CounterInit_Inv, CounterNext_Inv, PTL DEF CounterSpec

\* What a thread read under the lock is what it finds when it writes.
THEOREM LockedReadIsFresh == CounterSpec => []ReadIsFresh
<1>1. CounterInv => ReadIsFresh
      BY DEF CounterInv
<1>2. QED
      BY <1>1, CounterInvariant, PTL

\* The number a compare and exchange looks for is never ahead of what is there.
THEOREM MissesAreOthersHits == CounterSpec => []MissMeansHit
<1>1. CounterInv => MissMeansHit
      BY DEF CounterInv
<1>2. QED
      BY <1>1, CounterInvariant, PTL

\* Every variable keeps its type, and no thread counts more often than it was told.
THEOREM CounterTyped == CounterSpec => []CounterTypeOK
<1>1. CounterInv => CounterTypeOK
      BY DEF CounterInv
<1>2. QED
      BY <1>1, CounterInvariant, PTL

\* Locked, with xadd or with compare and exchange, every turn adds one, at one
\* instant of it, whatever the other threads do.
THEOREM EachTurnCounted == CounterSpec => CountsEachTurn
<1> DEFINE Once ==
       how # "bare" =>
          \/ UNCHANGED <<pcount, done>>
          \/ \E t \in Threads : /\ done[t] < Rounds
                                /\ pcount' = pcount + 1
                                /\ done' = [done EXCEPT ![t] = @ + 1]
<1>1. CounterInv /\ [CounterNext]_counterVars => [Once]_counterVars
  <2> SUFFICES ASSUME CounterInv, CounterNext, how # "bare" PROVE Once
      BY DEF counterVars
  <2> USE DEF CounterInv, CounterTypeOK, TurnOpen, ReadIsFresh
  <2>1. ASSUME NEW t \in Threads, TakeLock(t) \/ Read(t) PROVE Once
        BY <2>1 DEF TakeLock, Read
  <2>2. ASSUME NEW t \in Threads, Write(t) PROVE Once
        BY <2>2 DEF Write, Finish
  <2>3. ASSUME NEW t \in Threads, Xadd(t) PROVE Once
        BY <2>3 DEF Xadd, Finish
  <2>4. ASSUME NEW t \in Threads, Cas(t) PROVE Once
        BY <2>4 DEF Cas, Finish
  <2>5. QED
        BY <2>1, <2>2, <2>3, <2>4 DEF CounterNext, CountTurn
<1>2. QED
      BY <1>1, CounterInvariant, PTL DEF CounterSpec, CountsEachTurn

-----------------------------------------------------------------------------
(***************************************************************************)
(* The pool.  What a worker read under the mutex stays true until it lets  *)
(* go of it, except for what Destroy writes without it; the inductive      *)
(* invariant says so for each place of a worker, and puts each task in one *)
(* place.                                                                  *)
(***************************************************************************)

\* The tests of the worker's loop are still true where it acts on them: no task, then
\* no wait for one that is there; and a task, unless it was told to leave or Destroy
\* emptied the list.
ReadsHold ==
    /\ \A w \in Workers :
         /\ wpc[w] = "empty" => todo = <<>>
         /\ wpc[w] = "task" => todo # <<>> \/ w \in terminate \/ manager.at \in Flying
    /\ manager.at = "create" => todo = <<>>

\* A worker holds a task exactly while it runs it.
HandRuns == \A w \in Workers : hand[w] # NoTask <=> wpc[w] = "running"

\* The walk of Destroy is on a worker of the list.
WalkInCrew ==
    /\ manager.at = "flag" => manager.walk >= 1
    /\ manager.at = "next" => manager.walk \in 1..Len(crew)

\* No task is twice in the list or in two hands.
ListedOnce == \A i, j \in DOMAIN todo : todo[i] = todo[j] => i = j
HeldOnce == \A v, w \in Workers : hand[v] = hand[w] /\ hand[v] # NoTask => v = w

Listed(t) == \E i \in DOMAIN todo : todo[i] = t
Held(t) == \E w \in Workers : hand[w] = t

\* Each task is in one place, or nowhere once the pool was destroyed.
PlaceOf(t) ==
    /\ ran[t] \in {0, 1}
    /\ t \in unpushed => ~Listed(t) /\ ~Held(t) /\ ran[t] = 0
    /\ Listed(t) => ~Held(t) /\ ran[t] = 0
    /\ Held(t) => ran[t] = 0
    /\ t \in unpushed \/ Listed(t) \/ Held(t) \/ ran[t] = 1 \/ manager.at = "destroyed"
OnePlace == \A t \in PoolTasks : PlaceOf(t)

PoolInv == /\ PoolTypeOK /\ ReadsHold /\ HandRuns /\ WalkInCrew
        /\ ListedOnce /\ HeldOnce /\ OnePlace /\ TaskWakes /\ SafeBeforeDestroy

-----------------------------------------------------------------------------
(* The list of tasks *)

\* LIST_INSERT puts the task before the others.
LEMMA Inserted ==
  ASSUME NEW S, NEW s \in Seq(S), NEW t \in S
  PROVE  /\ <<t>> \o s \in Seq(S) /\ <<t>> \o s # <<>>
         /\ DOMAIN (<<t>> \o s) = 1..Len(s) + 1
         /\ (<<t>> \o s)[1] = t
         /\ \A i \in 2..Len(s) + 1 : (<<t>> \o s)[i] = s[i - 1]
OBVIOUS

\* LIST_REMOVE of the first leaves the others.
LEMMA Removed ==
  ASSUME NEW S, NEW s \in Seq(S), s # <<>>
  PROVE  /\ Tail(s) \in Seq(S) /\ Head(s) = s[1] /\ Head(s) \in S /\ 1 \in DOMAIN s
         /\ DOMAIN Tail(s) = 1..Len(s) - 1
         /\ \A i \in DOMAIN Tail(s) : Tail(s)[i] = s[i + 1] /\ i + 1 \in DOMAIN s
         /\ \A i \in DOMAIN s \ {1} : i - 1 \in DOMAIN Tail(s)
OBVIOUS

\* A set with at most one element has cardinality 0 or 1.
LEMMA AtMostOne ==
  ASSUME NEW S, \A x, y \in S : x = y
  PROVE  Cardinality(S) = IF S = {} THEN 0 ELSE 1
<1>1. CASE S = {}
  BY <1>1, FS_EmptySet
<1>2. CASE S # {}
  <2>1. PICK x \in S : S = {x}
    BY <1>2
  <2> QED
    BY <1>2, <2>1, FS_Singleton
<1> QED
  BY <1>1, <1>2

\* The places of a task are counted by where it is.
LEMMA PlacesCounted == PoolInv => TaskOnce
<1> SUFFICES ASSUME PoolInv, NEW t \in PoolTasks
             PROVE  TaskPlaces(t) = 1 \/ (TaskPlaces(t) = 0 /\ manager.at = "destroyed")
  BY DEF TaskOnce
<1> DEFINE L == { i \in DOMAIN todo : todo[i] = t }
           H == { w \in Workers : hand[w] = t }
<1>1. Cardinality(L) = IF Listed(t) THEN 1 ELSE 0
  <2>1. \A x, y \in L : x = y
    BY DEF PoolInv, ListedOnce
  <2>2. L = {} <=> ~Listed(t)
    BY DEF Listed
  <2> QED
    BY <2>1, <2>2, AtMostOne
<1>2. Cardinality(H) = IF Held(t) THEN 1 ELSE 0
  <2>1. \A x, y \in H : x = y
    BY PoolAssumption DEF PoolInv, HeldOnce
  <2>2. H = {} <=> ~Held(t)
    BY DEF Held
  <2> QED
    BY <2>1, <2>2, AtMostOne
<1>3. PlaceOf(t)
  BY DEF PoolInv, OnePlace
<1> HIDE DEF L, H
<1>4. TaskPlaces(t) = Cardinality(L) + Cardinality(H) + ran[t] + (IF t \in unpushed THEN 1 ELSE 0)
  BY DEF TaskPlaces, L, H
<1> QED
  BY <1>1, <1>2, <1>3, <1>4 DEF PlaceOf

-----------------------------------------------------------------------------
(* Every step keeps the invariant. *)

\* The invariant of the pool holds before nThreadPoolCreate.
LEMMA InitSound == PoolInit => PoolInv
<1> SUFFICES ASSUME PoolInit PROVE PoolInv
  OBVIOUS
<1> USE DEF PoolInit
<1>1. PoolTypeOK
  BY PoolAssumption DEF PoolTypeOK
<1>2. ReadsHold /\ HandRuns /\ WalkInCrew /\ ListedOnce /\ HeldOnce
  BY DEF ReadsHold, HandRuns, WalkInCrew, ListedOnce, HeldOnce
<1>3. OnePlace
  BY PoolAssumption DEF OnePlace, PlaceOf, Listed, Held
<1>4. TaskWakes /\ SafeBeforeDestroy
  BY DEF TaskWakes, SafeBeforeDestroy
<1> QED
  BY <1>1, <1>2, <1>3, <1>4 DEF PoolInv

\* A step that moves no task leaves each where it is.
LEMMA TasksKept ==
  ASSUME PoolInv, UNCHANGED <<hand, todo, unpushed, ran>>,
         manager.at = "destroyed" => manager'.at = "destroyed"
  PROVE  (ListedOnce /\ HeldOnce /\ OnePlace)'
<1>1. ListedOnce' /\ HeldOnce'
  BY DEF PoolInv, ListedOnce, HeldOnce
<1>2. ASSUME NEW t \in PoolTasks
      PROVE  PlaceOf(t)'
  BY DEF PoolInv, OnePlace, PlaceOf, Listed, Held
<1> QED
  BY <1>1, <1>2 DEF OnePlace

\* Taking the mutex keeps it.
LEMMA TakeMutexSound ==
  ASSUME PoolInv, NEW w \in Workers, TakeMutex(w)
  PROVE  PoolInv'
<1> USE DEF PoolInv, TakeMutex, Goes
<1>1. PoolTypeOK'
  BY PoolAssumption DEF PoolTypeOK
<1>2. ReadsHold' /\ HandRuns' /\ WalkInCrew'
  BY DEF PoolTypeOK, ReadsHold, HandRuns, WalkInCrew
<1>3. (ListedOnce /\ HeldOnce /\ OnePlace)'
  BY TasksKept
<1>4. TaskWakes' /\ SafeBeforeDestroy'
  BY DEF PoolTypeOK, TaskWakes, SafeBeforeDestroy, Born
<1> QED
  BY <1>1, <1>2, <1>3, <1>4

\* The test of the worker's inner loop keeps it.
LEMMA TestTasksSound ==
  ASSUME PoolInv, NEW w \in Workers, TestTasks(w)
  PROVE  PoolInv'
<1> USE DEF PoolInv, TestTasks, Goes
<1>1. PoolTypeOK'
  BY PoolAssumption DEF PoolTypeOK
<1>2. ReadsHold' /\ HandRuns' /\ WalkInCrew'
  BY DEF PoolTypeOK, ReadsHold, HandRuns, WalkInCrew
<1>3. (ListedOnce /\ HeldOnce /\ OnePlace)'
  BY TasksKept
<1>4. TaskWakes' /\ SafeBeforeDestroy'
  BY DEF PoolTypeOK, TaskWakes, SafeBeforeDestroy, Born
<1> QED
  BY <1>1, <1>2, <1>3, <1>4

\* A worker goes to wait only when the list is empty: it still holds the mutex it
\* tested the list under, so no task came in between.
LEMMA TestFlagSound ==
  ASSUME PoolInv, NEW w \in Workers, TestFlag(w)
  PROVE  PoolInv'
<1> USE DEF PoolInv, TestFlag, Goes
<1>1. PoolTypeOK'
  <2>1. CASE w \in terminate
    <3>1. pool_mutex' = w /\ wpc' = [wpc EXCEPT ![w] = "task"]
      BY <2>1 DEF PoolTypeOK
    <3>2. \A v \in Workers : pool_mutex' = v <=> wpc'[v] \in {"locked", "empty", "task"}
      BY <3>1 DEF PoolTypeOK
    <3> QED
      BY <3>1, <3>2 DEF PoolTypeOK
  <2>2. CASE w \notin terminate
    <3>1. pool_mutex' = NoTask /\ wpc' = [wpc EXCEPT ![w] = "waiting"]
      BY <2>2
    <3>2. \A v \in Workers : pool_mutex' = v <=> wpc'[v] \in {"locked", "empty", "task"}
      BY <3>1, PoolAssumption DEF PoolTypeOK
    <3> QED
      BY <3>1, <3>2 DEF PoolTypeOK
  <2> QED
    BY <2>1, <2>2
<1>2. ReadsHold' /\ HandRuns' /\ WalkInCrew'
  BY DEF PoolTypeOK, ReadsHold, HandRuns, WalkInCrew
<1>3. (ListedOnce /\ HeldOnce /\ OnePlace)'
  BY TasksKept
<1>4. TaskWakes' /\ SafeBeforeDestroy'
  BY DEF PoolTypeOK, ReadsHold, TaskWakes, SafeBeforeDestroy, Born
<1> QED
  BY <1>1, <1>2, <1>3, <1>4

\* Waking without a signal keeps it.
LEMMA SpuriousSound ==
  ASSUME PoolInv, NEW w \in Workers, Spurious(w)
  PROVE  PoolInv'
<1> USE DEF PoolInv, Spurious, Goes
<1>1. PoolTypeOK'
  BY PoolAssumption DEF PoolTypeOK
<1>2. ReadsHold' /\ HandRuns' /\ WalkInCrew'
  BY DEF PoolTypeOK, ReadsHold, HandRuns, WalkInCrew
<1>3. (ListedOnce /\ HeldOnce /\ OnePlace)'
  BY TasksKept
<1>4. TaskWakes' /\ SafeBeforeDestroy'
  BY DEF PoolTypeOK, TaskWakes, SafeBeforeDestroy, Born
<1> QED
  BY <1>1, <1>2, <1>3, <1>4

\* Leaving the outer loop keeps it.
LEMMA LeaveSound ==
  ASSUME PoolInv, NEW w \in Workers, Leave(w)
  PROVE  PoolInv'
<1> USE DEF PoolInv, Leave, Goes
<1>1. PoolTypeOK'
  BY PoolAssumption DEF PoolTypeOK
<1>2. ReadsHold' /\ HandRuns' /\ WalkInCrew'
  BY DEF PoolTypeOK, ReadsHold, HandRuns, WalkInCrew
<1>3. (ListedOnce /\ HeldOnce /\ OnePlace)'
  BY TasksKept
<1>4. TaskWakes' /\ SafeBeforeDestroy'
  BY DEF PoolTypeOK, TaskWakes, SafeBeforeDestroy, Born
<1> QED
  BY <1>1, <1>2, <1>3, <1>4

\* The task taken is the first of the list; the worker's hand was empty.
LEMMA TakeTaskSound ==
  ASSUME PoolInv, NEW w \in Workers, TakeTask(w)
  PROVE  PoolInv'
<1> USE DEF PoolInv
<1>t. /\ todo \in Seq(PoolTasks) /\ wpc[w] = "task" /\ hand[w] = NoTask
      /\ hand \in [Workers -> PoolTasks \cup {NoTask}]
      /\ pool_mutex' = NoTask /\ UNCHANGED <<terminate, crew, manager, unpushed, ran>>
  BY DEF PoolTypeOK, HandRuns, TakeTask
<1>1. ASSUME NEW where \in {"leaving", "dead", "running"}, Goes(w, where)
      PROVE  /\ wpc' = [wpc EXCEPT ![w] = where]
             /\ wpc' \in [Workers -> {"unborn", "start", "locked", "empty", "task", "waiting",
                                      "woken", "running", "leaving", "gone", "dead"}]
             /\ \A v \in Workers : pool_mutex' = v <=> wpc'[v] \in {"locked", "empty", "task"}
  BY <1>t, <1>1, PoolAssumption DEF PoolTypeOK, Goes
<1>2. CASE w \in terminate /\ Goes(w, "leaving") /\ UNCHANGED <<hand, todo, fault>>
  <2>1. PoolTypeOK'
    BY <1>t, <1>1, <1>2 DEF PoolTypeOK
  <2>2. ReadsHold' /\ HandRuns' /\ WalkInCrew'
    BY <1>t, <1>1, <1>2 DEF PoolTypeOK, ReadsHold, HandRuns, WalkInCrew, Flying
  <2>3. (ListedOnce /\ HeldOnce /\ OnePlace)'
    BY <1>t, <1>2, TasksKept
  <2>4. TaskWakes' /\ SafeBeforeDestroy'
    BY <1>t, <1>1, <1>2 DEF PoolTypeOK, TaskWakes, SafeBeforeDestroy, Born, Flying
  <2> QED
    BY <2>1, <2>2, <2>3, <2>4
<1>3. CASE w \notin terminate /\ todo = <<>> /\ fault' = "null" /\ Goes(w, "dead") /\ UNCHANGED <<hand, todo>>
  <2>1. PoolTypeOK'
    BY <1>t, <1>1, <1>3 DEF PoolTypeOK
  <2>2. ReadsHold' /\ HandRuns' /\ WalkInCrew'
    BY <1>t, <1>1, <1>3 DEF PoolTypeOK, ReadsHold, HandRuns, WalkInCrew, Flying
  <2>3. (ListedOnce /\ HeldOnce /\ OnePlace)'
    BY <1>t, <1>3, TasksKept
  <2>4. TaskWakes' /\ SafeBeforeDestroy'
    BY <1>t, <1>1, <1>3 DEF PoolTypeOK, ReadsHold, TaskWakes, SafeBeforeDestroy, Born, Flying
  <2> QED
    BY <2>1, <2>2, <2>3, <2>4
<1>4. CASE /\ w \notin terminate /\ todo # <<>> /\ Goes(w, "running")
           /\ hand' = [hand EXCEPT ![w] = Head(todo)] /\ todo' = Tail(todo) /\ UNCHANGED fault
  <2>1. PICK t \in PoolTasks : t = Head(todo) /\ t = todo[1]
    BY <1>t, <1>4, Removed
  <2>2. /\ todo' \in Seq(PoolTasks)
        /\ \A i \in DOMAIN todo' : i + 1 \in DOMAIN todo /\ i + 1 # 1 /\ todo'[i] = todo[i + 1]
        /\ \A i, j \in DOMAIN todo' : i + 1 = j + 1 => i = j
        /\ \A i \in DOMAIN todo \ {1} : i - 1 \in DOMAIN todo' /\ todo'[i - 1] = todo[i]
        /\ 1 \in DOMAIN todo
    BY <1>t, <1>4, Removed
  <2>3. /\ hand' \in [Workers -> PoolTasks \cup {NoTask}]
        /\ hand'[w] = t /\ \A v \in Workers \ {w} : hand'[v] = hand[v]
    BY <1>t, <1>4, <2>1
  <2>4. PoolTypeOK'
    BY <1>t, <1>1, <1>4, <2>2, <2>3 DEF PoolTypeOK
  <2>5. ReadsHold'
    <3>1. \A v \in Workers \ {w} : wpc[v] \notin {"empty", "task"}
      BY <1>t DEF PoolTypeOK
    <3>2. \A v \in Workers : wpc'[v] \notin {"empty", "task"}
      BY <1>1, <1>4, <3>1 DEF PoolTypeOK
    <3>3. manager.at # "create"
      BY <1>4 DEF ReadsHold
    <3> QED
      BY <1>t, <3>2, <3>3 DEF ReadsHold
  <2>6. WalkInCrew'
    BY <1>t DEF WalkInCrew
  <2>7. HandRuns'
    BY <1>1, <1>4, <2>3, PoolAssumption DEF PoolTypeOK, HandRuns
  <2>8. ListedOnce' /\ ~Listed(t)'
    BY <2>1, <2>2 DEF ListedOnce, Listed
  <2>9. \A u \in PoolTasks \ {t} : Listed(u)' <=> Listed(u)
    <3> SUFFICES ASSUME NEW u \in PoolTasks \ {t}
                 PROVE  Listed(u)' <=> Listed(u)
      OBVIOUS
    <3>1. ASSUME Listed(u) PROVE Listed(u)'
      <4>1. PICK i \in DOMAIN todo : todo[i] = u /\ i # 1
        BY <2>1, <3>1 DEF Listed
      <4> QED
        BY <2>2, <4>1 DEF Listed
    <3>2. ASSUME Listed(u)' PROVE Listed(u)
      BY <2>2, <3>2 DEF Listed
    <3> QED
      BY <3>1, <3>2
  <2>10. Listed(t) /\ ~Held(t) /\ ran[t] = 0 /\ t \notin unpushed
    <3>1. Listed(t) /\ PlaceOf(t)
      BY <2>1, <2>2 DEF Listed, OnePlace
    <3> QED
      BY <3>1 DEF PlaceOf
  <2>11. HeldOnce' /\ Held(t)'
    BY <2>3, <2>10 DEF HeldOnce, Held
  <2>12. \A u \in PoolTasks \ {t} : Held(u)' <=> Held(u)
    BY <1>t, <2>3, PoolAssumption DEF Held
  <2>13. ASSUME NEW u \in PoolTasks
         PROVE  PlaceOf(u)'
    <3>1. CASE u = t
      BY <1>t, <2>8, <2>10, <2>11, <3>1 DEF PlaceOf
    <3>2. CASE u # t
      BY <1>t, <2>9, <2>12, <3>2 DEF OnePlace, PlaceOf
    <3> QED
      BY <3>1, <3>2
  <2>14. TaskWakes' /\ SafeBeforeDestroy'
    BY <1>t, <1>1, <1>4 DEF PoolTypeOK, TaskWakes, SafeBeforeDestroy, Born
  <2> QED
    BY <2>4, <2>5, <2>6, <2>7, <2>8, <2>11, <2>13, <2>14 DEF OnePlace
<1> QED
  BY <1>2, <1>3, <1>4 DEF TakeTask

\* Running the task keeps it.
LEMMA RunTaskSound ==
  ASSUME PoolInv, NEW w \in Workers, RunTask(w)
  PROVE  PoolInv'
<1> USE DEF PoolInv, RunTask, Goes
<1>0. PICK t \in PoolTasks : t = hand[w]
  BY DEF PoolTypeOK, HandRuns
<1>t. /\ t = hand[w] /\ Held(t)
      /\ hand \in [Workers -> PoolTasks \cup {NoTask}] /\ ran \in [PoolTasks -> Nat]
  BY <1>0 DEF PoolTypeOK, Held
<1>1. PoolTypeOK'
  BY <1>t, PoolAssumption DEF PoolTypeOK
<1>2. ReadsHold' /\ WalkInCrew'
  BY DEF PoolTypeOK, ReadsHold, WalkInCrew
<1>3. HandRuns'
  BY <1>t, PoolAssumption DEF PoolTypeOK, HandRuns
<1>4. HeldOnce' /\ ListedOnce'
  BY <1>t DEF HeldOnce, ListedOnce
<1>5. OnePlace'
  <2>1. ASSUME NEW u \in PoolTasks
        PROVE  Listed(u)' <=> Listed(u)
    BY DEF Listed
  <2>2. ~Held(t)'
    BY <1>t, PoolAssumption DEF HeldOnce, Held
  <2>3. ASSUME NEW u \in PoolTasks, u # t
        PROVE  Held(u)' <=> Held(u)
    BY <1>t, <2>3, PoolAssumption DEF Held
  <2>4. PlaceOf(t)'
    BY <1>t, <2>1, <2>2 DEF OnePlace, PlaceOf
  <2>5. ASSUME NEW u \in PoolTasks, u # t
        PROVE  PlaceOf(u)'
    BY <1>t, <2>1, <2>3, <2>5 DEF OnePlace, PlaceOf
  <2> QED
    BY <2>4, <2>5 DEF OnePlace
<1>6. TaskWakes' /\ SafeBeforeDestroy'
  BY DEF PoolTypeOK, TaskWakes, SafeBeforeDestroy, Born
<1> QED
  BY <1>1, <1>2, <1>3, <1>4, <1>5, <1>6

-----------------------------------------------------------------------------
(* The steps of the manager *)

\* nThreadPoolCreate keeps it.
LEMMA PoolCreateSound == ASSUME PoolInv, fault = "none", PoolCreate PROVE PoolInv'
<1> USE DEF PoolInv, PoolCreate, Goes, Boards
<1>t. /\ manager.at = "create" /\ manager'.at \in {"create", "push"} /\ manager'.walk = manager.walk
      /\ todo = <<>> /\ crew' \in Seq(Workers) /\ manager' \in [at : {"create", "push"}, walk : Nat]
      /\ UNCHANGED <<hand, terminate, todo, pool_mutex, unpushed, ran, fault>>
  <2>1. \A w \in Workers : <<w>> \o crew \in Seq(Workers)
    BY DEF PoolTypeOK
  <2>2. crew' \in Seq(Workers)
    BY <2>1 DEF PoolTypeOK
  <2>3. manager'.at \in {"create", "push"} /\ manager'.walk = manager.walk /\ manager' \in [at : {"create", "push"}, walk : Nat]
    BY DEF PoolTypeOK
  <2> QED
    BY <2>2, <2>3 DEF ReadsHold
<1>w. \/ UNCHANGED wpc
      \/ \E w \in Workers : wpc[w] = "unborn" /\ wpc' = [wpc EXCEPT ![w] = "start"]
  OBVIOUS
<1> HIDE DEF PoolCreate, Goes, Boards
<1>1. PoolTypeOK'
  BY <1>t, <1>w DEF PoolTypeOK
<1>2. ReadsHold'
  <2>1. \A w \in Workers : wpc'[w] = "task" => wpc[w] = "task"
    BY <1>w DEF PoolTypeOK
  <2>2. \A w \in Workers : wpc[w] = "task" => w \in terminate
    BY <1>t DEF ReadsHold, Flying
  <2> QED
    BY <1>t, <2>1, <2>2 DEF ReadsHold
<1>k. WalkInCrew'
  BY <1>t DEF WalkInCrew
<1>h. HandRuns'
  BY <1>t, <1>w DEF PoolTypeOK, HandRuns
<1>3. (ListedOnce /\ HeldOnce /\ OnePlace)'
  BY <1>t, TasksKept
<1>4. TaskWakes' /\ SafeBeforeDestroy'
  BY <1>t DEF TaskWakes, SafeBeforeDestroy, Flying
<1> QED
  BY <1>1, <1>2, <1>h, <1>k, <1>3, <1>4

\* No worker is at a test of the list while the manager has the mutex, and the signal
\* finds one that waits if all do.
LEMMA PushTaskSound == ASSUME PoolInv, fault = "none", PushTask PROVE PoolInv'
<1> USE DEF PoolInv
<1>t. /\ todo \in Seq(PoolTasks) /\ pool_mutex = NoTask
      /\ UNCHANGED <<hand, terminate, crew, pool_mutex, manager, ran, fault>>
      /\ \A w \in Workers : wpc[w] \notin {"locked", "empty", "task"}
  BY PoolAssumption DEF PushTask, PoolTypeOK
<1>w. \/ UNCHANGED wpc /\ Waiting = {}
      \/ \E w \in Workers : wpc[w] = "waiting" /\ wpc' = [wpc EXCEPT ![w] = "woken"]
  BY DEF PushTask, CondSignal, Goes, Waiting
<1>p. PICK t \in unpushed : unpushed' = unpushed \ {t} /\ todo' = <<t>> \o todo
  BY DEF PushTask
<1>q. t \in PoolTasks /\ manager.at \in {"push", "destroyed"}
  BY <1>p DEF PoolTypeOK, PushTask
<1>r. /\ todo' \in Seq(PoolTasks) /\ todo' # <<>>
      /\ 1 \in DOMAIN todo' /\ todo'[1] = t
      /\ \A i \in DOMAIN todo' \ {1} : i - 1 \in DOMAIN todo /\ todo'[i] = todo[i - 1]
      /\ \A i, j \in DOMAIN todo' : i - 1 = j - 1 => i = j
      /\ \A i \in DOMAIN todo : i + 1 \in DOMAIN todo' /\ todo'[i + 1] = todo[i]
  BY <1>t, <1>p, <1>q, Inserted
<1>1. PoolTypeOK'
  BY <1>t, <1>w, <1>p, <1>r DEF PoolTypeOK
<1>2. ReadsHold'
  <2>1. \A w \in Workers : wpc'[w] \notin {"empty", "task"}
    BY <1>t, <1>w DEF PoolTypeOK
  <2> QED
    BY <1>t, <1>q, <2>1 DEF ReadsHold
<1>3. HandRuns' /\ WalkInCrew'
  BY <1>t, <1>w DEF PoolTypeOK, HandRuns, WalkInCrew
<1>4. ~Listed(t) /\ ~Held(t) /\ ran[t] = 0
  BY <1>p, <1>q DEF OnePlace, PlaceOf
<1>5. ListedOnce' /\ Listed(t)'
  BY <1>r, <1>4 DEF ListedOnce, Listed
<1>6. \A u \in PoolTasks \ {t} : Listed(u)' <=> Listed(u)
  <2> SUFFICES ASSUME NEW u \in PoolTasks \ {t}
               PROVE  Listed(u)' <=> Listed(u)
    OBVIOUS
  <2>1. ASSUME Listed(u) PROVE Listed(u)'
    BY <1>r, <2>1 DEF Listed
  <2>2. ASSUME Listed(u)' PROVE Listed(u)
    <3>1. PICK i \in DOMAIN todo' : todo'[i] = u /\ i # 1
      BY <1>r, <2>2 DEF Listed
    <3> QED
      BY <1>r, <3>1 DEF Listed
  <2> QED
    BY <2>1, <2>2
<1>7. HeldOnce' /\ \A u \in PoolTasks : Held(u)' <=> Held(u)
  BY <1>t DEF HeldOnce, Held
<1>8. ASSUME NEW u \in PoolTasks
      PROVE  PlaceOf(u)'
  <2>1. CASE u = t
    BY <1>t, <1>p, <1>4, <1>5, <1>7, <2>1 DEF PlaceOf
  <2>2. CASE u # t
    BY <1>t, <1>p, <1>6, <1>7, <2>2 DEF OnePlace, PlaceOf
  <2> QED
    BY <2>1, <2>2
<1>9. TaskWakes'
  BY <1>w DEF PoolTypeOK, TaskWakes, Born, Waiting
<1>10. SafeBeforeDestroy'
  BY <1>t DEF SafeBeforeDestroy
<1> QED
  BY <1>1, <1>2, <1>3, <1>5, <1>7, <1>8, <1>9, <1>10 DEF OnePlace

\* Destroy moves no worker and no task on its walk.
LEMMA WalkSound ==
  ASSUME PoolInv, CallDestroy \/ SetFlag \/ ReadNext
  PROVE  PoolInv'
<1> USE DEF PoolInv
<1>t. /\ UNCHANGED <<wpc, hand, crew, todo, pool_mutex, unpushed, ran>>
      /\ manager.at \in {"push", "flag", "next"} /\ manager'.at \in {"flag", "next"}
  <2>1. CASE CallDestroy
    BY <2>1 DEF CallDestroy
  <2>2. CASE SetFlag
    BY <2>2 DEF SetFlag, Boards, PoolTypeOK
  <2>3. CASE ReadNext
    BY <2>3 DEF ReadNext
  <2> QED
    BY <2>1, <2>2, <2>3
<1>w. /\ manager' \in [at : {"flag", "next"}, walk : Nat] /\ WalkInCrew'
      /\ terminate \subseteq terminate' /\ terminate' \subseteq Workers
      /\ fault' \in {"none", "freed", "null"}
  <2>1. CASE CallDestroy
    BY <2>1 DEF CallDestroy, PoolTypeOK, WalkInCrew
  <2>2. CASE SetFlag
    <3>1. manager.walk \in 1..Len(crew) /\ crew[manager.walk] \in Workers
      BY <2>2 DEF SetFlag, PoolTypeOK, WalkInCrew
    <3>2. manager' = [manager EXCEPT !.at = "next"] /\ crew' = crew
      BY <2>2 DEF SetFlag, Boards
    <3>3. /\ manager'.walk = manager.walk /\ manager'.at = "next"
          /\ manager' \in [at : {"flag", "next"}, walk : Nat]
      BY <3>2, <2>2 DEF PoolTypeOK, SetFlag
    <3>4. terminate \subseteq terminate' /\ terminate' \subseteq Workers /\ fault' \in {"none", "freed", "null"}
      BY <2>2, <3>1 DEF SetFlag, PoolTypeOK
    <3> QED
      BY <3>1, <3>2, <3>3, <3>4 DEF WalkInCrew
  <2>3. CASE ReadNext
    BY <2>3 DEF ReadNext, PoolTypeOK, WalkInCrew
  <2> QED
    BY <2>1, <2>2, <2>3
<1>1. PoolTypeOK'
  BY <1>t, <1>w DEF PoolTypeOK, Flying
<1>2. ReadsHold' /\ HandRuns'
  BY <1>t, <1>w DEF ReadsHold, HandRuns, Flying
<1>3. (ListedOnce /\ HeldOnce /\ OnePlace)'
  BY <1>t, TasksKept
<1>4. TaskWakes' /\ SafeBeforeDestroy'
  BY <1>t DEF TaskWakes, SafeBeforeDestroy, Flying
<1> QED
  BY <1>1, <1>2, <1>3, <1>4, <1>w

\* The broadcast of nThreadPoolDestroy keeps it.
LEMMA WakeAllSound == ASSUME PoolInv, WakeAll PROVE PoolInv'
<1> USE DEF PoolInv
<1>t. /\ UNCHANGED <<hand, terminate, crew, todo, pool_mutex, unpushed, ran, fault>>
      /\ manager' \in [at : {"forget"}, walk : Nat]
      /\ manager.at = "flag" /\ manager'.at = "forget" /\ manager'.walk = manager.walk
      /\ wpc' = [w \in Workers |-> IF wpc[w] = "waiting" THEN "woken" ELSE wpc[w]]
  BY DEF WakeAll, Broadcast, Waiting, Boards, PoolTypeOK
<1>1. PoolTypeOK'
  BY <1>t DEF PoolTypeOK, Flying
<1>2. ReadsHold' /\ HandRuns' /\ WalkInCrew'
  BY <1>t DEF PoolTypeOK, ReadsHold, HandRuns, WalkInCrew, Flying
<1>3. (ListedOnce /\ HeldOnce /\ OnePlace)'
  BY <1>t, TasksKept
<1>4. TaskWakes' /\ SafeBeforeDestroy'
  BY <1>t DEF TaskWakes, SafeBeforeDestroy, Flying
<1> QED
  BY <1>1, <1>2, <1>3, <1>4

\* The tasks that were in the list are nowhere now.
LEMMA ForgetSound == ASSUME PoolInv, Forget PROVE PoolInv'
<1> USE DEF PoolInv
<1>t. /\ UNCHANGED <<wpc, hand, terminate, pool_mutex, unpushed, ran, fault>>
      /\ manager' \in [at : {"destroyed"}, walk : Nat]
      /\ crew' = <<>> /\ todo' = <<>>
      /\ manager.at = "forget" /\ manager'.at = "destroyed" /\ manager'.walk = manager.walk
  BY DEF Forget, Boards, PoolTypeOK
<1>1. PoolTypeOK'
  BY <1>t DEF PoolTypeOK, Flying
<1>2. ReadsHold' /\ HandRuns' /\ WalkInCrew'
  BY <1>t DEF ReadsHold, HandRuns, WalkInCrew, Flying
<1>3. ListedOnce' /\ HeldOnce'
  BY <1>t DEF ListedOnce, HeldOnce
<1>4. ASSUME NEW t \in PoolTasks
      PROVE  PlaceOf(t)'
  <2>1. ~Listed(t)' /\ (Held(t)' <=> Held(t))
    BY <1>t DEF Listed, Held
  <2> QED
    BY <1>t, <2>1 DEF OnePlace, PlaceOf
<1>5. TaskWakes' /\ SafeBeforeDestroy'
  BY <1>t DEF TaskWakes, SafeBeforeDestroy, Flying
<1> QED
  BY <1>1, <1>2, <1>3, <1>4, <1>5 DEF OnePlace

-----------------------------------------------------------------------------

\* Every step keeps it.
LEMMA StepSound == PoolInv /\ [PoolStep]_poolVars => PoolInv'
<1> SUFFICES ASSUME PoolInv, [PoolStep]_poolVars PROVE PoolInv'
  OBVIOUS
<1>1. CASE UNCHANGED poolVars
  <2>1. PoolTypeOK' /\ ReadsHold' /\ HandRuns' /\ WalkInCrew'
    BY <1>1 DEF PoolInv, poolVars, PoolTypeOK, ReadsHold, HandRuns, WalkInCrew
  <2>2. (ListedOnce /\ HeldOnce /\ OnePlace)'
    BY <1>1, TasksKept DEF poolVars
  <2>3. TaskWakes' /\ SafeBeforeDestroy'
    BY <1>1 DEF PoolInv, poolVars, TaskWakes, SafeBeforeDestroy, Born
  <2> QED
    BY <2>1, <2>2, <2>3 DEF PoolInv
<1>2. CASE fault = "none" /\ (Manager \/ CallDestroy)
  BY <1>2, PoolCreateSound, PushTaskSound, WalkSound, WakeAllSound, ForgetSound DEF Manager
<1>3. ASSUME NEW w \in Workers, Worker(w) \/ Spurious(w)
      PROVE  PoolInv'
  BY <1>3, TakeMutexSound, TestTasksSound, TestFlagSound, TakeTaskSound, RunTaskSound,
     LeaveSound, SpuriousSound DEF Worker
<1> QED
  BY <1>1, <1>2, <1>3 DEF PoolStep, PoolNext

\* For any number of workers and tasks: the mutex has one holder, each task is in one
\* place until Destroy drops it and runs once at most, a push never leaves a task to
\* workers that all sleep, and no memory is touched wrongly before Destroy is called.
THEOREM PoolIsSound == PoolSpec => []PoolSound
<1>1. PoolInv => PoolSound
  BY PlacesCounted DEF PoolInv, PoolSound
<1> QED
  BY <1>1, InitSound, StepSound, PTL DEF PoolSpec

-----------------------------------------------------------------------------
(***************************************************************************)
(* The chat room.  A notice of leaving takes an address out of every list; *)
(* it takes out the right one because, as long as nobody roams, addresses  *)
(* of sessions are those of their clients, and no two clients share one.   *)
(***************************************************************************)

Session == [n : 1..made, addr : Addrs, hears : BOOLEAN, idle : 0..(KeepAlive + 1)]

RoomTyped ==
  /\ made \in 0..MaxSessions /\ roams \in Nat
  /\ sessions \in [Convs -> {NoSession} \cup Session]
  /\ users \subseteq 1..made
  /\ seen \in [1..MaxSessions -> SUBSET Addrs]
  /\ clients \in [Convs -> [up : BOOLEAN, fresh : BOOLEAN, addr : Addrs]]

\* A session that is still to be made was told nothing.
NothingBefore == \A n \in 1..MaxSessions : n > made => seen[n] = {}

\* Without a change of address a session has its client's, which is nobody else's.
Settled ==
  roams = 0 => /\ \A c \in Live : sessions[c].addr = clients[c].addr
               /\ \A c, d \in Convs : clients[c].addr = clients[d].addr => c = d

RoomInv == RoomTyped /\ RoomIsSessions /\ NothingBefore /\ Settled /\ NoticesAgree

\* What the typing of the room says of the sessions that live.
LEMMA LiveTyped ==
  ASSUME RoomTyped
  PROVE  /\ Live \subseteq Convs
         /\ \A c \in Live : /\ sessions[c] \in Session
                            /\ sessions[c].n \in 1..made
                            /\ sessions[c].n \in 1..MaxSessions
                            /\ sessions[c].addr \in Addrs
                            /\ sessions[c].idle \in 0..(KeepAlive + 1)
         /\ \A c \in Convs : c \notin Live <=> sessions[c] = NoSession
         /\ \A c \in Convs : sessions[c].n # 0 => c \in Live
BY RoomAssumption DEF RoomTyped, Live, Session, NoSession

\* The invariant of the room holds at the start.
LEMMA RoomInitInv == RoomInit => RoomInv
<1> SUFFICES ASSUME RoomInit PROVE RoomInv
  OBVIOUS
<1> USE RoomAssumption DEF RoomInit
<1>1. RoomTyped
  <2>1. sessions \in [Convs -> {NoSession} \cup Session]
    OBVIOUS
  <2>2. seen \in [1..MaxSessions -> SUBSET Addrs]
    OBVIOUS
  <2>3. clients \in [Convs -> [up : BOOLEAN, fresh : BOOLEAN, addr : Addrs]]
    <3>1. clients \in [Convs -> [up : {TRUE}, fresh : {TRUE}, addr : Addrs]]
      OBVIOUS
    <3> QED
      BY <3>1
  <2> QED
    BY <2>1, <2>2, <2>3 DEF RoomTyped
<1>2. Live = {}
  BY DEF Live
<1> QED
  BY <1>1, <1>2 DEF RoomInv, RoomIsSessions, NothingBefore, Settled, NoticesAgree

\* A step that leaves the numbers and addresses of the sessions alone.
LEMMA SameRoom ==
  ASSUME RoomInv, RoomTyped', made' = made, users' = users, seen' = seen,
         roams' = roams,
         \A c \in Convs : clients'[c].addr = clients[c].addr,
         Live' = Live,
         \A c \in Live : sessions'[c].n = sessions[c].n,
         roams = 0 => \A c \in Live : sessions'[c].addr = sessions[c].addr
  PROVE  RoomInv'
<1> USE DEF RoomInv
<1>0. Live \subseteq Convs
  BY DEF Live
<1>1. RoomIsSessions'
  BY <1>0 DEF RoomIsSessions
<1>2. NothingBefore'
  BY DEF NothingBefore
<1>3. Settled'
  BY <1>0 DEF Settled
<1>4. NoticesAgree'
  <2> SUFFICES ASSUME roams = 0, NEW c \in Live
               PROVE  seen[sessions'[c].n] =
                        { sessions'[d].addr : d \in { x \in Live : sessions'[x].n >= sessions'[c].n } }
    BY DEF NoticesAgree
  <2>1. { x \in Live : sessions'[x].n >= sessions'[c].n } = { x \in Live : sessions[x].n >= sessions[c].n }
    OBVIOUS
  <2>2. { sessions'[d].addr : d \in { x \in Live : sessions[x].n >= sessions[c].n } }
          = { sessions[d].addr : d \in { x \in Live : sessions[x].n >= sessions[c].n } }
    OBVIOUS
  <2> QED
    BY <2>1, <2>2 DEF NoticesAgree
<1> QED
  BY <1>1, <1>2, <1>3, <1>4

\* Time that passes keeps it.
LEMMA ElapseKeeps == RoomInv /\ Elapse => RoomInv'
<1> SUFFICES ASSUME RoomInv, Elapse PROVE RoomInv'
  OBVIOUS
<1> USE RoomAssumption DEF Elapse
<1>0. RoomTyped
  BY DEF RoomInv
<1>1. \A c \in Convs : \/ sessions'[c] = sessions[c]
                       \/ /\ c \in Live /\ sessions[c].idle <= KeepAlive
                          /\ sessions'[c] = [sessions[c] EXCEPT !.idle = @ + 1]
  OBVIOUS
<1>2. \A c \in Live : /\ sessions'[c] \in Session
                      /\ sessions'[c].n = sessions[c].n
                      /\ sessions'[c].addr = sessions[c].addr
  BY <1>0, <1>1, LiveTyped DEF Session
<1>3. \A c \in Convs \ Live : sessions'[c] = NoSession
  BY <1>1 DEF Live
<1>4. RoomTyped'
  <2>1. sessions' = [c \in Convs |-> sessions'[c]]
    OBVIOUS
  <2>2. \A c \in Convs : sessions'[c] \in {NoSession} \cup Session
    BY <1>2, <1>3
  <2> QED
    BY <1>0, <2>1, <2>2 DEF RoomTyped, Session
<1>5. Live' = Live
  BY <1>0, <1>2, <1>3, LiveTyped DEF Live, NoSession, Session
<1> QED
  BY <1>2, <1>4, <1>5, SameRoom

\* A client that goes away without a word keeps it.
LEMMA DieKeeps == ASSUME RoomInv, NEW c \in Convs, Die(c) PROVE RoomInv'
<1> USE DEF Die
<1>1. RoomTyped'
  BY DEF RoomInv, RoomTyped, Session
<1>2. Live' = Live /\ \A d \in Convs : clients'[d].addr = clients[d].addr
  BY DEF Live, RoomInv, RoomTyped
<1> QED
  BY <1>1, <1>2, SameRoom

\* A datagram for a session that lives keeps it.
LEMMA OldKeeps ==
  ASSUME RoomInv, NEW c \in Live, NEW zero \in BOOLEAN, NEW alive \in BOOLEAN, roams' = roams,
         clients' = [clients EXCEPT ![c].fresh = @ /\ ~zero],
         OldSession(c, alive)
  PROVE  RoomInv'
<1> USE RoomAssumption DEF OldSession
<1>0. RoomTyped /\ c \in Convs /\ sessions[c] \in Session
  BY LiveTyped DEF RoomInv
<1>1. /\ sessions'[c] \in Session /\ sessions'[c].n = sessions[c].n
      /\ sessions'[c].addr = clients[c].addr
      /\ \A d \in Convs \ {c} : sessions'[d] = sessions[d]
  <2>1. /\ sessions'[c] = [sessions[c] EXCEPT
              !.addr = clients[c].addr,
              !.idle = IF alive /\ sessions[c].hears THEN 0 ELSE sessions[c].idle]
        /\ \A d \in Convs \ {c} : sessions'[d] = sessions[d]
    BY <1>0 DEF RoomTyped
  <2>2. clients[c].addr \in Addrs /\ 0 \in 0..(KeepAlive + 1)
    BY <1>0 DEF RoomTyped
  <2> DEFINE i == IF alive /\ sessions[c].hears THEN 0 ELSE sessions[c].idle
  <2>3. i \in 0..(KeepAlive + 1)
    BY <1>0, <2>2 DEF Session
  <2> HIDE DEF i, OldSession
  <2>4. sessions'[c] = [sessions[c] EXCEPT !.addr = clients[c].addr, !.idle = i]
    BY <2>1 DEF i
  <2>5. sessions'[c] \in Session /\ sessions'[c].n = sessions[c].n /\ sessions'[c].addr = clients[c].addr
    <3>1. sessions'[c] = [n |-> sessions[c].n, addr |-> clients[c].addr,
                          hears |-> sessions[c].hears, idle |-> i]
      BY <1>0, <2>4 DEF Session
    <3>2. sessions[c].n \in 1..made /\ sessions[c].hears \in BOOLEAN
      BY <1>0 DEF Session
    <3>3. sessions'[c] \in Session
      BY <2>2, <2>3, <3>1, <3>2 DEF Session
    <3>4. sessions'[c].n = sessions[c].n
      BY <3>1
    <3>5. sessions'[c].addr = clients[c].addr
      BY <3>1
    <3> QED
      BY <3>3, <3>4, <3>5
  <2> QED
    BY <2>1, <2>5
<1>2. \A d \in Convs : clients'[d].addr = clients[d].addr
  BY <1>0 DEF RoomTyped
<1>3. RoomTyped'
  <2>1. clients' \in [Convs -> [up : BOOLEAN, fresh : BOOLEAN, addr : Addrs]]
    BY <1>0 DEF RoomTyped
  <2>2. sessions' \in [Convs -> {NoSession} \cup Session]
    BY <1>0, <1>1 DEF RoomTyped
  <2> QED
    BY <1>0, <2>1, <2>2 DEF RoomTyped, Session
<1>4. Live' = Live
  <2>1. sessions'[c].n # 0
    BY <1>0, <1>1, LiveTyped DEF RoomTyped
  <2>2. sessions'[c] # NoSession
    <3>1. NoSession.n = 0
      BY DEF NoSession
    <3> QED
      BY <2>1, <3>1
  <2> QED
    BY <1>0, <1>1, <2>2 DEF Live
<1>5. roams = 0 => \A d \in Live : sessions'[d].addr = sessions[d].addr
  BY <1>0, <1>1, LiveTyped DEF RoomInv, Settled
<1> QED
  BY <1>0, <1>1, <1>2, <1>3, <1>4, <1>5, LiveTyped, SameRoom

\* A datagram that makes a session keeps it.
LEMMA NewKeeps ==
  ASSUME RoomInv, NEW c \in Convs \ Live, NEW told \in BOOLEAN, NEW zero \in BOOLEAN, roams' = roams,
         clients' = [clients EXCEPT ![c].fresh = @ /\ ~zero],
         NewSession(c, told)
  PROVE  RoomInv'
<1> USE RoomAssumption
<1> DEFINE n == made + 1
           a == clients[c].addr
<1>0. RoomTyped /\ made \in Nat /\ n \in 1..MaxSessions /\ made' = n /\ a \in Addrs
  BY DEF RoomInv, RoomTyped, NewSession
<1>1. /\ sessions' = [sessions EXCEPT ![c] = [n |-> n, addr |-> a, hears |-> told, idle |-> 0]]
      /\ users' = users \cup {n}
      /\ seen' = Joined(seen, users', a)
  BY DEF NewSession
<1> HIDE DEF n, a
<1>2. /\ sessions'[c].n = n /\ sessions'[c].addr = a
      /\ \A d \in Convs \ {c} : sessions'[d] = sessions[d]
  BY <1>0, <1>1 DEF RoomTyped
<1>3. \A d \in Convs : clients'[d].addr = clients[d].addr
  BY <1>0 DEF RoomTyped
<1>4. n = made + 1
  BY DEF n
<1>5. Live' = Live \cup {c} /\ Live \subseteq Convs /\ c \notin Live
  BY <1>0, <1>1, <1>4 DEF Live, NoSession, RoomTyped
<1>6. \A k \in 1..MaxSessions : seen'[k] = IF k \in users' THEN seen[k] \cup {a} ELSE seen[k]
  BY <1>0, <1>1 DEF Joined, RoomTyped
<1>7. RoomTyped'
  <2>1. clients' \in [Convs -> [up : BOOLEAN, fresh : BOOLEAN, addr : Addrs]]
    BY <1>0 DEF RoomTyped
  <2>2. sessions' \in [Convs -> {NoSession} \cup Session']
    <3>1. sessions'[c] \in Session'
      BY <1>0, <1>1, <1>4 DEF RoomTyped, Session
    <3>2. \A d \in Convs \ {c} : sessions'[d] \in {NoSession} \cup Session'
      BY <1>0, <1>2, <1>4 DEF RoomTyped, Session
    <3>3. sessions' = [d \in Convs |-> sessions'[d]]
      BY <1>0, <1>1 DEF RoomTyped
    <3> QED
      BY <3>1, <3>2, <3>3
  <2>3. seen' \in [1..MaxSessions -> SUBSET Addrs]
    BY <1>0, <1>1 DEF Joined, RoomTyped
  <2>4. users' \subseteq 1..made'
    <3>1. users \subseteq 1..made /\ 1..made \subseteq 1..n /\ n \in 1..n
      BY <1>0, <1>4 DEF RoomTyped
    <3> QED
      BY <1>0, <1>1, <3>1
  <2>5. made' \in 0..MaxSessions
    BY <1>0
  <2> QED
    BY <1>0, <2>1, <2>2, <2>3, <2>4, <2>5 DEF RoomTyped
<1>8. RoomIsSessions'
  <2>1. \A d \in Live : sessions'[d].n = sessions[d].n /\ sessions[d].n # n
    BY <1>0, <1>2, <1>4, <1>5, LiveTyped
  <2>2. users' = { sessions'[d].n : d \in Live' }
    BY <1>1, <1>2, <1>5, <2>1 DEF RoomInv, RoomIsSessions
  <2> QED
    BY <1>2, <1>5, <2>1, <2>2 DEF RoomInv, RoomIsSessions
<1>9. NothingBefore'
  <2> SUFFICES ASSUME NEW k \in 1..MaxSessions, k > n PROVE seen'[k] = {}
    BY <1>0 DEF NothingBefore
  <2>1. k \notin users'
    BY <1>0, <1>1, <1>4 DEF RoomTyped
  <2>2. k > made
    BY <1>0, <1>4
  <2>3. seen[k] = {}
    BY <2>2 DEF RoomInv, NothingBefore
  <2> QED
    BY <1>6, <2>1, <2>3
<1>10. Settled'
  BY <1>2, <1>3, <1>5 DEF RoomInv, Settled, a
<1>11. NoticesAgree'
  <2> SUFFICES ASSUME roams = 0, NEW d \in Live'
               PROVE  seen'[sessions'[d].n] =
                        { sessions'[e].addr : e \in { x \in Live' : sessions'[x].n >= sessions'[d].n } }
    BY DEF NoticesAgree
  <2>1. \A x \in Live : sessions'[x] = sessions[x] /\ sessions[x].n \in 1..made
    BY <1>0, <1>2, <1>5, LiveTyped
  <2>2. CASE d = c
    <3>1. { x \in Live' : sessions'[x].n >= n } = {c}
      BY <1>0, <1>2, <1>4, <1>5, <2>1
    <3>2. seen'[n] = {a}
      <4>1. n > made /\ n \in users'
        BY <1>0, <1>1, <1>4
      <4>2. seen[n] = {}
        BY <1>0, <4>1 DEF RoomInv, NothingBefore
      <4> QED
        BY <1>0, <1>6, <4>1, <4>2
    <3> QED
      BY <1>2, <2>2, <3>1, <3>2
  <2>3. CASE d # c
    <3>0. d \in Live
      BY <1>5, <2>3
    <3> DEFINE k == sessions[d].n
    <3>1. k \in 1..MaxSessions /\ k \in users' /\ n >= k /\ sessions'[d].n = k
      BY <1>0, <1>1, <1>4, <2>1, <3>0 DEF RoomInv, RoomIsSessions
    <3> HIDE DEF k
    <3>2. seen'[k] = seen[k] \cup {a}
      BY <1>6, <3>1
    <3>3. seen[k] = { sessions[e].addr : e \in { x \in Live : sessions[x].n >= k } }
      BY <3>0 DEF RoomInv, NoticesAgree, k
    <3>4. { x \in Live' : sessions'[x].n >= k } = { x \in Live : sessions[x].n >= k } \cup {c}
      BY <1>2, <1>5, <2>1, <3>1
    <3>5. { sessions'[e].addr : e \in { x \in Live : sessions[x].n >= k } \cup {c} }
            = { sessions[e].addr : e \in { x \in Live : sessions[x].n >= k } } \cup {a}
      BY <1>2, <2>1
    <3> QED
      BY <3>1, <3>2, <3>3, <3>4, <3>5
  <2> QED
    BY <2>2, <2>3
<1> QED
  BY <1>7, <1>8, <1>9, <1>10, <1>11 DEF RoomInv

\* Closing a session that timed out keeps it.
LEMMA CloseKeeps == ASSUME RoomInv, NEW c \in Convs, CloseSession(c) PROVE RoomInv'
<1> USE RoomAssumption
<1> DEFINE n == sessions[c].n
           a == sessions[c].addr
<1>0. RoomTyped /\ c \in Live /\ n \in 1..made /\ a \in Addrs /\ made \in Nat
  BY LiveTyped DEF RoomInv, CloseSession, RoomTyped
<1>1. /\ sessions' = [sessions EXCEPT ![c] = NoSession]
      /\ users' = users \ {n}
      /\ seen' = Departed(seen, users', a)
      /\ UNCHANGED <<clients, made, roams>>
  BY DEF CloseSession
<1>2. sessions'[c] = NoSession /\ \A d \in Convs \ {c} : sessions'[d] = sessions[d]
  BY <1>0, <1>1 DEF RoomTyped
<1>3. Live' = Live \ {c} /\ Live \subseteq Convs
  BY <1>2 DEF Live
<1>4. \A x \in Live' : sessions'[x] = sessions[x] /\ sessions[x].n \in 1..made
                       /\ sessions[x].n # n /\ x \in Live
  BY <1>0, <1>2, <1>3, LiveTyped DEF RoomInv, RoomIsSessions
<1>5. \A k \in 1..MaxSessions : seen'[k] = IF k \in users' THEN seen[k] \ {a} ELSE seen[k]
  BY <1>0, <1>1 DEF Departed, RoomTyped
<1>6. RoomTyped'
  <2>1. sessions' \in [Convs -> {NoSession} \cup Session]
    BY <1>0, <1>1 DEF RoomTyped
  <2>2. seen' \in [1..MaxSessions -> SUBSET Addrs]
    BY <1>0, <1>1 DEF RoomTyped, Departed
  <2> QED
    BY <1>0, <1>1, <2>1, <2>2 DEF RoomTyped, Session
<1>7. RoomIsSessions'
  <2>1. users' = { sessions'[d].n : d \in Live' }
    BY <1>0, <1>1, <1>3, <1>4 DEF RoomInv, RoomIsSessions
  <2> QED
    BY <1>4, <2>1 DEF RoomInv, RoomIsSessions
<1>8. NothingBefore'
  <2> SUFFICES ASSUME NEW k \in 1..MaxSessions, k > made PROVE seen'[k] = {}
    BY <1>1 DEF NothingBefore
  <2>1. k \notin users'
    BY <1>0, <1>1 DEF RoomTyped
  <2> QED
    BY <1>5, <2>1 DEF RoomInv, NothingBefore
<1>9. Settled'
  BY <1>1, <1>4 DEF RoomInv, Settled
<1>10. NoticesAgree'
  <2> SUFFICES ASSUME roams = 0, NEW d \in Live'
               PROVE  seen'[sessions'[d].n] =
                        { sessions'[e].addr : e \in { x \in Live' : sessions'[x].n >= sessions'[d].n } }
    BY <1>1 DEF NoticesAgree
  <2> DEFINE k == sessions[d].n
             S == { x \in Live : sessions[x].n >= k }
  <2>1. k \in 1..MaxSessions /\ k \in users' /\ sessions'[d].n = k /\ d \in Live
    BY <1>0, <1>1, <1>4 DEF RoomInv, RoomIsSessions, RoomTyped
  <2>2. seen[k] = { sessions[e].addr : e \in S }
    BY <2>1 DEF RoomInv, NoticesAgree
  <2>3. { x \in Live' : sessions'[x].n >= k } = S \ {c}
    BY <1>3, <1>4
  <2>4. \A x \in Live \ {c} : sessions[x].addr # a
    BY <1>0, <1>3 DEF RoomInv, Settled
  <2>5. { sessions'[e].addr : e \in S \ {c} } = { sessions[e].addr : e \in S \ {c} }
    BY <1>3, <1>4
  <2> HIDE DEF k
  <2>6. { sessions[e].addr : e \in S \ {c} } = { sessions[e].addr : e \in S } \ {a}
    BY <2>4
  <2>7. seen'[k] = seen[k] \ {a}
    BY <1>5, <2>1
  <2> QED
    BY <2>1, <2>2, <2>3, <2>5, <2>6, <2>7
<1> QED
  BY <1>6, <1>7, <1>8, <1>9, <1>10 DEF RoomInv

\* A client that changes its address keeps it.
LEMMA RoamKeeps == ASSUME RoomInv, NEW c \in Convs, Roam(c) PROVE RoomInv'
<1> USE RoomAssumption
<1>1. roams' \in Nat /\ roams' # 0 /\ UNCHANGED <<sessions, users, seen, made>>
  BY DEF Roam, RoomInv, RoomTyped
<1>2. clients' \in [Convs -> [up : BOOLEAN, fresh : BOOLEAN, addr : Addrs]]
  BY DEF Roam, RoomInv, RoomTyped
<1>3. RoomTyped'
  BY <1>1, <1>2 DEF RoomInv, RoomTyped, Session
<1>4. RoomIsSessions' /\ NothingBefore'
  BY <1>1 DEF RoomInv, RoomIsSessions, NothingBefore, Live
<1> QED
  BY <1>1, <1>3, <1>4 DEF RoomInv, Settled, NoticesAgree

\* Every step keeps it.
LEMMA RoomStepKeeps == RoomInv /\ [RoomNext]_roomVars => RoomInv'
<1> SUFFICES ASSUME RoomInv, [RoomNext]_roomVars PROVE RoomInv'
  OBVIOUS
<1>1. CASE Elapse
  BY <1>1, ElapseKeeps
<1>2. ASSUME NEW c \in Convs, CloseSession(c) \/ Die(c) \/ Roam(c) PROVE RoomInv'
  BY <1>2, CloseKeeps, DieKeeps, RoamKeeps
<1>3. ASSUME NEW c \in Convs, NEW zero \in BOOLEAN, NEW alive \in BOOLEAN, Datagram(c, zero, alive)
      PROVE  RoomInv'
  <2> USE DEF Datagram
  <2>1. CASE sessions[c] = NoSession
    <3>1. c \notin Live /\ clients[c].fresh \in BOOLEAN
      BY <2>1 DEF Live, RoomInv, RoomTyped
    <3> QED
      BY <1>3, <2>1, <3>1, NewKeeps
  <2>2. CASE sessions[c] # NoSession
    <3>1. c \in Live
      BY <2>2 DEF Live
    <3> QED
      BY <1>3, <2>2, <3>1, OldKeeps
  <2> QED
    BY <2>1, <2>2
<1>4. CASE UNCHANGED roomVars
  <2>1. UNCHANGED <<sessions, users, seen, clients, made, roams>>
    BY <1>4 DEF roomVars
  <2>2. RoomTyped'
    BY <2>1 DEF RoomInv, RoomTyped, Session
  <2>3. Live' = Live
    BY <2>1 DEF Live
  <2> QED
    BY <2>1, <2>2, <2>3, SameRoom
<1> QED
  BY <1>1, <1>2, <1>3, <1>4 DEF RoomNext

\* The users of the chat room are its sessions, and what a user was told of who
\* came and left is who is there, through timeouts, deaf sessions and deaths of
\* clients (kcp_server.cc:34-80, chat_server.cc).
THEOREM RoomAgrees == RoomSpec => []RoomSound
<1>1. RoomInv => RoomSound
  <2> SUFFICES ASSUME RoomInv PROVE RoomSound
    OBVIOUS
  <2>1. RoomTypeOK
    BY LiveTyped DEF RoomInv, RoomTypeOK, RoomTyped
  <2> QED
    BY <2>1 DEF RoomInv, RoomSound
<1> QED
  BY <1>1, RoomInitInv, RoomStepKeeps, PTL DEF RoomSpec

-----------------------------------------------------------------------------
(* How often a buffer is in a sequence *)

\* How often something occurs is a number, zero for what does not occur.
LEMMA TimesNat ==
  ASSUME NEW S, NEW s \in Seq(S), NEW b
  PROVE  /\ IsFiniteSet({i \in DOMAIN s : s[i] = b}) /\ Times(s, b) \in Nat
         /\ (\A i \in DOMAIN s : s[i] # b) => Times(s, b) = 0
         /\ b \notin Range(s) => Times(s, b) = 0
<1>1. DOMAIN s = 1..Len(s) /\ Len(s) \in Nat
  OBVIOUS
<1>2. IsFiniteSet({i \in DOMAIN s : s[i] = b})
  <2>1. IsFiniteSet(1..Len(s))
    BY <1>1, FS_Interval
  <2>2. {i \in DOMAIN s : s[i] = b} \in SUBSET (1..Len(s))
    BY <1>1
  <2> QED
    BY <2>1, <2>2, FS_Subset
<1>3. ASSUME \A i \in DOMAIN s : s[i] # b PROVE Times(s, b) = 0
  <2>1. {i \in DOMAIN s : s[i] = b} = {}
    BY <1>3
  <2> QED
    BY <2>1, FS_EmptySet DEF Times
<1>4. b \notin Range(s) => \A i \in DOMAIN s : s[i] # b
  BY DEF Range
<1> QED
  BY <1>2, <1>3, <1>4, FS_CardinalityType DEF Times

\* How often it occurs in no element and in one.
LEMMA TimesFew ==
  ASSUME NEW S, NEW e \in S, NEW b
  PROVE  /\ Times(<<>>, b) = 0 /\ <<>> \in Seq(S)
         /\ Times(<<e>>, b) = (IF e = b THEN 1 ELSE 0) /\ <<e>> \in Seq(S)
<1>1. {i \in DOMAIN << >> : << >>[i] = b} = {}
  OBVIOUS
<1>2. DOMAIN <<e>> = {1} /\ <<e>>[1] = e
  OBVIOUS
<1>3. CASE e = b
  <2>1. {i \in DOMAIN <<e>> : <<e>>[i] = b} = {1}
    BY <1>2, <1>3
  <2> QED
    BY <1>1, <1>3, <2>1, FS_EmptySet, FS_Singleton DEF Times
<1>4. CASE e # b
  <2>1. {i \in DOMAIN <<e>> : <<e>>[i] = b} = {}
    BY <1>2, <1>4
  <2> QED
    BY <1>1, <1>4, <2>1, FS_EmptySet DEF Times
<1> QED
  BY <1>3, <1>4

\* FS_Union and FS_Bijection on the places in the two halves.
LEMMA TimesConcat ==
  ASSUME NEW S, NEW s \in Seq(S), NEW t \in Seq(S), NEW b
  PROVE  s \o t \in Seq(S) /\ Times(s \o t, b) = Times(s, b) + Times(t, b)
<1> DEFINE u == s \o t
           A == {i \in DOMAIN s : s[i] = b}
           C == {i \in DOMAIN t : t[i] = b}
           B == {i \in DOMAIN u : u[i] = b /\ i > Len(s)}
<1>1. /\ u \in Seq(S) /\ Len(s) \in Nat /\ Len(t) \in Nat
      /\ DOMAIN s = 1..Len(s) /\ DOMAIN t = 1..Len(t) /\ DOMAIN u = 1..(Len(s) + Len(t))
      /\ \A i \in DOMAIN u : u[i] = IF i <= Len(s) THEN s[i] ELSE t[i - Len(s)]
  BY ConcatProperties
<1> HIDE DEF u
<1>2. {i \in DOMAIN u : u[i] = b} = A \cup B /\ A \cap B = {}
  BY <1>1
<1>3. IsFiniteSet(A) /\ IsFiniteSet(C)
  BY TimesNat
<1>4. IsFiniteSet(B) /\ Cardinality(B) = Cardinality(C)
  <2> DEFINE f == [i \in C |-> i + Len(s)]
  <2>1. f \in [C -> B]
    BY <1>1
  <2>2. \A i, j \in C : f[i] = f[j] => i = j
    BY <1>1
  <2>3. \A k \in B : \E i \in C : f[i] = k
    <3> SUFFICES ASSUME NEW k \in B PROVE k - Len(s) \in C /\ f[k - Len(s)] = k
      OBVIOUS
    <3> QED
      BY <1>1
  <2> HIDE DEF f
  <2>4. f \in Bijection(C, B)
    BY <2>1, <2>2, <2>3 DEF Bijection, Injection, Surjection, IsInjective
  <2> QED
    BY <1>3, <2>4, FS_Bijection DEF ExistsBijection
<1>5. Cardinality(A \cup B) = Cardinality(A) + Cardinality(B)
  <2>1. Cardinality(A \cup B) = Cardinality(A) + Cardinality(B) - Cardinality(A \cap B)
    BY <1>3, <1>4, FS_Union
  <2>2. Cardinality(A \cap B) = 0
    BY <1>2, FS_EmptySet
  <2>3. Cardinality(A) \in Nat /\ Cardinality(B) \in Nat
    BY <1>3, <1>4, FS_CardinalityType
  <2> QED
    BY <2>1, <2>2, <2>3
<1> QED
  BY <1>1, <1>2, <1>4, <1>5 DEF Times, u

\* A sequence cut in two has as many as its parts together.
LEMMA TimesCut ==
  ASSUME NEW S, NEW s \in Seq(S), NEW n \in 0..Len(s)
  PROVE  /\ SubSeq(s, 1, n) \in Seq(S) /\ SubSeq(s, n + 1, Len(s)) \in Seq(S)
         /\ Len(SubSeq(s, 1, n)) = n /\ Len(SubSeq(s, n + 1, Len(s))) = Len(s) - n
         /\ \A b : Times(s, b) = Times(SubSeq(s, 1, n), b) + Times(SubSeq(s, n + 1, Len(s)), b)
<1>1. Len(s) \in Nat /\ n \in Int /\ \A i \in 1..Len(s) : s[i] \in S
  OBVIOUS
<1>2. SubSeq(s, 1, n) \in Seq(S) /\ Len(SubSeq(s, 1, n)) = n
  BY <1>1, SubSeqProperties
<1>3. SubSeq(s, n + 1, Len(s)) \in Seq(S) /\ Len(SubSeq(s, n + 1, Len(s))) = Len(s) - n
  <2>1. \A i \in n + 1 .. Len(s) : s[i] \in S
    BY <1>1
  <2>2. n + 1 \in Int /\ Len(s) \in Int
    BY <1>1
  <2>3. SubSeq(s, n + 1, Len(s)) \in Seq(S)
        /\ Len(SubSeq(s, n + 1, Len(s))) = IF n + 1 <= Len(s) THEN Len(s) - (n + 1) + 1 ELSE 0
    BY <2>1, <2>2, SubSeqProperties
  <2> QED
    BY <1>1, <2>3
<1>4. SubSeq(s, 1, n) \o SubSeq(s, n + 1, Len(s)) = s
  <2>1. SubSeq(s, 1, n) \o SubSeq(s, n + 1, Len(s)) = SubSeq(s, 1, Len(s))
    <3>1. 1 \in 1 .. Len(s) + 1 /\ n \in 1 - 1 .. Len(s) /\ Len(s) \in n .. Len(s)
      BY <1>1
    <3> QED
      BY <3>1, ConcatAdjacentSubSeq
  <2> QED
    BY <2>1, SubSeqFull
<1>5. ASSUME NEW b
      PROVE  Times(s, b) = Times(SubSeq(s, 1, n), b) + Times(SubSeq(s, n + 1, Len(s)), b)
  <2> DEFINE p == SubSeq(s, 1, n)
             q == SubSeq(s, n + 1, Len(s))
  <2>1. p \in Seq(S) /\ q \in Seq(S)
    BY <1>2, <1>3
  <2>2. p \o q = s
    BY <1>4
  <2> HIDE DEF p, q
  <2>3. Times(p \o q, b) = Times(p, b) + Times(q, b)
    BY <2>1, TimesConcat
  <2> QED
    BY <2>2, <2>3 DEF p, q
<1> QED
  BY <1>2, <1>3, <1>5

\* What a ring takes and what it leaves.
LEMMA RingTakes ==
  ASSUME NEW ring \in Seq(Bufs), Len(ring) <= PathRing, NEW s \in Seq(Bufs)
  PROVE  /\ ring \o Fits(ring, s) \in Seq(Bufs) /\ Len(ring \o Fits(ring, s)) <= PathRing
         /\ \A b \in Bufs \ Range(Left(ring, s)) :
               Times(ring \o Fits(ring, s), b) = Times(ring, b) + Times(s, b)
<1> USE PathAssumption
<1> DEFINE n == IF Len(s) <= PathRing - Len(ring) THEN Len(s) ELSE PathRing - Len(ring)
<1>1. n \in 0..Len(s) /\ n <= PathRing - Len(ring) /\ Len(ring) \in Nat
  OBVIOUS
<1>2. Fits(ring, s) = SubSeq(s, 1, n)
  BY DEF Fits
<1> HIDE DEF n
<1>3. Fits(ring, s) \in Seq(Bufs) /\ Len(Fits(ring, s)) = n
  BY <1>1, <1>2, TimesCut
<1>4. Left(ring, s) = SubSeq(s, n + 1, Len(s)) /\ Left(ring, s) \in Seq(Bufs)
  BY <1>1, <1>3, TimesCut DEF Left
<1>5. \A b : Times(s, b) = Times(Fits(ring, s), b) + Times(Left(ring, s), b)
  BY <1>1, <1>2, <1>4, TimesCut
<1>6. Len(ring \o Fits(ring, s)) = Len(ring) + n
  BY <1>3, ConcatProperties
<1>7. ASSUME NEW b \in Bufs, b \notin Range(Left(ring, s))
      PROVE  Times(ring \o Fits(ring, s), b) = Times(ring, b) + Times(s, b)
  <2>1. Times(Left(ring, s), b) = 0
    BY <1>4, <1>7, TimesNat
  <2>2. Times(ring \o Fits(ring, s), b) = Times(ring, b) + Times(Fits(ring, s), b)
    BY <1>3, TimesConcat
  <2>3. Times(Fits(ring, s), b) \in Nat
    BY <1>3, TimesNat
  <2> QED
    BY <1>5, <2>1, <2>2, <2>3
<1> QED
  BY <1>1, <1>3, <1>6, <1>7, TimesConcat
-----------------------------------------------------------------------------
(***************************************************************************)
(* The buffers of the stack and its ARP table.                             *)
(***************************************************************************)

Macs == {f.mac : f \in Frames} \cup {NoOne}

\* What the packet core still holds of its burst.
InBurst(b) == IF pktCore.pc = "poll" THEN 0
           ELSE Times(SubSeq(pktCore.burst, pktCore.i, Len(pktCore.burst)), b)

BuffersTyped ==
  /\ up \in BOOLEAN
  /\ pool \in [Bufs -> Nat] /\ kni \in [Bufs -> Nat]
  /\ ringIn \in Seq(Bufs) /\ Len(ringIn) <= PathRing
  /\ ringOut \in Seq(Bufs) /\ Len(ringOut) <= PathRing
  /\ port \in Seq(Bufs)
  /\ trouble \in [Bufs -> BOOLEAN]

PacketTyped ==
  /\ pktCore \in [pc : {"poll", "frame", "count", "handle"}, burst : Seq(Bufs), i : Nat]
  /\ pktCore.pc # "poll" => pktCore.i \in 1..Len(pktCore.burst)

TimerTyped ==
  /\ mainCore \in [pc : {"rx", "tx", "count", "ask"}, asks : Seq(Known), n : Nat, had : BOOLEAN]
  /\ mainCore.pc = "ask" => mainCore.asks # <<>>

\* A buffer with an IPv4 frame in it has one that arrived.
ContentArrived ==
  /\ content = [b \in Bufs |-> content[b]]
  /\ \A b \in Bufs : content[b].kind \in {"app", "icmp"} => content[b] \in Frames

TableTyped ==
  /\ table \in Seq([ip : Known, mac : Macs])
  /\ entries \in Nat
  /\ first \in [Known -> Macs]

\* The station the timer asks for, if it was in the table, is there still.
StillThere == mainCore.pc = "ask" /\ mainCore.had => Head(mainCore.asks) \in Sources

Holders == BuffersTyped /\ PacketTyped /\ ContentArrived /\ OneOwner
Arp     == TableTyped /\ TableIsFirstSeen
PathInv == Holders /\ Arp /\ TimerTyped /\ StillThere

\* The stations of the table are known ones.
LEMMA StationsTyped == Stations \in Seq(Known)
<1> DEFINE K == 1..Cardinality(Known)
<1>1. PICK f \in Bijection(K, Known) : TRUE
  BY PathAssumption, FS_CardinalityType DEF ExistsBijection
<1>2. f \in [K -> Known] /\ Range(f) = Known
  BY <1>1 DEF Bijection, Surjection, Injection, Range
<1>3. Stations \in [K -> Known]
  BY <1>2 DEF Stations
<1>4. Cardinality(Known) \in Nat
  BY PathAssumption, FS_CardinalityType
<1> QED
  BY <1>3, <1>4

\* A station is in the table with one address, and that is what a walk that goes
\* as far as the entry finds.
LEMMA Lookup ==
  ASSUME Arp, NEW ip \in Known, NEW n \in Nat
  PROVE  /\ ng_get_dst_macaddr(ip, n) # NoOne => ip \in Sources
         /\ ip \in Sources /\ Len(table) <= n => ng_get_dst_macaddr(ip, n) # NoOne
<1> DEFINE at == {i \in 1..Len(table) : table[i].ip = ip /\ i <= n}
<1>1. Len(table) \in Nat
  BY DEF Arp, TableTyped
<1>2. \A i, j \in at : i = j
  BY DEF Arp, TableIsFirstSeen
<1>3. ASSUME at = {} PROVE ng_get_dst_macaddr(ip, n) = NoOne
  BY <1>3 DEF ng_get_dst_macaddr
<1>4. ASSUME at # {} PROVE ip \in Sources /\ ng_get_dst_macaddr(ip, n) # NoOne
  <2>1. PICK i \in at : TRUE
    BY <1>4
  <2>2. \A j \in at : i <= j
    BY <1>1, <1>2
  <2>3. (CHOOSE k \in at : \A j \in at : k <= j) = i
    BY <1>2, <2>2
  <2>4. ng_get_dst_macaddr(ip, n) = table[i].mac
    BY <1>4, <2>3 DEF ng_get_dst_macaddr
  <2>5. ip \in Sources
    BY <2>1 DEF Sources
  <2>6. table[i].mac = first[ip] /\ first[ip] # NoOne
    BY <2>1, <2>5 DEF Arp, TableIsFirstSeen
  <2> QED
    BY <2>4, <2>5, <2>6
<1>5. ip \in Sources /\ Len(table) <= n => at # {}
  BY <1>1 DEF Sources
<1> QED
  BY <1>3, <1>4, <1>5

\* The owners of a buffer are counted place by place.
LEMMA OwnersSum ==
  ASSUME BuffersTyped, PacketTyped, NEW b \in Bufs
  PROVE  /\ Owners(b) = pool[b] + kni[b] + Times(ringIn, b) + Times(ringOut, b) + Times(port, b) + InBurst(b)
         /\ pool[b] \in Nat /\ kni[b] \in Nat /\ Times(ringIn, b) \in Nat
         /\ Times(ringOut, b) \in Nat /\ Times(port, b) \in Nat /\ InBurst(b) \in Nat
<1>1. InBurst(b) \in Nat
  <2>1. CASE pktCore.pc = "poll"
    BY <2>1 DEF InBurst
  <2>2. CASE pktCore.pc # "poll"
    <3>1. /\ pktCore.burst \in Seq(Bufs) /\ pktCore.i \in 1..Len(pktCore.burst)
          /\ Len(pktCore.burst) \in Nat /\ pktCore.i - 1 \in 0..Len(pktCore.burst)
          /\ (pktCore.i - 1) + 1 = pktCore.i
      BY <2>2 DEF PacketTyped
    <3>2. SubSeq(pktCore.burst, pktCore.i, Len(pktCore.burst)) \in Seq(Bufs)
      BY <3>1, TimesCut
    <3> QED
      BY <2>2, <3>2, TimesNat DEF InBurst
  <2> QED
    BY <2>1, <2>2
<1> QED
  BY <1>1, TimesNat DEF Owners, InBurst, BuffersTyped

\* The invariant of the buffers after a step that keeps the sum of what is not
\* in trouble.
LEMMA SameSum ==
  ASSUME Holders, BuffersTyped', PacketTyped', ContentArrived',
         \A b \in Bufs : ~trouble'[b] => ~trouble[b] /\
           pool'[b] + kni'[b] + Times(ringIn', b) + Times(ringOut', b) + Times(port', b) + InBurst(b)'
             = pool[b] + kni[b] + Times(ringIn, b) + Times(ringOut, b) + Times(port, b) + InBurst(b)
  PROVE  Holders'
<1>1. \A b \in Bufs : Owners(b) = pool[b] + kni[b] + Times(ringIn, b) + Times(ringOut, b) + Times(port, b) + InBurst(b)
  BY OwnersSum DEF Holders
<1>2. \A b \in Bufs :
        Owners(b)' = pool'[b] + kni'[b] + Times(ringIn', b) + Times(ringOut', b) + Times(port', b) + InBurst(b)'
  BY DEF Owners, InBurst
<1>3. OneOwner'
  BY <1>1, <1>2 DEF OneOwner, Holders
<1> QED
  BY <1>3 DEF Holders

\* Who is marked to be in trouble stays so.
LEMMA MarkTyped ==
  ASSUME BuffersTyped, NEW S, Mark(S)
  PROVE  /\ trouble' \in [Bufs -> BOOLEAN]
         /\ \A b \in Bufs : ~trouble'[b] => ~trouble[b] /\ b \notin S
BY DEF BuffersTyped, Mark

\* Steps that leave the table alone.
LEMMA SameArp ==
  ASSUME Arp, table' = table, entries' = entries, first' = first,
         pktCore.pc = "count" <=> pktCore'.pc = "count"
  PROVE  Arp' /\ Sources' = Sources
BY DEF Arp, TableTyped, TableIsFirstSeen, Sources

\* The invariant of the buffers holds at the start.
LEMMA PathInitInv == PathInit => PathInv
<1> SUFFICES ASSUME PathInit PROVE PathInv
  OBVIOUS
<1> USE PathAssumption DEF PathInit
<1>1. BuffersTyped
  BY DEF BuffersTyped
<1>2. PacketTyped
  BY DEF PacketTyped, PollIdle
<1>3. ContentArrived
  BY DEF ContentArrived, Nothing
<1>4. OneOwner
  <2> SUFFICES ASSUME NEW b \in Bufs PROVE Owners(b) = 1
    BY DEF OneOwner
  <2>1. Times(<<>>, b) = 0
    BY TimesFew
  <2>2. InBurst(b) = 0
    BY DEF InBurst, PollIdle
  <2>3. Owners(b) = pool[b] + kni[b] + Times(ringIn, b) + Times(ringOut, b) + Times(port, b) + InBurst(b)
    BY <1>1, <1>2, OwnersSum
  <2>4. pool[b] = 1 /\ kni[b] = 0
    OBVIOUS
  <2>5. Times(ringIn, b) = 0 /\ Times(ringOut, b) = 0 /\ Times(port, b) = 0
    BY <2>1
  <2> QED
    BY <2>2, <2>3, <2>4, <2>5
<1>5. TableTyped /\ Len(table) = 0
  <2>1. table \in Seq([ip : Known, mac : Macs]) /\ Len(table) = 0
    OBVIOUS
  <2>2. first \in [Known -> Macs]
    BY DEF Macs
  <2> QED
    BY <2>1, <2>2 DEF TableTyped
<1>6. Sources = {}
  BY <1>5 DEF Sources
<1>7. TableIsFirstSeen
  <2>1. pktCore.pc # "count"
    BY DEF PollIdle
  <2> QED
    BY <1>5, <1>6, <2>1 DEF TableIsFirstSeen
<1>8. TimerTyped /\ StillThere
  BY DEF TimerTyped, StillThere, Asleep
<1> QED
  BY <1>1, <1>2, <1>3, <1>4, <1>5, <1>7, <1>8 DEF PathInv, Holders, Arp

\* The main core receiving a burst keeps it.
LEMMA RxKeeps == ASSUME PathInv, Rx PROVE PathInv'
<1> USE PathAssumption
<1>1. PICK n \in 0..PathBurst : \E fs \in [1..n -> Frames], bs \in [1..n -> Bufs] :
       /\ \A b \in Bufs : Times(bs, b) <= pool[b]
       /\ pool' = [b \in Bufs |-> pool[b] - Times(bs, b)]
       /\ content' = [b \in Bufs |-> IF b \in Range(bs) THEN fs[CHOOSE i \in 1..n : bs[i] = b] ELSE content[b]]
       /\ ringIn' = ringIn \o Fits(ringIn, bs)
       /\ Mark(Range(Left(ringIn, bs)))
  BY DEF Rx
<1>2. PICK fs \in [1..n -> Frames], bs \in [1..n -> Bufs] :
       /\ \A b \in Bufs : Times(bs, b) <= pool[b]
       /\ pool' = [b \in Bufs |-> pool[b] - Times(bs, b)]
       /\ content' = [b \in Bufs |-> IF b \in Range(bs) THEN fs[CHOOSE i \in 1..n : bs[i] = b] ELSE content[b]]
       /\ ringIn' = ringIn \o Fits(ringIn, bs)
       /\ Mark(Range(Left(ringIn, bs)))
  BY <1>1
<1>3. /\ mainCore' = [mainCore EXCEPT !.pc = "tx"]
      /\ UNCHANGED <<up, ringOut, port, kni, pktCore, table, entries, first>>
  BY DEF Rx
<1>4. bs \in Seq(Bufs)
  OBVIOUS
<1>5. BuffersTyped /\ PacketTyped /\ ContentArrived
  BY DEF PathInv, Holders
<1>6. /\ ringIn' \in Seq(Bufs) /\ Len(ringIn') <= PathRing
      /\ \A b \in Bufs \ Range(Left(ringIn, bs)) : Times(ringIn', b) = Times(ringIn, b) + Times(bs, b)
  BY <1>2, <1>4, <1>5, RingTakes DEF BuffersTyped
<1>7. /\ trouble' \in [Bufs -> BOOLEAN]
      /\ \A b \in Bufs : ~trouble'[b] => ~trouble[b] /\ b \notin Range(Left(ringIn, bs))
  BY <1>2, <1>5, MarkTyped
<1>8. pool' \in [Bufs -> Nat]
  <2>1. \A b \in Bufs : Times(bs, b) \in Nat /\ pool[b] \in Nat
    BY <1>4, <1>5, TimesNat DEF BuffersTyped
  <2>2. \A b \in Bufs : pool[b] - Times(bs, b) \in Nat
    BY <1>2, <2>1
  <2> QED
    BY <1>2, <2>2
<1>9. BuffersTyped' /\ PacketTyped'
  BY <1>3, <1>5, <1>6, <1>7, <1>8 DEF BuffersTyped, PacketTyped
<1>10. ContentArrived'
  <2>1. content' = [b \in Bufs |-> content'[b]]
    BY <1>2
  <2>2. ASSUME NEW b \in Bufs, content'[b].kind \in {"app", "icmp"} PROVE content'[b] \in Frames
    <3>1. CASE b \in Range(bs)
      <4>1. PICK j \in 1..n : bs[j] = b
        BY <3>1 DEF Range
      <4>2. (CHOOSE i \in 1..n : bs[i] = b) \in 1..n
        BY <4>1
      <4>3. content'[b] = fs[CHOOSE i \in 1..n : bs[i] = b]
        BY <1>2, <3>1
      <4> QED
        BY <4>2, <4>3
    <3>2. CASE b \notin Range(bs)
      <4>1. content'[b] = content[b]
        BY <1>2, <3>2
      <4> QED
        BY <1>5, <2>2, <4>1 DEF ContentArrived
    <3> QED
      BY <3>1, <3>2
  <2> QED
    BY <2>1, <2>2 DEF ContentArrived
<1>11. Holders'
  <2> SUFFICES ASSUME NEW b \in Bufs, ~trouble'[b]
               PROVE ~trouble[b] /\
                 pool'[b] + kni'[b] + Times(ringIn', b) + Times(ringOut', b) + Times(port', b) + InBurst(b)'
                   = pool[b] + kni[b] + Times(ringIn, b) + Times(ringOut, b) + Times(port, b) + InBurst(b)
    BY <1>9, <1>10, SameSum DEF PathInv
  <2>1. Times(ringIn', b) = Times(ringIn, b) + Times(bs, b) /\ ~trouble[b]
    BY <1>6, <1>7
  <2>2. pool'[b] = pool[b] - Times(bs, b)
    BY <1>2
  <2>3. kni'[b] = kni[b] /\ Times(ringOut', b) = Times(ringOut, b) /\ Times(port', b) = Times(port, b) /\ InBurst(b)' = InBurst(b)
    BY <1>3 DEF InBurst
  <2>4. Times(bs, b) \in Nat
    BY <1>4, TimesNat
  <2> QED
    BY <1>5, <2>1, <2>2, <2>3, <2>4, OwnersSum
<1>12. Arp' /\ Sources' = Sources
  BY <1>3, SameArp DEF PathInv
<1>13. TimerTyped' /\ StillThere'
  BY <1>3 DEF PathInv, TimerTyped, StillThere
<1> QED
  BY <1>11, <1>12, <1>13 DEF PathInv

\* The main core sending a burst keeps it.
LEMMA TxKeeps == ASSUME PathInv, Tx PROVE PathInv'
<1> USE PathAssumption
<1> DEFINE n  == IF Len(ringOut) < PathBurst THEN Len(ringOut) ELSE PathBurst
           tx == SubSeq(ringOut, 1, n)
           rest == SubSeq(ringOut, n + 1, Len(ringOut))
<1>1. BuffersTyped /\ PacketTyped /\ ContentArrived
  BY DEF PathInv, Holders
<1>2. n \in 0..Len(ringOut) /\ ringOut \in Seq(Bufs) /\ Len(ringOut) \in Nat
  BY <1>1 DEF BuffersTyped
<1>3. PICK k \in 0..n : port' = port \o SubSeq(tx, 1, k) /\ Mark(Range(SubSeq(tx, 1, k)))
  BY DEF Tx
<1>4. /\ ringOut' = rest /\ pool' = Plus(pool, tx)
      /\ mainCore' = [mainCore EXCEPT !.pc = "rx"]
      /\ UNCHANGED <<up, ringIn, kni, content, pktCore, table, entries, first>>
  BY DEF Tx
<1> HIDE DEF n
<1>5. /\ tx \in Seq(Bufs) /\ rest \in Seq(Bufs) /\ Len(tx) = n /\ Len(rest) <= PathRing
      /\ \A b : Times(ringOut, b) = Times(tx, b) + Times(rest, b)
  <2>1. /\ tx \in Seq(Bufs) /\ rest \in Seq(Bufs) /\ Len(tx) = n /\ Len(rest) = Len(ringOut) - n
        /\ \A b : Times(ringOut, b) = Times(tx, b) + Times(rest, b)
    BY <1>2, TimesCut
  <2>2. Len(ringOut) - n <= PathRing
    BY <1>1, <1>2 DEF BuffersTyped
  <2> QED
    BY <2>1, <2>2
<1> HIDE DEF tx, rest
<1>6. SubSeq(tx, 1, k) \in Seq(Bufs)
  BY <1>5, TimesCut
<1> DEFINE sent == SubSeq(tx, 1, k)
<1> HIDE DEF sent
<1>7. /\ trouble' \in [Bufs -> BOOLEAN]
      /\ \A b \in Bufs : ~trouble'[b] => ~trouble[b] /\ b \notin Range(sent)
  BY <1>1, <1>3, MarkTyped DEF sent
<1>8. /\ port' \in Seq(Bufs)
      /\ \A b \in Bufs \ Range(sent) : Times(port', b) = Times(port, b)
  <2>1. sent \in Seq(Bufs) /\ port' = port \o sent /\ port \in Seq(Bufs)
    BY <1>1, <1>3, <1>6 DEF BuffersTyped, sent
  <2>2. port' \in Seq(Bufs)
    BY <2>1, TimesConcat
  <2>3. ASSUME NEW b \in Bufs \ Range(sent) PROVE Times(port', b) = Times(port, b)
    <3>1. Times(port', b) = Times(port, b) + Times(sent, b)
      BY <2>1, TimesConcat
    <3>2. Times(sent, b) = 0 /\ Times(port, b) \in Nat
      BY <2>1, <2>3, TimesNat
    <3> QED
      BY <3>1, <3>2
  <2> QED
    BY <2>2, <2>3
<1>9. pool' \in [Bufs -> Nat] /\ \A b \in Bufs : pool'[b] = pool[b] + Times(tx, b) /\ Times(tx, b) \in Nat
  <2>1. \A b \in Bufs : Times(tx, b) \in Nat /\ pool[b] \in Nat
    BY <1>1, <1>5, TimesNat DEF BuffersTyped
  <2> QED
    BY <1>4, <2>1 DEF Plus
<1>10. BuffersTyped' /\ PacketTyped' /\ ContentArrived'
  BY <1>1, <1>4, <1>5, <1>7, <1>8, <1>9 DEF BuffersTyped, PacketTyped, ContentArrived
<1>11. Holders'
  <2> SUFFICES ASSUME NEW b \in Bufs, ~trouble'[b]
               PROVE ~trouble[b] /\
                 pool'[b] + kni'[b] + Times(ringIn', b) + Times(ringOut', b) + Times(port', b) + InBurst(b)'
                   = pool[b] + kni[b] + Times(ringIn, b) + Times(ringOut, b) + Times(port, b) + InBurst(b)
    BY <1>10, SameSum DEF PathInv
  <2>1. ~trouble[b] /\ Times(port', b) = Times(port, b)
    BY <1>7, <1>8
  <2>2. Times(ringOut, b) = Times(tx, b) + Times(ringOut', b) /\ Times(ringOut', b) \in Nat
    BY <1>4, <1>5, TimesNat
  <2>3. kni'[b] = kni[b] /\ Times(ringIn', b) = Times(ringIn, b) /\ InBurst(b)' = InBurst(b)
    BY <1>4 DEF InBurst
  <2> QED
    BY <1>1, <1>9, <2>1, <2>2, <2>3, OwnersSum
<1>12. Arp' /\ Sources' = Sources
  BY <1>4, SameArp DEF PathInv
<1>13. TimerTyped' /\ StillThere'
  BY <1>4 DEF PathInv, TimerTyped, StillThere
<1> QED
  BY <1>11, <1>12, <1>13 DEF PathInv

\* Steps of the timer that touch no buffer.
LEMMA SameHolders ==
  ASSUME Holders, UNCHANGED <<up, pool, ringIn, ringOut, port, kni, content, pktCore, trouble>>
  PROVE  Holders'
<1>1. BuffersTyped' /\ PacketTyped' /\ ContentArrived'
  BY DEF Holders, BuffersTyped, PacketTyped, ContentArrived
<1>2. \A b \in Bufs : InBurst(b)' = InBurst(b)
  BY DEF InBurst
<1> QED
  BY <1>1, <1>2, SameSum

\* The timer starting and counting keeps it.
LEMMA TimerKeeps == ASSUME PathInv, Timer \/ TimerCount PROVE PathInv'
<1>1. Holders'
  BY SameHolders DEF PathInv, Timer, TimerCount, ghosts
<1>2. Arp' /\ Sources' = Sources
  BY SameArp DEF PathInv, Timer, TimerCount, ghosts
<1>3. TimerTyped' /\ StillThere'
  <2>1. CASE Timer
    BY <2>1, StationsTyped DEF Timer, Asleep, TimerTyped, StillThere
  <2>2. CASE TimerCount
    <3>1. entries \in Nat /\ TimerTyped
      BY DEF PathInv, Arp, TableTyped
    <3>2. /\ mainCore.asks # <<>>
          /\ mainCore' = [mainCore EXCEPT !.pc = "ask", !.n = entries, !.had = Head(mainCore.asks) \in Sources]
      BY <2>2 DEF TimerCount
    <3> DEFINE h == Head(mainCore.asks) \in Sources
    <3>3. h \in BOOLEAN /\ mainCore' = [mainCore EXCEPT !.pc = "ask", !.n = entries, !.had = h]
      BY <3>2
    <3> HIDE DEF h
    <3>4. TimerTyped' /\ mainCore'.asks = mainCore.asks /\ mainCore'.had = h
      BY <3>1, <3>2, <3>3 DEF TimerTyped
    <3> QED
      BY <1>2, <3>4 DEF StillThere, h
  <2> QED
    BY <2>1, <2>2
<1> QED
  BY <1>1, <1>2, <1>3 DEF PathInv

\* A frame the stack makes itself is none that arrived.
LEMMA SendKeeps ==
  ASSUME PathInv, NEW f, f.kind \notin {"app", "icmp"}, Send(f, ringOut),
         UNCHANGED <<ringIn, port, kni, pktCore>>
  PROVE  Holders'
<1> USE PathAssumption
<1>1. BuffersTyped /\ PacketTyped /\ ContentArrived /\ Holders
  BY DEF PathInv, Holders
<1>2. CASE up' = FALSE /\ UNCHANGED <<pool, content, ringOut, trouble>>
  <2>1. BuffersTyped' /\ PacketTyped' /\ ContentArrived'
    BY <1>1, <1>2 DEF BuffersTyped, PacketTyped, ContentArrived
  <2>2. \A b \in Bufs : InBurst(b)' = InBurst(b)
    BY DEF InBurst
  <2> QED
    BY <1>1, <1>2, <2>1, <2>2, SameSum
<1>3. ASSUME NEW c \in Bufs,
             /\ pool[c] > 0
             /\ pool' = [pool EXCEPT ![c] = @ - 1]
             /\ content' = [content EXCEPT ![c] = f]
             /\ ringOut' = ringOut \o Fits(ringOut, <<c>>)
             /\ Mark(Range(Left(ringOut, <<c>>)))
             /\ UNCHANGED up
      PROVE  Holders'
  <2>1. <<c>> \in Seq(Bufs) /\ \A b : Times(<<c>>, b) = IF c = b THEN 1 ELSE 0
    BY TimesFew
  <2>2. /\ ringOut' \in Seq(Bufs) /\ Len(ringOut') <= PathRing
        /\ \A b \in Bufs \ Range(Left(ringOut, <<c>>)) : Times(ringOut', b) = Times(ringOut, b) + Times(<<c>>, b)
    BY <1>1, <1>3, <2>1, RingTakes DEF BuffersTyped
  <2>3. /\ trouble' \in [Bufs -> BOOLEAN]
        /\ \A b \in Bufs : ~trouble'[b] => ~trouble[b] /\ b \notin Range(Left(ringOut, <<c>>))
    BY <1>1, <1>3, MarkTyped
  <2>4. pool' \in [Bufs -> Nat] /\ \A b \in Bufs : pool'[b] = pool[b] - (IF c = b THEN 1 ELSE 0)
    BY <1>1, <1>3 DEF BuffersTyped
  <2>5. BuffersTyped' /\ PacketTyped'
    BY <1>1, <1>3, <2>2, <2>3, <2>4 DEF BuffersTyped, PacketTyped
  <2>6. ContentArrived'
    <3>1. \A b \in Bufs : content'[b] = IF b = c THEN f ELSE content[b]
      BY <1>1, <1>3 DEF ContentArrived
    <3>2. content' = [b \in Bufs |-> content'[b]]
      BY <1>1, <1>3 DEF ContentArrived
    <3> QED
      BY <1>1, <3>1, <3>2 DEF ContentArrived
  <2> SUFFICES ASSUME NEW b \in Bufs, ~trouble'[b]
               PROVE ~trouble[b] /\
                 pool'[b] + kni'[b] + Times(ringIn', b) + Times(ringOut', b) + Times(port', b) + InBurst(b)'
                   = pool[b] + kni[b] + Times(ringIn, b) + Times(ringOut, b) + Times(port, b) + InBurst(b)
    BY <1>1, <2>5, <2>6, SameSum
  <2>7. Times(ringOut', b) = Times(ringOut, b) + Times(<<c>>, b) /\ ~trouble[b]
    BY <2>2, <2>3
  <2>8. kni'[b] = kni[b] /\ Times(ringIn', b) = Times(ringIn, b) /\ Times(port', b) = Times(port, b) /\ InBurst(b)' = InBurst(b)
    BY DEF InBurst
  <2> QED
    BY <1>1, <2>1, <2>4, <2>7, <2>8, OwnersSum
<1> QED
  BY <1>2, <1>3 DEF Send

\* The timer asking for one station keeps it.
LEMMA AskKeeps == ASSUME PathInv, TimerAsk PROVE PathInv'
<1> DEFINE ip == Head(mainCore.asks)
           f  == [kind |-> "request", src |-> ip, mac |-> ng_get_dst_macaddr(ip, mainCore.n)]
<1>1. Send(f, ringOut) /\ UNCHANGED <<ringIn, port, kni, pktCore, table, entries, first>>
  BY DEF TimerAsk
<1>2. f.kind \notin {"app", "icmp"}
  OBVIOUS
<1> HIDE DEF f
<1>3. Holders'
  BY <1>1, <1>2, SendKeeps
<1>4. Arp' /\ Sources' = Sources
  BY <1>1, SameArp DEF PathInv
<1>5. TimerTyped' /\ StillThere'
  <2>1. TimerTyped /\ mainCore.pc = "ask" /\ mainCore.asks # <<>>
    BY DEF PathInv, TimerAsk, TimerTyped
  <2>2. CASE mainCore' = Asleep
    BY <2>2 DEF Asleep, TimerTyped, StillThere
  <2>3. CASE mainCore' = [mainCore EXCEPT !.pc = "count", !.asks = Tail(@)]
    <3>1. Tail(mainCore.asks) \in Seq(Known)
      BY <2>1 DEF TimerTyped
    <3> QED
      BY <2>1, <2>3, <3>1 DEF TimerTyped, StillThere
  <2> QED
    BY <2>2, <2>3 DEF TimerAsk
<1> QED
  BY <1>3, <1>4, <1>5 DEF PathInv

\* The packet core sending what the sockets hold keeps it.
LEMMA OutKeeps == ASSUME PathInv, Out PROVE PathInv'
<1>1. PICK ip \in Known :
        LET mac == ng_get_dst_macaddr(ip, entries)
        IN  Send([kind |-> IF mac = NoOne THEN "request" ELSE "answer", src |-> ip, mac |-> mac], ringOut)
  BY DEF Out
<1> DEFINE mac == ng_get_dst_macaddr(ip, entries)
           f   == [kind |-> IF mac = NoOne THEN "request" ELSE "answer", src |-> ip, mac |-> mac]
<1>2. Send(f, ringOut) /\ UNCHANGED <<ringIn, port, kni, mainCore, pktCore, table, entries, first>>
  BY <1>1 DEF Out
<1>3. f.kind \notin {"app", "icmp"}
  OBVIOUS
<1> HIDE DEF f
<1>4. Holders'
  BY <1>2, <1>3, SendKeeps
<1>5. Arp' /\ Sources' = Sources
  BY <1>2, SameArp DEF PathInv
<1> QED
  BY <1>2, <1>4, <1>5 DEF PathInv, TimerTyped, StillThere

\* The packet core taking a burst from its ring keeps it.
LEMMA PollKeeps == ASSUME PathInv, Poll PROVE PathInv'
<1> USE PathAssumption
<1> DEFINE n == IF Len(ringIn) < PathBurst THEN Len(ringIn) ELSE PathBurst
           taken == SubSeq(ringIn, 1, n)
           rest  == SubSeq(ringIn, n + 1, Len(ringIn))
<1>1. BuffersTyped /\ PacketTyped /\ ContentArrived /\ Holders
  BY DEF PathInv, Holders
<1>2. n \in 1..Len(ringIn) /\ ringIn \in Seq(Bufs) /\ Len(ringIn) \in Nat
  BY <1>1 DEF BuffersTyped, Poll
<1>3. /\ pktCore.pc = "poll" /\ ringIn' = rest
      /\ pktCore' = [pc |-> "frame", burst |-> taken, i |-> 1]
      /\ UNCHANGED <<up, pool, ringOut, port, kni, content, mainCore, table, entries, trouble, first>>
  BY DEF Poll, ghosts
<1> HIDE DEF n
<1>4. /\ taken \in Seq(Bufs) /\ rest \in Seq(Bufs) /\ Len(taken) = n /\ Len(rest) <= PathRing
      /\ \A b : Times(ringIn, b) = Times(taken, b) + Times(rest, b)
  <2>1. /\ taken \in Seq(Bufs) /\ rest \in Seq(Bufs) /\ Len(taken) = n /\ Len(rest) = Len(ringIn) - n
        /\ \A b : Times(ringIn, b) = Times(taken, b) + Times(rest, b)
    <3>1. n \in 0..Len(ringIn)
      BY <1>2
    <3> QED
      BY <1>2, <3>1, TimesCut
  <2>2. Len(ringIn) - n <= PathRing
    BY <1>1, <1>2 DEF BuffersTyped
  <2> QED
    BY <2>1, <2>2
<1> HIDE DEF taken, rest
<1>5. BuffersTyped' /\ PacketTyped' /\ ContentArrived'
  <2>1. PacketTyped'
    BY <1>2, <1>3, <1>4 DEF PacketTyped
  <2> QED
    BY <1>1, <1>3, <1>4, <2>1 DEF BuffersTyped, ContentArrived
<1>6. Holders'
  <2> SUFFICES ASSUME NEW b \in Bufs, ~trouble'[b]
               PROVE ~trouble[b] /\
                 pool'[b] + kni'[b] + Times(ringIn', b) + Times(ringOut', b) + Times(port', b) + InBurst(b)'
                   = pool[b] + kni[b] + Times(ringIn, b) + Times(ringOut, b) + Times(port, b) + InBurst(b)
    BY <1>1, <1>5, SameSum
  <2>1. InBurst(b) = 0
    BY <1>3 DEF InBurst
  <2>2. InBurst(b)' = Times(taken, b)
    <3>1. SubSeq(taken, 1, Len(taken)) = taken
      BY <1>4, SubSeqFull
    <3> QED
      BY <1>3, <3>1 DEF InBurst
  <2>3. Times(ringIn, b) = Times(taken, b) + Times(ringIn', b) /\ Times(taken, b) \in Nat /\ Times(ringIn', b) \in Nat
    BY <1>3, <1>4, TimesNat
  <2>4. pool'[b] = pool[b] /\ kni'[b] = kni[b] /\ Times(ringOut', b) = Times(ringOut, b) /\ Times(port', b) = Times(port, b)
    BY <1>3
  <2> QED
    BY <1>1, <1>3, <2>1, <2>2, <2>3, <2>4, OwnersSum
<1>7. Arp' /\ Sources' = Sources
  BY <1>3, SameArp DEF PathInv
<1> QED
  BY <1>3, <1>6, <1>7 DEF PathInv, TimerTyped, StillThere

\* The packet core is done with a frame.
LEMMA NextFrame ==
  ASSUME PacketTyped, pktCore.pc # "poll"
  PROVE  /\ At \in Bufs
         /\ \A b \in Bufs : InBurst(b) = (IF At = b THEN 1 ELSE 0) +
                Times(SubSeq(pktCore.burst, pktCore.i + 1, Len(pktCore.burst)), b)
         /\ pktCore' = NextOne =>
              /\ PacketTyped' /\ pktCore'.pc # "count"
              /\ \A b \in Bufs : InBurst(b) = (IF At = b THEN 1 ELSE 0) + InBurst(b)'
<1> DEFINE s == pktCore.burst
           i == pktCore.i
           rest == SubSeq(s, i + 1, Len(s))
<1>1. s \in Seq(Bufs) /\ i \in 1..Len(s) /\ Len(s) \in Nat
  BY DEF PacketTyped
<1>2. At = s[i] /\ At \in Bufs
  BY <1>1 DEF At
<1>3. rest \in Seq(Bufs)
  BY <1>1, TimesCut
<1>4. SubSeq(s, i, Len(s)) = <<At>> \o rest
  <2>1. Len(s) \in i..Len(s)
    BY <1>1
  <2> QED
    BY <1>1, <1>2, <2>1, SubSeqRecursiveFirst
<1>5. ASSUME NEW b \in Bufs PROVE InBurst(b) = (IF At = b THEN 1 ELSE 0) + Times(rest, b)
  <2> HIDE DEF s, i, rest
  <2>0. <<At>> \in Seq(Bufs)
    BY <1>2
  <2>1. Times(<<At>>, b) = IF At = b THEN 1 ELSE 0
    BY <1>2, TimesFew
  <2>2. Times(<<At>> \o rest, b) = Times(<<At>>, b) + Times(rest, b)
    <3> DEFINE h == <<At>>
    <3>1. h \in Seq(Bufs)
      BY <2>0
    <3> HIDE DEF h
    <3>2. Times(h \o rest, b) = Times(h, b) + Times(rest, b)
      BY <1>3, <3>1, TimesConcat
    <3> QED
      BY <3>2 DEF h
  <2>3. InBurst(b) = Times(SubSeq(s, i, Len(s)), b)
    BY DEF InBurst, s, i
  <2> QED
    BY <1>4, <2>1, <2>2, <2>3
<1>6. ASSUME pktCore' = NextOne
      PROVE  /\ PacketTyped' /\ pktCore'.pc # "count"
             /\ \A b \in Bufs : InBurst(b)' = Times(rest, b)
  <2>1. CASE AtEnd
    <3>1. pktCore' = PollIdle
      BY <1>6, <2>1 DEF NextOne
    <3>2. rest = <<>>
      <4>1. i = Len(s)
        BY <2>1 DEF AtEnd
      <4> QED
        BY <1>1, <4>1, SubSeqEmpty
    <3>3. \A b : Times(rest, b) = 0
      <4>1. \A b : {k \in DOMAIN << >> : << >>[k] = b} = {}
        OBVIOUS
      <4> QED
        BY <3>2, <4>1, FS_EmptySet DEF Times
    <3> QED
      BY <3>1, <3>3 DEF PollIdle, PacketTyped, InBurst
  <2>2. CASE ~AtEnd
    <3>1. pktCore' = [pktCore EXCEPT !.pc = "frame", !.i = @ + 1]
      BY <1>6, <2>2 DEF NextOne
    <3>2. i + 1 \in 1..Len(s)
      BY <1>1, <2>2 DEF AtEnd
    <3>3. /\ pktCore'.pc = "frame" /\ pktCore'.burst = s /\ pktCore'.i = i + 1
          /\ pktCore' \in [pc : {"poll", "frame", "count", "handle"}, burst : Seq(Bufs), i : Nat]
      <4>1. pktCore \in [pc : {"poll", "frame", "count", "handle"}, burst : Seq(Bufs), i : Nat]
        BY DEF PacketTyped
      <4>2. pktCore' = [pc |-> "frame", burst |-> s, i |-> i + 1]
        BY <3>1, <4>1
      <4>3. i + 1 \in Nat
        BY <1>1
      <4> QED
        BY <1>1, <4>2, <4>3
    <3> QED
      BY <3>2, <3>3 DEF PacketTyped, InBurst
  <2> QED
    BY <2>1, <2>2
<1> QED
  BY <1>2, <1>5, <1>6

\* Inserting a station in the ARP table keeps it.
LEMMA InsertKeeps == ASSUME PathInv, ng_arp_entry_insert PROVE PathInv'
<1> USE PathAssumption
<1> DEFINE src == Frame.src
           mac == Frame.mac
           found == ng_get_dst_macaddr(src, entries) # NoOne
<1>1. /\ BuffersTyped /\ PacketTyped /\ ContentArrived /\ Holders /\ Arp /\ TimerTyped /\ StillThere
      /\ TableTyped /\ TableIsFirstSeen
  BY DEF PathInv, Holders, Arp
<1>2. /\ pktCore.pc = "frame" /\ Frame.kind \in {"app", "icmp"}
      /\ UNCHANGED <<up, pool, ringIn, ringOut, port, kni, content, mainCore, entries, trouble>>
      /\ first' = IF src \in Known /\ first[src] = NoOne THEN [first EXCEPT ![src] = mac] ELSE first
  BY DEF ng_arp_entry_insert, Seen
<1>3. src \in Known /\ mac # NoOne /\ mac \in Macs
  <2>1. content[At] \in Frames
    BY <1>1, <1>2, NextFrame DEF ContentArrived, Frame
  <2> QED
    BY <1>2, <2>1 DEF Frame, Macs
<1>4. Len(table) = entries /\ entries \in Nat
  BY <1>1, <1>2 DEF TableIsFirstSeen, TableTyped
<1> HIDE DEF src, mac
<1>5. found <=> src \in Sources
  BY <1>1, <1>3, <1>4, Lookup
<1>6. Holders'
  <2>1. \E p \in {"handle", "count"} : pktCore' = [pktCore EXCEPT !.pc = p]
    BY DEF ng_arp_entry_insert
  <2>2. PacketTyped' /\ \A b \in Bufs : InBurst(b)' = InBurst(b)
    BY <1>1, <1>2, <2>1 DEF PacketTyped, InBurst
  <2>3. BuffersTyped' /\ ContentArrived'
    BY <1>1, <1>2 DEF BuffersTyped, ContentArrived
  <2> QED
    BY <1>1, <1>2, <2>2, <2>3, SameSum
<1>7. CASE found
  <2>1. table' = table /\ pktCore' = [pktCore EXCEPT !.pc = "handle"]
    BY <1>7 DEF ng_arp_entry_insert, src
  <2>2. first' = first
    BY <1>1, <1>2, <1>3, <1>5, <1>7 DEF TableIsFirstSeen
  <2>3. pktCore'.pc = "handle"
    BY <1>1, <2>1 DEF PacketTyped
  <2>4. Arp' /\ Sources' = Sources
    BY <1>1, <1>2, <2>1, <2>2, <2>3, SameArp
  <2> QED
    BY <1>1, <1>2, <1>6, <2>4 DEF PathInv, TimerTyped, StillThere
<1>8. CASE ~found
  <2> DEFINE e == [ip |-> src, mac |-> mac]
  <2>1. table' = <<e>> \o table /\ pktCore' = [pktCore EXCEPT !.pc = "count"]
    BY <1>8 DEF ng_arp_entry_insert, src, mac
  <2>2. src \notin Sources /\ first[src] = NoOne
    BY <1>1, <1>3, <1>5, <1>8 DEF TableIsFirstSeen
  <2>3. first' = [first EXCEPT ![src] = mac]
    BY <1>2, <1>3, <2>2
  <2>4. pktCore'.pc = "count"
    BY <1>1, <2>1 DEF PacketTyped
  <2>5. e \in [ip : Known, mac : Macs] /\ e.ip = src /\ e.mac = mac
    BY <1>3
  <2> HIDE DEF e
  <2>6. /\ table' \in Seq([ip : Known, mac : Macs])
        /\ Len(table') = Len(table) + 1 /\ table'[1] = e
        /\ \A k \in 1..Len(table) : table'[k + 1] = table[k]
    <3> DEFINE E == [ip : Known, mac : Macs]
    <3>1. table \in Seq(E) /\ <<e>> \in Seq(E) /\ Len(<<e>>) = 1 /\ <<e>>[1] = e /\ Len(table) \in Nat
      BY <1>1, <2>5 DEF TableTyped
    <3> HIDE DEF E
    <3>2. /\ <<e>> \o table \in Seq(E) /\ Len(<<e>> \o table) = 1 + Len(table)
          /\ \A k \in 1..1 + Len(table) : (<<e>> \o table)[k] = IF k <= 1 THEN <<e>>[k] ELSE table[k - 1]
      BY <3>1, ConcatProperties
    <3> QED
      BY <2>1, <3>1, <3>2 DEF E
  <2>7. first' \in [Known -> Macs] /\ first'[src] = mac /\ \A k \in Known \ {src} : first'[k] = first[k]
    BY <1>1, <1>3, <2>3 DEF TableTyped
  <2>8. Sources' = Sources \cup {src} /\ \A k \in 1..Len(table) : table[k].ip \in Sources /\ table[k].ip # src
                                                                  /\ table[k].ip \in Known
    <3>1. \A k \in 1..Len(table') : k = 1 \/ (k - 1 \in 1..Len(table) /\ table'[k] = table[k - 1])
      BY <1>4, <2>6
    <3>2. \A k \in 1..Len(table) : k + 1 \in 1..Len(table')
      BY <1>4, <2>6
    <3>3. 1 \in 1..Len(table')
      BY <1>4, <2>6
    <3>4. \A k \in 1..Len(table) : table[k].ip \in Sources
      BY DEF Sources
    <3>5. \A k \in 1..Len(table) : table[k].ip \in Known
      <4> DEFINE E == [ip : Known, mac : Macs]
      <4>1. table \in Seq(E) /\ \A x \in E : x.ip \in Known
        BY <1>1 DEF TableTyped
      <4> HIDE DEF E
      <4>2. \A k \in 1..Len(table) : table[k] \in E
        BY <4>1
      <4> QED
        BY <4>1, <4>2
    <3>6. Sources' = {table'[k].ip : k \in 1..Len(table')}
      BY DEF Sources
    <3>7. Sources' = Sources \cup {src}
      <4>1. ASSUME NEW x \in Sources' PROVE x \in Sources \cup {src}
        BY <2>5, <2>6, <3>1, <3>4, <3>6, <4>1
      <4>2. ASSUME NEW x \in Sources PROVE x \in Sources'
        <5>1. PICK k \in 1..Len(table) : x = table[k].ip
          BY <4>2 DEF Sources
        <5>2. k + 1 \in 1..Len(table') /\ table'[k + 1].ip = x
          BY <2>6, <3>2, <5>1
        <5> QED
          BY <3>6, <5>2
      <4>3. src \in Sources'
        BY <2>5, <2>6, <3>3, <3>6
      <4> QED
        BY <4>1, <4>2, <4>3
    <3> QED
      BY <2>2, <3>4, <3>5, <3>7
  <2>9. TableIsFirstSeen'
    <3>0. \A k \in 1..Len(table') : k = 1 \/ (k - 1 \in 1..Len(table) /\ table'[k] = table[k - 1])
      BY <1>4, <2>6
    <3>1. \A i, j \in 1..Len(table') : table'[i].ip = table'[j].ip => i = j
      <4> SUFFICES ASSUME NEW i \in 1..Len(table'), NEW j \in 1..Len(table'), table'[i].ip = table'[j].ip
                   PROVE  i = j
        OBVIOUS
      <4>1. CASE i = 1 /\ j # 1
        BY <2>5, <2>6, <2>8, <3>0, <4>1
      <4>2. CASE j = 1 /\ i # 1
        BY <2>5, <2>6, <2>8, <3>0, <4>2
      <4>3. CASE i # 1 /\ j # 1
        <5>1. i - 1 \in 1..Len(table) /\ j - 1 \in 1..Len(table) /\ table[i - 1].ip = table[j - 1].ip
          BY <3>0, <4>3
        <5>2. i - 1 = j - 1
          BY <1>1, <5>1 DEF TableIsFirstSeen
        <5> QED
          BY <5>2
      <4> QED
        BY <4>1, <4>2, <4>3
    <3>2. \A i \in 1..Len(table') : table'[i].mac = first'[table'[i].ip]
      <4> SUFFICES ASSUME NEW i \in 1..Len(table') PROVE table'[i].mac = first'[table'[i].ip]
        OBVIOUS
      <4>1. CASE i = 1
        BY <2>5, <2>6, <2>7, <4>1
      <4>2. CASE i # 1
        <5>1. i - 1 \in 1..Len(table) /\ table'[i] = table[i - 1]
          BY <3>0, <4>2
        <5>2. table[i - 1].mac = first[table[i - 1].ip] /\ table[i - 1].ip \in Known \ {src}
          BY <1>1, <2>8, <5>1 DEF TableIsFirstSeen
        <5> QED
          BY <2>7, <5>1, <5>2
      <4> QED
        BY <4>1, <4>2
    <3>3. Len(table') = entries' + 1
      BY <1>2, <1>4, <2>6
    <3>4. \A s \in Known : s \in Sources' <=> first'[s] # NoOne
      BY <1>1, <1>3, <2>7, <2>8 DEF TableIsFirstSeen
    <3> QED
      BY <2>4, <3>1, <3>2, <3>3, <3>4 DEF TableIsFirstSeen
  <2>10. TableTyped'
    BY <1>1, <1>2, <2>6, <2>7 DEF TableTyped
  <2> QED
    BY <1>1, <1>2, <1>6, <2>8, <2>9, <2>10 DEF PathInv, Arp, TimerTyped, StillThere
<1> QED
  BY <1>7, <1>8

\* Counting the inserted station keeps it.
LEMMA CountKeeps == ASSUME PathInv, CountEntry PROVE PathInv'
<1>1. /\ BuffersTyped /\ PacketTyped /\ ContentArrived /\ Holders /\ Arp
      /\ TableTyped /\ TableIsFirstSeen
  BY DEF PathInv, Holders, Arp
<1>2. /\ pktCore.pc = "count" /\ entries' = entries + 1
      /\ pktCore' = [pktCore EXCEPT !.pc = "handle"]
      /\ UNCHANGED <<up, pool, ringIn, ringOut, port, kni, content, mainCore, table, trouble, first>>
  BY DEF CountEntry, ghosts
<1>3. PacketTyped' /\ pktCore'.pc = "handle" /\ \A b \in Bufs : InBurst(b)' = InBurst(b)
  BY <1>1, <1>2 DEF PacketTyped, InBurst
<1>4. BuffersTyped' /\ ContentArrived'
  BY <1>1, <1>2 DEF BuffersTyped, ContentArrived
<1>5. Holders'
  BY <1>1, <1>2, <1>3, <1>4, SameSum
<1>6. TableTyped' /\ Sources' = Sources
  BY <1>1, <1>2 DEF TableTyped, Sources
<1>7. TableIsFirstSeen'
  BY <1>1, <1>2, <1>3, <1>6 DEF TableIsFirstSeen, TableTyped
<1> QED
  BY <1>2, <1>5, <1>6, <1>7 DEF PathInv, Arp, TimerTyped, StillThere

\* Freeing a buffer gives the pool one more.
LEMMA BackToPool ==
  ASSUME BuffersTyped, NEW c \in Bufs, pool' = Plus(pool, <<c>>)
  PROVE  pool' \in [Bufs -> Nat] /\ \A b \in Bufs : pool'[b] = pool[b] + (IF c = b THEN 1 ELSE 0)
<1>1. \A b \in Bufs : Times(<<c>>, b) = IF c = b THEN 1 ELSE 0
  BY TimesFew
<1>2. \A b \in Bufs : pool'[b] = pool[b] + (IF c = b THEN 1 ELSE 0)
  BY <1>1 DEF Plus
<1>3. ASSUME NEW b \in Bufs PROVE pool'[b] \in Nat
  <2>1. pool[b] \in Nat
    BY DEF BuffersTyped
  <2>2. pool'[b] = pool[b] \/ pool'[b] = pool[b] + 1
    BY <1>2, <2>1
  <2> QED
    BY <2>1, <2>2
<1> QED
  BY <1>2, <1>3 DEF Plus

\* What is left of a burst is a number.
LEMMA InBurstNat == PacketTyped' => \A b \in Bufs : InBurst(b)' \in Nat
<1> SUFFICES ASSUME PacketTyped', NEW b \in Bufs PROVE InBurst(b)' \in Nat
  OBVIOUS
<1>1. CASE pktCore'.pc = "poll"
  BY <1>1 DEF InBurst
<1>2. CASE pktCore'.pc # "poll"
  <2> DEFINE s == pktCore'.burst
             i == pktCore'.i
  <2>1. s \in Seq(Bufs) /\ i \in 1..Len(s) /\ i - 1 \in 0..Len(s) /\ (i - 1) + 1 = i
    BY <1>2 DEF PacketTyped
  <2>2. SubSeq(s, i, Len(s)) \in Seq(Bufs)
    BY <2>1, TimesCut
  <2> QED
    BY <1>2, <2>2, TimesNat DEF InBurst
<1> QED
  BY <1>1, <1>2

\* The stack frees the frame's buffer: it goes from the burst to the pool.
LEMMA SocketsKeeps == ASSUME PathInv, ToSockets PROVE PathInv'
<1>1. BuffersTyped /\ PacketTyped /\ ContentArrived /\ Holders
  BY DEF PathInv, Holders
<1>2. /\ pktCore.pc = "handle" /\ pool' = Plus(pool, <<At>>) /\ pktCore' = NextOne
      /\ UNCHANGED <<up, ringIn, ringOut, port, kni, content, mainCore, table, entries, trouble, first>>
  BY DEF ToSockets, ghosts
<1>3. /\ At \in Bufs /\ PacketTyped' /\ pktCore'.pc # "count"
      /\ \A b \in Bufs : InBurst(b) = (IF At = b THEN 1 ELSE 0) + InBurst(b)'
  BY <1>1, <1>2, NextFrame
<1>4. \A b \in Bufs : pool'[b] = pool[b] + (IF At = b THEN 1 ELSE 0)
  BY <1>1, <1>2, <1>3, BackToPool
<1>5. pool' \in [Bufs -> Nat]
  BY <1>1, <1>2, <1>3, BackToPool
<1>6. BuffersTyped' /\ ContentArrived'
  BY <1>1, <1>2, <1>5 DEF BuffersTyped, ContentArrived
<1>7. Holders'
  <2> SUFFICES ASSUME NEW b \in Bufs, ~trouble'[b]
               PROVE ~trouble[b] /\
                 pool'[b] + kni'[b] + Times(ringIn', b) + Times(ringOut', b) + Times(port', b) + InBurst(b)'
                   = pool[b] + kni[b] + Times(ringIn, b) + Times(ringOut, b) + Times(port, b) + InBurst(b)
    BY <1>1, <1>3, <1>6, SameSum
  <2>1. InBurst(b)' \in Nat
    BY <1>3, <1>6, InBurstNat
  <2> QED
    BY <1>1, <1>2, <1>3, <1>4, <2>1, OwnersSum
<1>8. Arp' /\ Sources' = Sources
  BY <1>2, <1>3, SameArp DEF PathInv
<1> QED
  BY <1>2, <1>7, <1>8 DEF PathInv, TimerTyped, StillThere

\* The kernel is offered the burst: one frame alone changes hands, or is in
\* trouble when it is not taken; of several all are in trouble.
LEMMA KernelKeeps == ASSUME PathInv, ToKernel PROVE PathInv'
<1> DEFINE s == pktCore.burst
<1>1. BuffersTyped /\ PacketTyped /\ ContentArrived /\ Holders
  BY DEF PathInv, Holders
<1>0. PICK k \in 0..Len(s) : KniTakes(k)
  BY DEF ToKernel
<1> DEFINE t == SubSeq(s, 1, k)
           shared == Len(s) > 1 \/ k = 0
<1>2. /\ pktCore.pc \in {"handle", "frame"} /\ kni' = Plus(kni, t) /\ pktCore' = NextOne
      /\ Mark(IF shared THEN Range(s) ELSE {})
      /\ UNCHANGED <<up, pool, ringIn, ringOut, port, content, mainCore, table, entries, first>>
  BY <1>0 DEF ToKernel, KniTakes
<1>3. /\ At \in Bufs /\ PacketTyped' /\ pktCore'.pc # "count"
      /\ \A b \in Bufs : InBurst(b) = (IF At = b THEN 1 ELSE 0) + InBurst(b)'
      /\ \A b \in Bufs : InBurst(b) = (IF At = b THEN 1 ELSE 0) + Times(SubSeq(s, pktCore.i + 1, Len(s)), b)
  BY <1>1, <1>2, NextFrame
<1>4. s \in Seq(Bufs) /\ pktCore.i \in 1..Len(s) /\ Len(s) \in Nat /\ At = s[pktCore.i]
  BY <1>1, <1>2 DEF PacketTyped, At
<1>a. t \in Seq(Bufs)
  BY <1>0, <1>4, TimesCut
<1>5. \A b \in Bufs : kni'[b] = kni[b] + Times(t, b) /\ kni[b] \in Nat /\ Times(t, b) \in Nat
  <2> HIDE DEF t
  <2> QED
    BY <1>1, <1>2, <1>a, TimesNat DEF Plus, BuffersTyped
<1>6. kni' \in [Bufs -> Nat]
  BY <1>2, <1>5 DEF Plus
<1>7. trouble' \in [Bufs -> BOOLEAN] /\ \A b \in Bufs : ~trouble'[b] => ~trouble[b]
  BY <1>1, <1>2, MarkTyped DEF BuffersTyped
<1>8. BuffersTyped' /\ ContentArrived'
  BY <1>1, <1>2, <1>6, <1>7 DEF BuffersTyped, ContentArrived
<1>9. ASSUME NEW b \in Bufs, ~trouble'[b] PROVE Times(t, b) = IF At = b THEN 1 ELSE 0
  <2>1. CASE shared
    <3>1. b \notin Range(s)
      BY <1>1, <1>2, <1>9, <2>1, MarkTyped
    <3>2. Times(s, b) = 0
      BY <1>4, <3>1, TimesNat
    <3>3. At # b
      BY <1>4, <3>1 DEF Range
    <3>4. Times(t, b) = 0
      <4>1. Times(s, b) = Times(t, b) + Times(SubSeq(s, k + 1, Len(s)), b)
            /\ SubSeq(s, k + 1, Len(s)) \in Seq(Bufs)
        BY <1>0, <1>4, TimesCut
      <4>2. Times(t, b) \in Nat /\ Times(SubSeq(s, k + 1, Len(s)), b) \in Nat
        BY <1>a, <4>1, TimesNat
      <4> QED
        BY <3>2, <4>1, <4>2
    <3> QED
      BY <3>3, <3>4
  <2>2. CASE ~shared
    <3>0. Len(s) = 1 /\ pktCore.i = 1 /\ k = 1
      <4> DEFINE L == Len(s)
                 j == pktCore.i
      <4>1. L \in Nat /\ j \in 1..L /\ k \in 0..L
        BY <1>0, <1>4
      <4>2. ~(L > 1) /\ k # 0
        BY <2>2
      <4> HIDE DEF L, j
      <4>3. L = 1 /\ j = 1 /\ k = 1
        BY <4>1, <4>2
      <4> QED
        BY <4>3 DEF L, j
    <3>1. t = s
      BY <1>4, <3>0, SubSeqFull
    <3> HIDE DEF s, t
    <3>2. Len(s) = 1 /\ At = s[1]
      BY <1>4, <3>0
    <3>3. s = <<At>>
      BY <1>4, <3>2
    <3> QED
      BY <1>3, <3>1, <3>3, TimesFew
  <2> QED
    BY <2>1, <2>2
<1>10. Holders'
  <2> SUFFICES ASSUME NEW b \in Bufs, ~trouble'[b]
               PROVE ~trouble[b] /\
                 pool'[b] + kni'[b] + Times(ringIn', b) + Times(ringOut', b) + Times(port', b) + InBurst(b)'
                   = pool[b] + kni[b] + Times(ringIn, b) + Times(ringOut, b) + Times(port, b) + InBurst(b)
    BY <1>1, <1>3, <1>8, SameSum
  <2> DEFINE d == IF At = b THEN 1 ELSE 0
  <2>0. d \in Nat /\ InBurst(b) = d + InBurst(b)'
    BY <1>3
  <2>1. InBurst(b)' \in Nat
    BY <1>3, <1>8, InBurstNat
  <2>2. ~trouble[b] /\ kni'[b] = kni[b] + d /\ kni[b] \in Nat
    BY <1>5, <1>7, <1>9
  <2> HIDE DEF d
  <2>3. pool'[b] = pool[b] /\ Times(ringIn', b) = Times(ringIn, b) /\ Times(ringOut', b) = Times(ringOut, b)
        /\ Times(port', b) = Times(port, b)
    BY <1>2
  <2>4. /\ pool[b] \in Nat /\ Times(ringIn, b) \in Nat /\ Times(ringOut, b) \in Nat
        /\ Times(port, b) \in Nat /\ InBurst(b) \in Nat
    BY <1>1, OwnersSum
  <2> DEFINE p == pool[b]  x == kni[b]  i == Times(ringIn, b)  o == Times(ringOut, b)
             n == Times(port, b)  y == InBurst(b)'
  <2>5. p \in Nat /\ x \in Nat /\ i \in Nat /\ o \in Nat /\ n \in Nat /\ y \in Nat
    BY <2>1, <2>2, <2>4
  <2> HIDE DEF p, x, i, o, n, y
  <2>6. p + (x + d) + i + o + n + y = p + x + i + o + n + (d + y)
    BY <2>0, <2>5
  <2> QED
    BY ONLY <2>0, <2>2, <2>3, <2>6, Zenon DEF p, x, i, o, n, y
<1>11. Arp' /\ Sources' = Sources
  BY <1>1, <1>2, <1>3, SameArp DEF PathInv
<1> QED
  BY <1>2, <1>10, <1>11 DEF PathInv, TimerTyped, StillThere

\* The port having sent a buffer keeps it.
LEMMA PortKeeps == ASSUME PathInv, PortDone PROVE PathInv'
<1> DEFINE c == Head(port)
<1>1. BuffersTyped /\ PacketTyped /\ ContentArrived /\ Holders
  BY DEF PathInv, Holders
<1>2. /\ port # <<>> /\ pool' = Plus(pool, <<c>>) /\ port' = Tail(port)
      /\ UNCHANGED <<up, ringIn, ringOut, kni, content, mainCore, pktCore, table, entries, trouble, first>>
  BY DEF PortDone, ghosts
<1>3. c \in Bufs /\ Tail(port) \in Seq(Bufs) /\ \A b : Times(port, b) = (IF c = b THEN 1 ELSE 0) + Times(Tail(port), b)
  <2>1. port \in Seq(Bufs) /\ 1 \in 0..Len(port) /\ c \in Bufs /\ Tail(port) \in Seq(Bufs)
    BY <1>1, <1>2 DEF BuffersTyped
  <2> DEFINE h == <<c>>
             t == Tail(port)
  <2>2. h \o t = port
    <3>1. port = SubSeq(port, 1, Len(port)) /\ 1 \in 1..Len(port) /\ Len(port) \in 1..Len(port)
      BY <1>2, <2>1, SubSeqFull
    <3>2. SubSeq(port, 1, Len(port)) = <<port[1]>> \o SubSeq(port, 1 + 1, Len(port))
      BY <2>1, <3>1, SubSeqRecursiveFirst
    <3>3. Tail(port) = SubSeq(port, 1 + 1, Len(port))
      BY <1>2, <2>1, TailIsSubSeq
    <3>4. c = port[1]
      BY <1>2, <2>1
    <3> QED
      BY <3>1, <3>2, <3>3, <3>4
  <2>3. h \in Seq(Bufs) /\ t \in Seq(Bufs) /\ \A b : Times(h, b) = IF c = b THEN 1 ELSE 0
    BY <2>1, TimesFew
  <2> HIDE DEF h, t, c
  <2>4. \A b : Times(h \o t, b) = Times(h, b) + Times(t, b)
    BY <2>3, TimesConcat
  <2>5. \A b : Times(port, b) = (IF c = b THEN 1 ELSE 0) + Times(t, b)
    BY <2>2, <2>3, <2>4
  <2> QED
    BY <2>1, <2>5 DEF t
<1> HIDE DEF c
<1>4. \A b \in Bufs : pool'[b] = pool[b] + (IF c = b THEN 1 ELSE 0)
  BY <1>1, <1>2, <1>3, BackToPool
<1>5. pool' \in [Bufs -> Nat]
  BY <1>1, <1>2, <1>3, BackToPool
<1>6. BuffersTyped' /\ PacketTyped' /\ ContentArrived'
  BY <1>1, <1>2, <1>3, <1>5 DEF BuffersTyped, PacketTyped, ContentArrived
<1>7. Holders'
  <2> SUFFICES ASSUME NEW b \in Bufs, ~trouble'[b]
               PROVE ~trouble[b] /\
                 pool'[b] + kni'[b] + Times(ringIn', b) + Times(ringOut', b) + Times(port', b) + InBurst(b)'
                   = pool[b] + kni[b] + Times(ringIn, b) + Times(ringOut, b) + Times(port, b) + InBurst(b)
    BY <1>1, <1>6, SameSum
  <2>1. Times(port', b) \in Nat /\ Times(port, b) = (IF c = b THEN 1 ELSE 0) + Times(port', b)
    BY <1>2, <1>3, TimesNat
  <2>2. kni'[b] = kni[b] /\ Times(ringIn', b) = Times(ringIn, b) /\ Times(ringOut', b) = Times(ringOut, b)
        /\ InBurst(b)' = InBurst(b)
    BY <1>2 DEF InBurst
  <2> DEFINE d == IF c = b THEN 1 ELSE 0
  <2>3. d \in Nat /\ pool'[b] = pool[b] + d /\ Times(port, b) = d + Times(port', b)
    BY <1>4, <2>1
  <2> HIDE DEF d
  <2>4. /\ pool[b] \in Nat /\ kni[b] \in Nat /\ Times(ringIn, b) \in Nat /\ Times(ringOut, b) \in Nat
        /\ InBurst(b) \in Nat
    BY <1>1, OwnersSum
  <2>5. ~trouble[b]
    BY <1>2
  <2> QED
    BY <2>1, <2>2, <2>3, <2>4, <2>5
<1>8. Arp' /\ Sources' = Sources
  BY <1>2, SameArp DEF PathInv
<1> QED
  BY <1>2, <1>7, <1>8 DEF PathInv, TimerTyped, StillThere

\* The kernel freeing a buffer keeps it.
LEMMA KernelDoneKeeps == ASSUME PathInv, KernelDone PROVE PathInv'
<1>1. BuffersTyped /\ PacketTyped /\ ContentArrived /\ Holders
  BY DEF PathInv, Holders
<1>2. PICK c \in Bufs : kni[c] > 0 /\ kni' = [kni EXCEPT ![c] = @ - 1] /\ pool' = Plus(pool, <<c>>)
  BY DEF KernelDone
<1>3. UNCHANGED <<up, ringIn, ringOut, port, content, mainCore, pktCore, table, entries, trouble, first>>
  BY DEF KernelDone, ghosts
<1>4. \A b \in Bufs : pool'[b] = pool[b] + (IF c = b THEN 1 ELSE 0)
  BY <1>1, <1>2, BackToPool
<1>5. pool' \in [Bufs -> Nat]
  BY <1>1, <1>2, BackToPool
<1>6. kni' \in [Bufs -> Nat] /\ \A b \in Bufs : kni'[b] = kni[b] - (IF c = b THEN 1 ELSE 0)
  BY <1>1, <1>2 DEF BuffersTyped
<1>7. BuffersTyped' /\ PacketTyped' /\ ContentArrived'
  BY <1>1, <1>3, <1>5, <1>6 DEF BuffersTyped, PacketTyped, ContentArrived
<1>8. Holders'
  <2> SUFFICES ASSUME NEW b \in Bufs, ~trouble'[b]
               PROVE ~trouble[b] /\
                 pool'[b] + kni'[b] + Times(ringIn', b) + Times(ringOut', b) + Times(port', b) + InBurst(b)'
                   = pool[b] + kni[b] + Times(ringIn, b) + Times(ringOut, b) + Times(port, b) + InBurst(b)
    BY <1>1, <1>7, SameSum
  <2>1. Times(ringIn', b) = Times(ringIn, b) /\ Times(ringOut', b) = Times(ringOut, b)
        /\ Times(port', b) = Times(port, b) /\ InBurst(b)' = InBurst(b)
    BY <1>3 DEF InBurst
  <2> QED
    BY <1>1, <1>3, <1>4, <1>6, <2>1, OwnersSum
<1>9. Arp' /\ Sources' = Sources
  BY <1>3, SameArp DEF PathInv
<1> QED
  BY <1>3, <1>8, <1>9 DEF PathInv, TimerTyped, StillThere

\* Every step keeps it.
LEMMA PathStepKeeps == PathInv /\ [PathNext]_pathVars => PathInv'
<1> SUFFICES ASSUME PathInv, [PathNext]_pathVars PROVE PathInv'
  OBVIOUS
<1>1. CASE UNCHANGED pathVars
  <2>1. UNCHANGED <<up, pool, ringIn, ringOut, port, kni, content, mainCore, pktCore, table, entries, trouble, first>>
    BY <1>1 DEF pathVars
  <2>2. Holders'
    BY <2>1, SameHolders DEF PathInv
  <2>3. Arp' /\ Sources' = Sources
    BY <2>1, SameArp DEF PathInv
  <2> QED
    BY <2>1, <2>2, <2>3 DEF PathInv, TimerTyped, StillThere
<1> QED
  BY <1>1, RxKeeps, TxKeeps, TimerKeeps, AskKeeps, PollKeeps, InsertKeeps, CountKeeps, SocketsKeeps,
     KernelKeeps, OutKeeps, PortKeeps, KernelDoneKeeps DEF PathNext, MainCore, PktCore

\* The table has no more entries than there are stations: each is there once.
LEMMA EntriesBounded == Arp => entries \in 0..Cardinality(Known)
<1> SUFFICES ASSUME Arp PROVE entries \in 0..Cardinality(Known)
  OBVIOUS
<1> DEFINE f == [i \in 1..Len(table) |-> table[i].ip]
           E == [ip : Known, mac : Macs]
<1>1. entries \in Nat /\ Len(table) \in Nat /\ entries <= Len(table)
  BY DEF Arp, TableTyped, TableIsFirstSeen
<1>2. \A i \in 1..Len(table) : table[i].ip \in Known
  <2>1. table \in Seq(E) /\ \A x \in E : x.ip \in Known
    BY DEF Arp, TableTyped
  <2> HIDE DEF E
  <2>2. \A k \in 1..Len(table) : table[k] \in E
    BY <2>1
  <2> QED
    BY <2>1, <2>2
<1>3. f \in Injection(1..Len(table), Known)
  BY <1>2 DEF Arp, TableIsFirstSeen, Injection, IsInjective
<1>4. Cardinality(1..Len(table)) <= Cardinality(Known)
  BY <1>3, PathAssumption, FS_Injection
<1>5. Cardinality(1..Len(table)) = Len(table)
  <2> DEFINE L == Len(table)
  <2>1. L \in Nat
    BY <1>1
  <2> HIDE DEF L
  <2>2. Cardinality(1..L) = IF 1 > L THEN 0 ELSE L - 1 + 1
    BY <2>1, FS_Interval
  <2>3. Cardinality(1..L) = L
    BY <2>1, <2>2
  <2> QED
    BY <2>3 DEF L
<1>6. Cardinality(Known) \in Nat
  BY PathAssumption, FS_CardinalityType
<1> QED
  BY <1>1, <1>4, <1>5, <1>6

\* Only buffers are missed by the kernel.
LEMMA MissedTyped ==
  PathInv /\ missed \subseteq Bufs /\ [PathNext]_pathVars => (missed \subseteq Bufs)'
<1> SUFFICES ASSUME PathInv, missed \subseteq Bufs, [PathNext]_pathVars
             PROVE  missed' \subseteq Bufs
  OBVIOUS
<1>1. CASE UNCHANGED missed
  BY <1>1
<1>2. CASE Rx
  BY <1>2 DEF Rx
<1>3. CASE ToKernel
  <2>1. At \in Bufs
    BY <1>3, NextFrame DEF PathInv, Holders, ToKernel
  <2> QED
    BY <1>3, <2>1 DEF ToKernel, KniTakes
<1> QED
  BY <1>1, <1>2, <1>3
     DEF PathNext, MainCore, PktCore, Tx, Timer, TimerCount, TimerAsk, Poll, ng_arp_entry_insert,
         CountEntry, ToSockets, Out, PortDone, KernelDone, ghosts, pathVars

\* For any buffers, stations, rings and bursts: a buffer has one owner unless the
\* stack gave it away twice or dropped it, or the kernel did not take it, the table
\* has each station once with the address of its first frame, and the timer misses a
\* station it has only when an insertion ran between its count and its walk
\* (tcp.c:220-240, 802, 812, 2722).
THEOREM OneOwnerEach == PathSpec => []PathSound
<1>0. PathSpec => [](missed \subseteq Bufs)
  <2>1. PathInit => missed \subseteq Bufs
    BY DEF PathInit
  <2> QED
    BY <2>1, PathInitInv, PathStepKeeps, MissedTyped, PTL DEF PathSpec
<1>1. PathInv /\ missed \subseteq Bufs => PathSound
  <2> SUFFICES ASSUME PathInv, missed \subseteq Bufs PROVE PathSound
    OBVIOUS
  <2>1. PathTypeOK
    BY EntriesBounded DEF PathTypeOK, PathInv, Holders, BuffersTyped, PacketTyped, TimerTyped
  <2>2. MissIsARace
    <3> SUFFICES ASSUME mainCore.pc = "ask", mainCore.had,
                        ng_get_dst_macaddr(Head(mainCore.asks), mainCore.n) = NoOne,
                        ~(mainCore.n < Len(table))
                 PROVE  FALSE
      BY DEF MissIsARace
    <3>1. Head(mainCore.asks) \in Sources /\ mainCore.n \in Nat /\ Head(mainCore.asks) \in Known
          /\ Len(table) \in Nat
      BY DEF PathInv, StillThere, TimerTyped, Arp, TableTyped
    <3> QED
      BY <3>1, Lookup DEF PathInv
  <2> QED
    BY <2>1, <2>2 DEF PathInv, PathSound, Holders, Arp
<1> QED
  BY <1>0, <1>1, PathInitInv, PathStepKeeps, PTL DEF PathSpec

-----------------------------------------------------------------------------
(***************************************************************************)
(* The web servers on NtyCo.  Why a process ended is said of its visitors, *)
(* so the invariant says what never changes of a visitor: who accepted it, *)
(* what it asks, that it went away, and what it heard when it was cut off. *)
(***************************************************************************)

WorkerAt == {"off", "new", "bound", "unbound", "elsewhere", "deaf", "listening",
             "ended", "full", "killed", "crashed"}
Visit == [st : {"off", "queued", "open", "lines", "left", "closed", "cut"},
          by : Cores \cup {"none"}, asks : Asks, lines : {"none", "blank"},
          end : {"no", "fin", "rst"}, heard : {<<>>, <<"200">>, <<"404">>, <<"501">>}]

HttpTyped ==
  /\ worker \in [Cores -> WorkerAt]
  /\ visit \in [Visitors -> Visit]
  /\ queued \in Seq(Visitors)

QueuedVisitors ==
  /\ \A i \in DOMAIN queued : visit[queued[i]].st = "queued"
  /\ \A i, j \in DOMAIN queued : queued[i] = queued[j] => i = j

\* What is so of a visitor x at its stage of the service.
AtStage(x) ==
  /\ x.st \in {"off", "queued"} => x.by = "none"
  /\ x.st \in {"open", "lines", "left"} => x.by \in Cores
  /\ x.st \in {"off", "queued", "open", "lines"} => x.heard = <<>>
  /\ x.st = "left" => x.heard \in {<<>>, <<"501">>}
  /\ x.heard = <<"404">> => x.lines = "blank"

FdsBounded == \A p \in Cores : Cardinality(HasFd(p)) <= FdLimit

\* Nobody is past the start unless somebody listened first, and listens still or
\* was ended by its visitors.
OneStarts ==
  /\ \A p, q \in Listening : p = q
  /\ Listening = {} /\ (\A p \in Cores : worker[p] \notin {"full", "killed", "crashed"})
       => /\ \A p \in Cores : worker[p] \in {"off", "new", "bound"}
          /\ \E p \in Cores : worker[p] \in {"new", "bound"}

Mine(p)    == {v \in Visitors : visit[v].by = p}
CutOff(p)  == {v \in Mine(p) : visit[v].st = "cut" /\ visit[v].heard \in {<<>>, <<"501">>}}
WhyEnded(p) ==
  /\ worker[p] = "crashed" => \/ \E v \in Mine(p) : visit[v].asks = "dir" \/ visit[v].end = "rst"
                              \/ site.opens /\ Cardinality(CutOff(p)) >= FdLimit
  /\ worker[p] = "killed"  => \E v \in Mine(p) : Gone(v)
  /\ worker[p] = "full"    => Cardinality(CutOff(p)) >= FdLimit

HttpInv ==
  /\ site \in Sites /\ HttpTyped /\ QueuedVisitors /\ (\A v \in Visitors : AtStage(visit[v]))
  /\ FdsBounded /\ OneStarts /\ (\A p \in Cores : WhyEnded(p))

\* Sets of visitors are finite, and smaller ones have no more members.
LEMMA VisitorSets ==
  /\ \A S \in SUBSET Visitors : IsFiniteSet(S) /\ Cardinality(S) \in Nat
  /\ \A S \in SUBSET Visitors : \A T \in SUBSET S : Cardinality(T) <= Cardinality(S)
<1>1. \A S \in SUBSET Visitors : IsFiniteSet(S) /\ Cardinality(S) \in Nat
  BY HttpAssumption, FS_Subset, FS_CardinalityType
<1>2. \A S \in SUBSET Visitors : \A T \in SUBSET S : Cardinality(T) <= Cardinality(S)
  BY <1>1, FS_Subset
<1> QED
  BY <1>1, <1>2

\* The limit of descriptors is a number, and stays the same.
LEMMA LimitStays ==
  ASSUME site \in Sites, site' = site
  PROVE  FdLimit \in Nat /\ FdLimit' = FdLimit /\ site' \in Sites
BY HttpAssumption DEF FdLimit

\* The invariant of the web servers holds at the start.
LEMMA HttpInitInv == HttpInit => HttpInv
<1> SUFFICES ASSUME HttpInit PROVE HttpInv
  OBVIOUS
<1> USE HttpAssumption DEF HttpInit
<1>1. PICK on \in SUBSET Cores :
        Cardinality(on) = site.procs /\ worker = [p \in Cores |-> IF p \in on THEN "new" ELSE "off"]
  OBVIOUS
<1>2. on # {}
  <2>1. site.procs # 0
    <3>1. Cardinality(Cores) # 0
      BY FS_EmptySet
    <3>2. site = Single(site.fds) \/ site = Mulcore(site.fds)
      OBVIOUS
    <3> QED
      BY <3>1, <3>2 DEF Single, Mulcore
  <2> QED
    BY <1>1, <2>1, FS_EmptySet
<1>3. HttpTyped
  BY <1>1 DEF HttpTyped, WorkerAt, Visit, Asks
<1>4. QueuedVisitors /\ \A v \in Visitors : AtStage(visit[v])
  BY DEF QueuedVisitors, AtStage
<1>5. FdsBounded
  <2>1. \A p \in Cores : HasFd(p) = {}
    BY DEF HasFd
  <2>2. Cardinality({}) = 0 /\ 0 <= FdLimit
    BY FS_EmptySet DEF FdLimit
  <2> HIDE DEF HttpInit
  <2> QED
    BY <2>1, <2>2 DEF FdsBounded
<1>6. OneStarts /\ \A p \in Cores : WhyEnded(p)
  BY <1>1, <1>2 DEF OneStarts, WhyEnded, Listening
<1> QED
  BY <1>3, <1>4, <1>5, <1>6 DEF HttpInv

\* What a step may do to a visitor.
Kept(v) ==
  /\ visit[v].by # "none" =>
       /\ visit'[v].by = visit[v].by /\ visit'[v].asks = visit[v].asks
       /\ visit[v].end = "rst" => visit'[v].end = "rst"
       /\ visit[v].end # "no" => visit'[v].end # "no"
  /\ visit[v].st = "cut" => visit'[v].st = "cut" /\ visit'[v].heard = visit[v].heard

\* Then the reasons stay reasons.
LEMMA ReasonsStay ==
  ASSUME \A v \in Visitors : Kept(v), NEW p \in Cores, WhyEnded(p), worker'[p] = worker[p],
         site \in Sites, site' = site
  PROVE  WhyEnded(p)'
<1> USE HttpAssumption DEF Kept
<1>0. FdLimit \in Nat /\ FdLimit' = FdLimit
  BY LimitStays
<1>1. \A v \in Mine(p) : v \in Mine(p)' /\ visit'[v].asks = visit[v].asks
           /\ (visit[v].end = "rst" => visit'[v].end = "rst") /\ (Gone(v) => Gone(v)')
  BY DEF Mine, Gone
<1>2. worker[p] = "crashed" => \/ \E v \in Mine(p)' : visit'[v].asks = "dir" \/ visit'[v].end = "rst"
                               \/ site'.opens /\ Cardinality(CutOff(p)) >= FdLimit
  BY <1>1 DEF WhyEnded
<1>3. worker[p] = "killed" => \E v \in Mine(p)' : Gone(v)'
  BY <1>1 DEF WhyEnded
<1>4. Cardinality(CutOff(p)) >= FdLimit => Cardinality(CutOff(p)') >= FdLimit
  <2>1. CutOff(p) \subseteq CutOff(p)' /\ CutOff(p)' \in SUBSET Visitors
    BY <1>1 DEF CutOff, Mine
  <2>2. Cardinality(CutOff(p)) <= Cardinality(CutOff(p)')
    BY <2>1, VisitorSets
  <2>3. CutOff(p) \in SUBSET Visitors
    BY DEF CutOff, Mine
  <2>4. Cardinality(CutOff(p)) \in Nat /\ Cardinality(CutOff(p)') \in Nat
    BY <2>1, <2>3, VisitorSets
  <2> QED
    BY <1>0, <2>2, <2>4
<1> QED
  BY <1>0, <1>2, <1>3, <1>4 DEF WhyEnded

\* A visitor changes within its process, or in the queue.
LEMMA OneVisitor ==
  ASSUME HttpInv, NEW v \in Visitors, NEW r \in Visit,
         visit' = [visit EXCEPT ![v] = r], worker' = worker, queued' = queued, site' = site,
         visit[v].st # "off", visit[v].st # "cut",
         visit[v].st = "queued" <=> r.st = "queued",
         r.st \in {"open", "lines", "left"} => visit[v].st \in {"open", "lines", "left"},
         r.by = visit[v].by, r.asks = visit[v].asks,
         visit[v].end = "rst" => r.end = "rst", visit[v].end # "no" => r.end # "no",
         AtStage(r)
  PROVE  HttpInv'
<1> USE HttpAssumption
<1>0. FdLimit \in Nat /\ FdLimit' = FdLimit /\ site \in Sites /\ site' \in Sites
  BY LimitStays DEF HttpInv
<1>1. visit'[v] = r /\ \A u \in Visitors \ {v} : visit'[u] = visit[u]
  BY DEF HttpInv, HttpTyped
<1>2. HttpTyped'
  BY DEF HttpInv, HttpTyped
<1>3. QueuedVisitors'
  <2>1. \A i \in DOMAIN queued : queued[i] \in Visitors
    BY DEF HttpInv, HttpTyped
  <2> QED
    BY <1>1, <2>1 DEF HttpInv, QueuedVisitors
<1>4. \A u \in Visitors : AtStage(visit'[u])
  BY <1>1 DEF HttpInv
<1>5. FdsBounded'
  <2> SUFFICES ASSUME NEW p \in Cores PROVE Cardinality(HasFd(p)') <= FdLimit
    BY <1>0 DEF FdsBounded
  <2>1. HasFd(p)' \subseteq HasFd(p) /\ HasFd(p) \in SUBSET Visitors
    BY <1>1 DEF HasFd
  <2>2. Cardinality(HasFd(p)') <= Cardinality(HasFd(p)) /\ Cardinality(HasFd(p)) <= FdLimit
    BY <2>1, VisitorSets DEF HttpInv, FdsBounded
  <2>3. Cardinality(HasFd(p)') \in Nat /\ Cardinality(HasFd(p)) \in Nat
    BY <2>1, VisitorSets
  <2> QED
    BY <1>0, <2>2, <2>3
<1>6. OneStarts'
  BY DEF HttpInv, OneStarts, Listening
<1>7. \A p \in Cores : WhyEnded(p)'
  <2>1. \A u \in Visitors : Kept(u)
    BY <1>1 DEF Kept
  <2> QED
    BY <1>0, <2>1, ReasonsStay DEF HttpInv
<1> QED
  BY <1>0, <1>2, <1>3, <1>4, <1>5, <1>6, <1>7 DEF HttpInv

\* A process ends, for a reason its visitors gave.
LEMMA EndsKeeps ==
  ASSUME HttpInv, NEW p \in Cores, NEW why \in {"full", "killed", "crashed"}, Ends(p, why),
         site' = site,
         why = "crashed" => \/ \E v \in Mine(p) : visit[v].asks = "dir" \/ visit[v].end = "rst"
                            \/ site.opens /\ Cardinality(HasFd(p)) >= FdLimit,
         why = "killed" => \E v \in Mine(p) : Gone(v),
         why = "full" => Cardinality(HasFd(p)) >= FdLimit
  PROVE  HttpInv'
<1> USE HttpAssumption
<1>z. FdLimit \in Nat /\ FdLimit' = FdLimit /\ site \in Sites /\ site' \in Sites
  BY LimitStays DEF HttpInv
<1> DEFINE Cut == {v \in Visitors : v \in HasFd(p) \/ visit[v].st = "queued"}
<1>0. HttpTyped /\ \A v \in Visitors : AtStage(visit[v]) /\ visit[v] \in Visit
  BY DEF HttpInv, HttpTyped
<1>1. /\ worker' = [worker EXCEPT ![p] = why] /\ queued' = <<>>
      /\ \A v \in Cut : visit'[v] = [visit[v] EXCEPT !.st = "cut"]
      /\ \A v \in Visitors \ Cut : visit'[v] = visit[v]
      /\ visit' = [v \in Visitors |-> visit'[v]]
  BY DEF Ends
<1>2. \A v \in Visitors : /\ visit'[v] \in Visit /\ visit'[v].by = visit[v].by
                          /\ visit'[v].asks = visit[v].asks /\ visit'[v].end = visit[v].end
                          /\ visit'[v].heard = visit[v].heard /\ visit'[v].lines = visit[v].lines
                          /\ visit'[v].st = IF v \in Cut THEN "cut" ELSE visit[v].st
  <2> SUFFICES ASSUME NEW v \in Visitors
               PROVE  /\ visit'[v] \in Visit /\ visit'[v].by = visit[v].by
                      /\ visit'[v].asks = visit[v].asks /\ visit'[v].end = visit[v].end
                      /\ visit'[v].heard = visit[v].heard /\ visit'[v].lines = visit[v].lines
                      /\ visit'[v].st = IF v \in Cut THEN "cut" ELSE visit[v].st
    OBVIOUS
  <2> HIDE DEF Cut
  <2>1. CASE v \in Cut
    <3>1. visit'[v] = [visit[v] EXCEPT !.st = "cut"] /\ visit[v] \in Visit
      BY <1>0, <1>1, <2>1
    <3> QED
      BY <2>1, <3>1 DEF Visit
  <2>2. CASE v \notin Cut
    BY <1>0, <1>1, <2>2
  <2> QED
    BY <2>1, <2>2
<1>3. HttpTyped'
  <2>1. worker' \in [Cores -> WorkerAt]
    BY <1>0, <1>1 DEF HttpTyped, WorkerAt
  <2>2. visit' \in [Visitors -> Visit]
    BY <1>1, <1>2
  <2> QED
    BY <1>1, <2>1, <2>2 DEF HttpTyped
<1>4. QueuedVisitors'
  BY <1>1 DEF QueuedVisitors
<1>5. ASSUME NEW v \in Visitors PROVE AtStage(visit'[v])
  BY <1>0, <1>2 DEF AtStage
<1>6. FdsBounded'
  <2> SUFFICES ASSUME NEW q \in Cores PROVE Cardinality(HasFd(q)') <= FdLimit
    BY <1>z DEF FdsBounded
  <2>1. HasFd(q)' \subseteq HasFd(q) /\ HasFd(q) \in SUBSET Visitors
    BY <1>2 DEF HasFd
  <2>2. Cardinality(HasFd(q)') <= Cardinality(HasFd(q)) /\ Cardinality(HasFd(q)) <= FdLimit
    BY <2>1, VisitorSets DEF HttpInv, FdsBounded
  <2>3. Cardinality(HasFd(q)') \in Nat /\ Cardinality(HasFd(q)) \in Nat
    BY <2>1, VisitorSets
  <2> QED
    BY <1>z, <2>2, <2>3
<1>7. OneStarts'
  <2>1. worker'[p] = why /\ \A q \in Cores \ {p} : worker'[q] = worker[q]
    BY <1>0, <1>1 DEF HttpTyped
  <2>2. Listening' \subseteq Listening
    BY <2>1 DEF Listening
  <2> QED
    BY <2>1, <2>2 DEF HttpInv, OneStarts
<1>8. ASSUME NEW q \in Cores PROVE WhyEnded(q)'
  <2>1. \A v \in Visitors : Kept(v)
    BY <1>2 DEF Kept
  <2>2. CASE q # p
    <3>1. worker'[q] = worker[q]
      BY <1>0, <1>1, <2>2 DEF HttpTyped
    <3> QED
      BY <1>z, <2>1, <3>1, ReasonsStay DEF HttpInv
  <2>3. CASE q = p
    <3>1. worker'[p] = why
      BY <1>0, <1>1 DEF HttpTyped
    <3>2. Mine(p)' = Mine(p)
      BY <1>2 DEF Mine
    <3>3. why = "crashed" => \/ \E v \in Mine(p)' : visit'[v].asks = "dir" \/ visit'[v].end = "rst"
                             \/ site.opens /\ Cardinality(HasFd(p)) >= FdLimit
      BY <1>2, <3>2 DEF Mine
    <3>4. why = "killed" => \E v \in Mine(p)' : Gone(v)'
      BY <1>2, <3>2 DEF Mine, Gone
    <3>5. Cardinality(HasFd(p)) >= FdLimit => Cardinality(CutOff(p)') >= FdLimit
      <4>1. HasFd(p) \subseteq CutOff(p)' /\ CutOff(p)' \in SUBSET Visitors
        BY <1>0, <1>2, <3>2 DEF HasFd, CutOff, Mine, AtStage
      <4>2. Cardinality(HasFd(p)) <= Cardinality(CutOff(p)')
        BY <4>1, VisitorSets
      <4>3. HasFd(p) \in SUBSET Visitors
        BY DEF HasFd
      <4>4. Cardinality(HasFd(p)) \in Nat /\ Cardinality(CutOff(p)') \in Nat
        BY <4>1, <4>3, VisitorSets
      <4> QED
        BY <1>z, <4>2, <4>4
    <3> QED
      BY <1>z, <2>3, <3>1, <3>3, <3>4, <3>5 DEF WhyEnded
  <2> QED
    BY <2>2, <2>3
<1> QED
  BY <1>z, <1>3, <1>4, <1>5, <1>6, <1>7, <1>8 DEF HttpInv

\* A process starts, or ends because it listens to nobody.
LEMMA OneWorker ==
  ASSUME HttpInv, NEW p \in Cores, NEW w \in WorkerAt \ {"full", "killed", "crashed"},
         worker' = [worker EXCEPT ![p] = w], queued' = queued, visit' = visit, site' = site,
         worker[p] \in {"new", "bound", "unbound", "deaf"},
         w = "listening" => Listening = {},
         w \notin {"new", "bound", "listening"} =>
           Listening # {} \/ worker[p] \notin {"off", "new", "bound"},
         w \in {"new", "bound"} => worker[p] \in {"new", "bound"}
  PROVE  HttpInv'
<1>1. worker'[p] = w /\ \A q \in Cores \ {p} : worker'[q] = worker[q]
  BY DEF HttpInv, HttpTyped
<1>2. HttpTyped'
  BY DEF HttpInv, HttpTyped
<1>z. FdLimit \in Nat /\ FdLimit' = FdLimit /\ site \in Sites /\ site' \in Sites
  BY LimitStays DEF HttpInv
<1>3. QueuedVisitors' /\ FdsBounded' /\ \A v \in Visitors : AtStage(visit'[v])
  BY <1>z DEF HttpInv, QueuedVisitors, FdsBounded, HasFd
<1>4. OneStarts'
  <2>1. Listening' = IF w = "listening" THEN {p} ELSE Listening
    BY <1>1 DEF Listening
  <2>2. \A q, s \in Listening' : q = s
    BY <2>1 DEF HttpInv, OneStarts
  <2>3. ASSUME Listening' = {}, \A q \in Cores : worker'[q] \notin {"full", "killed", "crashed"}
        PROVE  /\ \A q \in Cores : worker'[q] \in {"off", "new", "bound"}
               /\ \E q \in Cores : worker'[q] \in {"new", "bound"}
    <3>1. Listening = {} /\ w # "listening"
      BY <2>1, <2>3
    <3>2. \A q \in Cores : worker[q] \notin {"full", "killed", "crashed"}
      BY <1>1, <2>3
    <3>3. \A q \in Cores : worker[q] \in {"off", "new", "bound"}
      BY <3>1, <3>2 DEF HttpInv, OneStarts
    <3>4. w \in {"new", "bound"}
      BY <3>1, <3>3
    <3> QED
      BY <1>1, <3>3, <3>4
  <2> QED
    BY <2>2, <2>3 DEF OneStarts
<1>5. ASSUME NEW q \in Cores PROVE WhyEnded(q)'
  <2>1. \A v \in Visitors : Kept(v)
    BY DEF Kept
  <2>2. CASE q # p
    BY <1>z, <1>1, <2>1, <2>2, ReasonsStay DEF HttpInv
  <2>3. CASE q = p
    BY <1>1, <2>3 DEF WhyEnded
  <2> QED
    BY <2>2, <2>3
<1> QED
  BY <1>z, <1>2, <1>3, <1>4, <1>5 DEF HttpInv

\* A visitor connects.
LEMMA ArriveKeeps == ASSUME HttpInv, NEW v \in Visitors, Arrive(v) PROVE HttpInv'
<1> USE HttpAssumption
<1>0. /\ HttpTyped /\ QueuedVisitors /\ visit[v] \in Visit /\ visit[v].st = "off"
      /\ worker' = worker /\ queued' = Append(queued, v) /\ AtStage(visit[v])
      /\ site \in Sites /\ site' = site
  BY DEF HttpInv, HttpTyped, Arrive
<1>z. FdLimit \in Nat /\ FdLimit' = FdLimit
  BY <1>0, LimitStays
<1>1. PICK what \in Asks : visit' = [visit EXCEPT ![v].st = "queued", ![v].asks = what]
  BY DEF Arrive
<1> DEFINE r == [visit[v] EXCEPT !.st = "queued", !.asks = what]
<1>2. visit'[v] = r /\ (\A u \in Visitors \ {v} : visit'[u] = visit[u]) /\ visit' = [visit EXCEPT ![v] = r]
  BY <1>0, <1>1 DEF HttpTyped
<1>3. r \in Visit /\ AtStage(r) /\ r.st = "queued" /\ r.by = "none" /\ visit[v].by = "none"
  BY <1>0, <1>1 DEF Visit, AtStage
<1> HIDE DEF r
<1>4. HttpTyped'
  BY <1>0, <1>2, <1>3 DEF HttpTyped
<1>5. QueuedVisitors'
  <2>1. Len(queued') = Len(queued) + 1 /\ queued'[Len(queued) + 1] = v
         /\ \A i \in 1..Len(queued) : queued'[i] = queued[i] /\ queued[i] \in Visitors
    BY <1>0 DEF HttpTyped
  <2>2. \A i \in 1..Len(queued) : visit[queued[i]].st = "queued" /\ queued[i] # v
    BY <1>0 DEF HttpTyped, QueuedVisitors
  <2>3. DOMAIN queued' = 1..(Len(queued) + 1) /\ Len(queued) \in Nat /\ DOMAIN queued = 1..Len(queued)
    BY <1>0, <1>4, <2>1 DEF HttpTyped
  <2>4. \A i \in DOMAIN queued' : i = Len(queued) + 1 \/ i \in 1..Len(queued)
    BY <2>3
  <2>5. \A i \in DOMAIN queued' : visit'[queued'[i]].st = "queued"
    BY <1>2, <1>3, <2>1, <2>2, <2>4
  <2>6. \A i, j \in DOMAIN queued' : queued'[i] = queued'[j] => i = j
    BY <1>0, <2>1, <2>2, <2>3, <2>4 DEF QueuedVisitors
  <2> QED
    BY <2>5, <2>6 DEF QueuedVisitors
<1>6. \A u \in Visitors : AtStage(visit'[u])
  BY <1>2, <1>3 DEF HttpInv
<1>7. FdsBounded'
  <2>1. ASSUME NEW p \in Cores PROVE HasFd(p)' = HasFd(p)
    BY <1>0, <1>2, <1>3 DEF HasFd
  <2> QED
    BY <1>z, <2>1 DEF HttpInv, FdsBounded
<1>8. OneStarts'
  BY <1>0 DEF HttpInv, OneStarts, Listening
<1>9. ASSUME NEW p \in Cores PROVE WhyEnded(p)'
  <2>1. \A u \in Visitors : Kept(u)
    BY <1>0, <1>2, <1>3 DEF Kept
  <2> QED
    BY <1>0, <2>1, ReasonsStay DEF HttpInv
<1> QED
  BY <1>0, <1>4, <1>5, <1>6, <1>7, <1>8, <1>9 DEF HttpInv

\* A process accepts the first of the queue.
LEMMA AcceptKeeps == ASSUME HttpInv, NEW p \in Cores, AcceptVisitor(p) PROVE HttpInv'
<1> USE HttpAssumption
<1> DEFINE v == Head(queued)
           r == [visit[v] EXCEPT !.st = "open", !.by = p]
<1>0. /\ HttpTyped /\ QueuedVisitors /\ queued # <<>> /\ worker' = worker /\ queued' = Tail(queued)
      /\ visit' = [visit EXCEPT ![v].st = "open", ![v].by = p] /\ Cardinality(HasFd(p)) < FdLimit
      /\ site \in Sites /\ site' = site
  BY DEF HttpInv, AcceptVisitor
<1>z. FdLimit \in Nat /\ FdLimit' = FdLimit
  BY <1>0, LimitStays
<1>1. /\ Len(queued) \in Nat /\ Len(queued) > 0 /\ v = queued[1] /\ v \in Visitors
      /\ DOMAIN queued = 1..Len(queued) /\ queued' \in Seq(Visitors)
      /\ Len(queued') = Len(queued) - 1 /\ DOMAIN queued' = 1..(Len(queued) - 1)
      /\ \A i \in 1..(Len(queued) - 1) : queued'[i] = queued[i + 1]
  BY <1>0 DEF HttpTyped
<1>2. visit[v] \in Visit /\ visit[v].st = "queued" /\ visit[v].by = "none" /\ AtStage(visit[v])
  <2> HIDE DEF v
  <2>1. visit[v] \in Visit /\ AtStage(visit[v])
    BY <1>1 DEF HttpInv, HttpTyped
  <2>2. 1 \in DOMAIN queued /\ v = queued[1]
    BY <1>1
  <2>3. visit[v].st = "queued"
    BY <1>0, <2>2 DEF QueuedVisitors
  <2> QED
    BY <2>1, <2>3 DEF AtStage
<1> HIDE DEF v
<1>3. visit'[v] = r /\ (\A u \in Visitors \ {v} : visit'[u] = visit[u]) /\ visit' = [visit EXCEPT ![v] = r]
  BY <1>0, <1>1 DEF HttpTyped
<1>4. r \in Visit /\ AtStage(r) /\ r.st = "open" /\ r.by = p
  BY <1>2 DEF Visit, AtStage
<1> HIDE DEF r
<1>5. HttpTyped'
  BY <1>0, <1>1, <1>3, <1>4 DEF HttpTyped
<1>6. QueuedVisitors'
  <2>1. \A i \in DOMAIN queued' : /\ i + 1 \in DOMAIN queued /\ queued'[i] = queued[i + 1]
                                  /\ queued'[i] # v /\ queued'[i] \in Visitors
    <3> TAKE i \in DOMAIN queued'
    <3>1. i + 1 \in DOMAIN queued /\ queued'[i] = queued[i + 1] /\ 1 \in DOMAIN queued /\ i + 1 # 1
      BY <1>1
    <3>2. queued[i + 1] # queued[1]
      BY <1>0, <3>1 DEF QueuedVisitors
    <3>3. queued[i + 1] \in Visitors
      BY <1>0, <3>1 DEF HttpTyped
    <3> QED
      BY <1>1, <3>1, <3>2, <3>3
  <2>2. \A i \in DOMAIN queued' : visit'[queued'[i]].st = "queued"
    <3> TAKE i \in DOMAIN queued'
    <3>1. visit'[queued'[i]] = visit[queued'[i]] /\ queued'[i] = queued[i + 1] /\ i + 1 \in DOMAIN queued
      BY <1>3, <2>1
    <3> QED
      BY <1>0, <3>1 DEF QueuedVisitors
  <2>3. \A i, j \in DOMAIN queued' : queued'[i] = queued'[j] => i + 1 = j + 1
    BY <1>0, <2>1 DEF QueuedVisitors
  <2>4. \A i \in DOMAIN queued' : i \in Int
    BY <1>1
  <2> QED
    BY <2>2, <2>3, <2>4 DEF QueuedVisitors
<1>7. \A u \in Visitors : AtStage(visit'[u])
  BY <1>3, <1>4 DEF HttpInv
<1>8. FdsBounded'
  <2> SUFFICES ASSUME NEW q \in Cores PROVE Cardinality(HasFd(q)') <= FdLimit
    BY <1>z DEF FdsBounded
  <2>1. HasFd(q) \in SUBSET Visitors /\ HasFd(p) \in SUBSET Visitors
    BY DEF HasFd
  <2>2. CASE q = p
    <3>1. HasFd(p)' = HasFd(p) \cup {v} /\ v \notin HasFd(p)
      BY <1>1, <1>2, <1>3, <1>4 DEF HasFd
    <3>2. Cardinality(HasFd(p)') = Cardinality(HasFd(p)) + 1
      BY <2>1, <3>1, VisitorSets, FS_AddElement
    <3>3. Cardinality(HasFd(p)) \in Nat
      BY <2>1, VisitorSets
    <3> QED
      BY <1>0, <1>z, <2>2, <3>2, <3>3
  <2>3. CASE q # p
    <3>1. HasFd(q)' = HasFd(q)
      BY <1>1, <1>2, <1>3, <1>4, <2>3 DEF HasFd
    <3> QED
      BY <3>1 DEF HttpInv, FdsBounded
  <2> QED
    BY <2>2, <2>3
<1>9. OneStarts'
  BY <1>0 DEF HttpInv, OneStarts, Listening
<1>10. ASSUME NEW q \in Cores PROVE WhyEnded(q)'
  <2>1. \A u \in Visitors : Kept(u)
    BY <1>2, <1>3 DEF Kept
  <2> QED
    BY <1>0, <2>1, ReasonsStay DEF HttpInv
<1> QED
  BY <1>0, <1>5, <1>6, <1>7, <1>8, <1>9, <1>10 DEF HttpInv

\* A process answers a visitor, or is ended by it.
LEMMA RespondKeeps ==
  ASSUME HttpInv, NEW v \in Visitors, visit[v].st \in {"open", "lines"},
         NEW what \in {"200", "404", "501"}, NEW then \in {"left", "closed"},
         then = "left" => what = "501", what = "404" => visit[v].lines = "blank" \/ Gone(v),
         Respond(v, what, then), site' = site
  PROVE  HttpInv'
<1>0. visit[v] \in Visit /\ AtStage(visit[v])
  BY DEF HttpInv, HttpTyped
<1>1. CASE Gone(v) /\ Ends(visit[v].by, "killed")
  <2>1. visit[v].by \in Cores /\ v \in Mine(visit[v].by)
    BY <1>0 DEF AtStage, Mine
  <2> QED
    BY <1>1, <2>1, EndsKeeps
<1>2. CASE /\ visit' = [visit EXCEPT ![v].st = then,
                          ![v].heard = IF Gone(v) THEN @ ELSE Append(@, what)]
           /\ UNCHANGED <<worker, queued>>
  <2> DEFINE h == IF Gone(v) THEN visit[v].heard ELSE Append(visit[v].heard, what)
             r == [visit[v] EXCEPT !.st = then, !.heard = h]
  <2>1. visit' = [visit EXCEPT ![v] = r]
    BY <1>2 DEF HttpInv, HttpTyped
  <2>2. visit[v].heard = <<>>
    BY <1>0 DEF AtStage
  <2>3. h = IF Gone(v) THEN <<>> ELSE <<what>>
    BY <2>2
  <2> HIDE DEF h
  <2>4. h \in {<<>>, <<"200">>, <<"404">>, <<"501">>}
    BY <2>3
  <2>5. r \in Visit
    BY <1>0, <2>4 DEF Visit
  <2>6. /\ r.st = then /\ r.heard = h /\ r.by = visit[v].by /\ r.asks = visit[v].asks
        /\ r.end = visit[v].end /\ r.lines = visit[v].lines
    BY <1>0 DEF Visit
  <2> HIDE DEF r
  <2>7. then = "left" => h \in {<<>>, <<"501">>}
    BY <2>3
  <2>8. h = <<"404">> => r.lines = "blank"
    <3>1. <<what>>[1] = what /\ <<"404">>[1] = "404" /\ <<>> # <<"404">>
      OBVIOUS
    <3> QED
      BY <2>3, <2>6, <3>1
  <2>9. AtStage(r)
    BY <1>0, <2>6, <2>7, <2>8 DEF AtStage
  <2> QED
    BY <1>0, <1>2, <2>1, <2>5, <2>6, <2>9, OneVisitor
<1> QED
  BY <1>1, <1>2 DEF Respond

\* accept_request, whatever it takes the request for.
LEMMA BranchKeeps ==
  ASSUME HttpInv, NEW v \in Visitors, visit[v].st = "open", NEW asks \in Asks \ {"none"},
         asks = "dir" => visit[v].asks = "dir" \/ visit[v].end = "rst", Branch(v, asks),
         site' = site
  PROVE  HttpInv'
<1>0. visit[v] \in Visit /\ AtStage(visit[v])
  BY DEF HttpInv, HttpTyped
<1>1. CASE asks = "other"
  BY <1>1, RespondKeeps DEF Branch, unimplemented
<1>2. CASE asks = "missing"
  <2> DEFINE r == [visit[v] EXCEPT !.st = "lines"]
  <2>1. visit' = [visit EXCEPT ![v] = r] /\ worker' = worker /\ queued' = queued
    BY <1>2 DEF Branch, HttpInv, HttpTyped
  <2>2. r \in Visit /\ AtStage(r)
    BY <1>0 DEF Visit, AtStage
  <2>3. r.st = "lines" /\ r.by = visit[v].by /\ r.asks = visit[v].asks /\ r.end = visit[v].end
    BY <1>0 DEF Visit
  <2> HIDE DEF r
  <2> QED
    BY <2>1, <2>2, <2>3, OneVisitor
<1>3. CASE asks \in {"page", "dir"}
  <2>1. serve_file(v, asks)
    BY <1>3 DEF Branch
  <2>2. CASE CannotOpen(v, asks)
    <3>1. Ends(visit[v].by, "crashed") \/ (Gone(v) /\ Ends(visit[v].by, "killed"))
      BY <2>1, <2>2 DEF serve_file
    <3>2. visit[v].by \in Cores /\ v \in Mine(visit[v].by)
      BY <1>0 DEF AtStage, Mine
    <3>3. \/ visit[v].asks = "dir" \/ visit[v].end = "rst"
          \/ site.opens /\ Cardinality(HasFd(visit[v].by)) >= FdLimit
      BY <2>2 DEF CannotOpen
    <3> QED
      BY <3>1, <3>2, <3>3, EndsKeeps
  <2>3. CASE ~CannotOpen(v, asks)
    <3>1. Respond(v, "200", "closed")
      BY <2>1, <2>3 DEF serve_file
    <3> QED
      BY <3>1, RespondKeeps
  <2> QED
    BY <2>2, <2>3
<1> QED
  BY <1>1, <1>2, <1>3 DEF Asks

\* What a visitor does on its connection.
LEMMA VisitorKeeps ==
  ASSUME HttpInv, NEW v \in Visitors, SendLine(v) \/ GoAway(v)
  PROVE  HttpInv'
<1>0. visit[v] \in Visit /\ AtStage(visit[v]) /\ worker' = worker /\ queued' = queued /\ site' = site
  BY DEF HttpInv, HttpTyped, SendLine, GoAway
<1>1. CASE SendLine(v)
  <2> DEFINE r == [visit[v] EXCEPT !.lines = "blank"]
  <2>1. visit' = [visit EXCEPT ![v] = r] /\ visit[v].st \in {"open", "lines"}
    BY <1>1 DEF SendLine, HttpInv, HttpTyped
  <2>2. r \in Visit /\ AtStage(r)
    BY <1>0 DEF Visit, AtStage
  <2>3. r.st = visit[v].st /\ r.by = visit[v].by /\ r.asks = visit[v].asks /\ r.end = visit[v].end
    BY <1>0 DEF Visit
  <2> HIDE DEF r
  <2> QED
    BY <1>0, <2>1, <2>2, <2>3, OneVisitor
<1>2. CASE GoAway(v)
  <2>1. PICK e \in {"fin", "rst"} : visit' = [visit EXCEPT ![v].end = e]
    BY <1>2 DEF GoAway
  <2> DEFINE r == [visit[v] EXCEPT !.end = e]
  <2>2. /\ visit' = [visit EXCEPT ![v] = r] /\ visit[v].st \in {"queued", "open", "lines", "left"}
        /\ visit[v].end = "no"
    BY <1>2, <2>1 DEF GoAway, Gone, HttpInv, HttpTyped
  <2>3. r \in Visit /\ AtStage(r)
    BY <1>0 DEF Visit, AtStage
  <2>4. r.st = visit[v].st /\ r.by = visit[v].by /\ r.asks = visit[v].asks /\ r.end = e
    BY <1>0 DEF Visit
  <2> HIDE DEF r
  <2> QED
    BY <1>0, <2>2, <2>3, <2>4, OneVisitor
<1> QED
  BY <1>1, <1>2

\* What a process does before it serves.
LEMMA ProcessKeeps == ASSUME HttpInv, NEW p \in Cores, Process(p) PROVE HttpInv'
<1>1. CASE Bind(p)
  <2> DEFINE w == IF Listening = {} THEN "bound" ELSE "unbound"
  <2>1. worker[p] = "new" /\ worker' = [worker EXCEPT ![p] = w] /\ UNCHANGED <<queued, visit, site>>
    BY <1>1 DEF Bind
  <2>2. w \in WorkerAt \ {"full", "killed", "crashed"}
    BY DEF WorkerAt
  <2> QED
    BY <2>1, <2>2, OneWorker
<1>2. CASE ListenPort(p)
  <2> DEFINE w == CASE worker[p] = "unbound" -> "elsewhere"
                    [] worker[p] = "bound" /\ Listening = {} -> "listening"
                    [] OTHER -> "deaf"
  <2>1. worker[p] \in {"bound", "unbound"} /\ worker' = [worker EXCEPT ![p] = w] /\ UNCHANGED <<queued, visit, site>>
    BY <1>2 DEF ListenPort
  <2>2. /\ worker[p] = "unbound" => w = "elsewhere"
        /\ worker[p] = "bound" /\ Listening = {} => w = "listening"
        /\ worker[p] = "bound" /\ Listening # {} => w = "deaf"
    OBVIOUS
  <2> HIDE DEF w
  <2>3. w \in WorkerAt \ {"full", "killed", "crashed"}
    BY <2>1, <2>2 DEF WorkerAt
  <2>4. /\ w = "listening" => Listening = {}
        /\ w \notin {"new", "bound", "listening"} =>
             Listening # {} \/ worker[p] \notin {"off", "new", "bound"}
        /\ w \notin {"new", "bound"}
    BY <2>1, <2>2
  <2> QED
    BY <2>1, <2>3, <2>4, OneWorker
<1>3. CASE AcceptFails(p)
  <2>1. CASE worker[p] = "deaf" /\ worker' = [worker EXCEPT ![p] = "ended"] /\ UNCHANGED <<queued, visit>>
    <3>1. "ended" \in WorkerAt \ {"full", "killed", "crashed"}
      BY DEF WorkerAt
    <3> QED
      BY <1>3, <2>1, <3>1, OneWorker DEF AcceptFails
  <2>2. CASE Cardinality(HasFd(p)) >= FdLimit /\ Ends(p, "full")
    BY <1>3, <2>2, EndsKeeps DEF AcceptFails
  <2> QED
    BY <1>3, <2>1, <2>2 DEF AcceptFails
<1>4. CASE AcceptVisitor(p)
  BY <1>4, AcceptKeeps
<1> QED
  BY <1>1, <1>2, <1>3, <1>4 DEF Process

\* Every step keeps it.
LEMMA HttpStep == ASSUME HttpInv, [HttpNext]_httpVars PROVE HttpInv'
<1>1. ASSUME NEW v \in Visitors, accept_request(v) PROVE HttpInv'
  <2>1. visit[v].st = "open" /\ visit[v].asks \in Asks /\ site' = site
    BY <1>1 DEF accept_request, HttpInv, HttpTyped, Visit
  <2>2. CASE visit[v].asks # "none" /\ Branch(v, visit[v].asks)
    BY <2>1, <2>2, BranchKeeps
  <2>3. CASE \E stale \in {"page", "other"} : Branch(v, stale)
    <3>1. PICK stale \in {"page", "other"} : Branch(v, stale)
      BY <2>3
    <3>2. stale \in Asks \ {"none"} /\ stale # "dir"
      BY DEF Asks
    <3> QED
      BY <2>1, <3>1, <3>2, BranchKeeps
  <2>4. CASE visit[v].end = "rst" /\ \E stale \in Asks \ {"none"} : Branch(v, stale)
    BY <2>1, <2>4, BranchKeeps
  <2> QED
    BY <1>1, <2>2, <2>3, <2>4 DEF accept_request
<1>2. ASSUME NEW v \in Visitors, get_line(v) PROVE HttpInv'
  BY <1>2, RespondKeeps DEF get_line
<1>3. CASE UNCHANGED httpVars
  <2> USE DEF httpVars
  <2>1. HttpTyped' /\ QueuedVisitors' /\ \A v \in Visitors : AtStage(visit'[v])
    BY <1>3 DEF HttpInv, HttpTyped, QueuedVisitors
  <2>2. FdsBounded' /\ OneStarts'
    BY <1>3 DEF HttpInv, FdsBounded, FdLimit, HasFd, OneStarts, Listening
  <2>3. \A p \in Cores : WhyEnded(p)'
    <3>1. \A u \in Visitors : Kept(u)
      BY <1>3 DEF Kept
    <3> QED
      BY <1>3, <3>1, ReasonsStay DEF HttpInv
  <2> QED
    BY <1>3, <2>1, <2>2, <2>3 DEF HttpInv
<1> QED
  BY <1>1, <1>2, <1>3, ArriveKeeps, VisitorKeeps, ProcessKeeps DEF HttpNext, Serves

\* The invariant says what the property says.
LEMMA HttpInvSound == ASSUME HttpInv PROVE HttpSound
<1> USE HttpAssumption
<1>1. HttpTypeOK
  <2>1. \A v \in Visitors : visit[v] \in Visit
    BY DEF HttpInv, HttpTyped
  <2>2. ASSUME NEW v \in Visitors
        PROVE  visit[v].heard \in Seq({"200", "404", "501"}) /\ Len(visit[v].heard) <= 1
    <3>1. visit[v].heard \in {<<>>, <<"200">>, <<"404">>, <<"501">>}
      BY <2>1 DEF Visit
    <3>2. CASE visit[v].heard = <<>>
      BY <3>2
    <3>3. CASE visit[v].heard \in {<<"200">>, <<"404">>, <<"501">>}
      <4>1. PICK e \in {"200", "404", "501"} : visit[v].heard = <<e>>
        BY <3>3
      <4> QED
        BY <4>1
    <3> QED
      BY <3>1, <3>2, <3>3
  <2> QED
    BY <2>1, <2>2 DEF HttpTypeOK, HttpInv, HttpTyped, QueuedVisitors, FdsBounded, WorkerAt, Visit
<1>2. OneListens
  <2>1. \A p, q \in Listening : p = q
    BY DEF HttpInv, OneStarts
  <2>2. CASE Listening = {}
    <3>1. Cardinality(Listening) = 0
      BY <2>2, FS_EmptySet
    <3>2. ~ \A p \in Cores : worker[p] \in {"off", "elsewhere", "deaf", "listening", "ended"}
      BY <2>2 DEF HttpInv, OneStarts
    <3> QED
      BY <3>1, <3>2 DEF OneListens
  <2>3. CASE Listening # {}
    <3>1. PICK p \in Listening : TRUE
      BY <2>3
    <3>2. Listening = {p}
      BY <2>1, <3>1
    <3>3. Cardinality(Listening) = 1
      BY <3>2, FS_Singleton
    <3> QED
      BY <3>3 DEF OneListens
  <2> QED
    BY <2>2, <2>3
<1>3. NotFoundWaits
  BY DEF NotFoundWaits, HttpInv, AtStage
<1>4. WhatEndsHttp
  <2>1. \A p \in Cores : WhyEnded(p)
    BY DEF HttpInv
  <2> QED
    BY <2>1 DEF WhatEndsHttp, WhyEnded, Mine, CutOff
<1> QED
  BY <1>1, <1>2, <1>3, <1>4 DEF HttpSound

\* The web servers on NtyCo, however many processes start, visitors come and
\* descriptors there are: at most one process listens, a 404 waits for a second
\* blank line, and only what WhatEndsHttp names ends a process
\* (nty_http_server_mulcore.c:722).
THEOREM WebServersSound == HttpSpec => []HttpSound
<1>1. HttpSpec => []HttpInv
  BY HttpInitInv, HttpStep, PTL DEF HttpSpec
<1>2. HttpInv => HttpSound
  BY HttpInvSound
<1> QED
  BY <1>1, <1>2, PTL

-----------------------------------------------------------------------------
(* The event poll of the stack *)

\* What the server has still to look at, and what counts as an event of a descriptor:
\* one that is listed, in the server's hands, or about to be inserted.
Handed ==
  IF srv.pc \in {"add", "adding", "deleting"} THEN Tail(srv.events) ELSE srv.events
Told(here) == IF here THEN 1 ELSE 0
Telling(fd) == core.pc \in {"find", "insert"} /\ core.fd = fd
Due(fd) == Told(fd \in ToSet(rdlist)) + Told(fd \in ToSet(Handed)) + Told(Telling(fd))

Unique(s) == \A i, j \in DOMAIN s : s[i] = s[j] => i = j

PollTyped ==
  /\ rbr \subseteq PollFds /\ rdlist \in Seq(PollFds) /\ rdy \subseteq PollFds
  /\ cdmtx \in {"free", "srv"} /\ accepts \subseteq Conns
  /\ core \in [pc : {"idle", "find", "insert", "signal"}, fd : PollFds]
  /\ srv \in [pc : {"wait", "look", "doze", "asleep", "wake", "take",
                    "event", "add", "adding", "deleting"},
              forever : BOOLEAN, events : Seq(PollFds), fd : PollFds]
  /\ rcvbuf \in [Conns -> Nat] /\ come \in [Conns -> Int]

\* The list holds what is marked, once, and what the callback found is not marked yet.
ListedOk ==
  /\ rdnum = Len(rdlist) /\ Unique(rdlist) /\ ToSet(rdlist) = rdy
  /\ rdy \subseteq rbr /\ LISTENFD \in rbr
  /\ Core("insert") => core.fd \in rbr \ rdy

\* Until it sleeps the server holds the mutex, and an insertion is signalled later.
SleepOk ==
  /\ cdmtx = "srv" <=> srv.pc \in {"look", "doze"}
  /\ srv.pc \in {"doze", "asleep"} /\ rdlist # <<>> => Core("signal")

\* What the server has in hand.
HandedOk ==
  /\ srv.events = <<>> <=> srv.pc \notin {"event", "add", "adding", "deleting"}
  /\ Unique(srv.events) /\ Len(srv.events) <= MaxEvents
  /\ ToSet(srv.events) \subseteq rbr
  /\ srv.pc \in {"add", "adding"} => Head(srv.events) = LISTENFD
  /\ srv.pc = "deleting" =>
       /\ srv.fd \in Conns /\ Head(srv.events) = srv.fd
       /\ rcvbuf[srv.fd] = 0 /\ come[srv.fd] = Fragments[srv.fd]

\* Fragments come after the handshake, and each event is paid for: by a fragment in
\* the ring, or by a connection that waits to be accepted.
PaidOk ==
  /\ \A c \in Conns :
       /\ come[c] \in -1..Fragments[c]
       /\ IF come[c] = -1 THEN rcvbuf[c] = 0 /\ c \notin accepts ELSE rcvbuf[c] <= come[c]
       /\ Due(c) <= rcvbuf[c]
  /\ Due(LISTENFD) <= Cardinality(accepts)

PollInv == PollTyped /\ ListedOk /\ SleepOk /\ HandedOk /\ PaidOk

\* What is in front of a list is one more element of it.
LEMMA PushedList ==
  ASSUME NEW S, NEW s \in Seq(S), Unique(s), NEW x \in S, x \notin ToSet(s)
  PROVE  /\ <<x>> \o s \in Seq(S) /\ Len(<<x>> \o s) = Len(s) + 1
         /\ Unique(<<x>> \o s) /\ ToSet(<<x>> \o s) = ToSet(s) \cup {x}
<1> DEFINE u == <<x>> \o s
<1>1. /\ Len(s) \in Nat /\ DOMAIN s = 1..Len(s) /\ u \in Seq(S)
      /\ Len(u) = Len(s) + 1 /\ DOMAIN u = 1..(Len(s) + 1)
      /\ u[1] = x /\ \A i \in 2..(Len(s) + 1) : u[i] = s[i - 1]
  <2>1. <<x>> \in Seq(S) /\ Len(<<x>>) = 1 /\ <<x>>[1] = x
    OBVIOUS
  <2>2. /\ Len(u) = 1 + Len(s) /\ u \in Seq(S)
        /\ \A i \in 1..(1 + Len(s)) : u[i] = IF i <= 1 THEN <<x>>[i] ELSE s[i - 1]
    BY <2>1, ConcatProperties
  <2>3. Len(s) \in Nat /\ DOMAIN s = 1..Len(s)
    OBVIOUS
  <2> HIDE DEF u
  <2>4. DOMAIN u = 1..Len(u)
    BY <2>2
  <2> QED
    BY <2>1, <2>2, <2>3, <2>4
<1> HIDE DEF u
<1>2. \A i \in 1..Len(s) : u[i + 1] = s[i]
  BY <1>1
<1>3. ToSet(u) = ToSet(s) \cup {x}
  <2>1. \A y \in ToSet(u) : y = x \/ y \in ToSet(s)
    BY <1>1 DEF ToSet
  <2>2. x \in ToSet(u)
    BY <1>1 DEF ToSet
  <2>3. ASSUME NEW i \in DOMAIN s PROVE s[i] \in ToSet(u)
    <3>1. i + 1 \in DOMAIN u /\ u[i + 1] = s[i]
      BY <1>1, <1>2
    <3> QED
      BY <3>1 DEF ToSet
  <2> QED
    BY <2>1, <2>2, <2>3 DEF ToSet
<1>4. \A i \in 2..(Len(s) + 1) : u[i] # x
  <2>1. \A i \in DOMAIN s : s[i] # x
    BY DEF ToSet
  <2> QED
    BY <1>1, <2>1
<1>5. Unique(u)
  <2> SUFFICES ASSUME NEW i \in DOMAIN u, NEW j \in DOMAIN u, u[i] = u[j] PROVE i = j
    BY DEF Unique
  <2>1. CASE i = 1 \/ j = 1
    BY <1>1, <1>4, <2>1
  <2>2. CASE i # 1 /\ j # 1
    <3>1. i - 1 \in DOMAIN s /\ j - 1 \in DOMAIN s /\ s[i - 1] = s[j - 1]
      BY <1>1, <2>2
    <3> QED
      BY <1>1, <3>1 DEF Unique
  <2> QED
    BY <2>1, <2>2
<1> QED
  BY <1>1, <1>3, <1>5 DEF u

\* What is left of a list without its first element.
LEMMA ShiftedList ==
  ASSUME NEW S, NEW s \in Seq(S), Unique(s), s # <<>>
  PROVE  /\ Head(s) \in S /\ Head(s) \in ToSet(s)
         /\ Tail(s) \in Seq(S) /\ Len(Tail(s)) = Len(s) - 1
         /\ Tail(s) = <<>> <=> Len(s) = 1
         /\ Unique(Tail(s)) /\ ToSet(Tail(s)) = ToSet(s) \ {Head(s)}
<1>1. /\ Head(s) \in S /\ Tail(s) \in Seq(S) /\ Len(Tail(s)) = Len(s) - 1
      /\ \A i \in 1..Len(Tail(s)) : Tail(s)[i] = s[i + 1]
  BY HeadTailProperties
<1>2. Len(s) \in Nat /\ Len(s) > 0 /\ DOMAIN s = 1..Len(s) /\ Head(s) = s[1]
  OBVIOUS
<1> DEFINE t == Tail(s)
           h == Head(s)
<1> HIDE DEF t, h
<1>3. t \in Seq(S) /\ Len(t) = Len(s) - 1 /\ h = s[1] /\ \A i \in 1..Len(t) : t[i] = s[i + 1]
  BY <1>1, <1>2 DEF t, h
<1>4. h = s[1] /\ DOMAIN t = 1..(Len(s) - 1) /\ \A i \in 1..(Len(s) - 1) : t[i] = s[i + 1]
  BY <1>2, <1>3
<1>8. t = <<>> <=> Len(s) = 1
  <2>1. t = <<>> <=> Len(t) = 0
    BY <1>3
  <2> QED
    BY <1>2, <1>3, <2>1
<1>5. Unique(t)
  <2> SUFFICES ASSUME NEW i \in DOMAIN t, NEW j \in DOMAIN t, t[i] = t[j] PROVE i = j
    BY DEF Unique
  <2>1. i + 1 \in DOMAIN s /\ j + 1 \in DOMAIN s /\ s[i + 1] = s[j + 1]
    BY <1>2, <1>4
  <2> QED
    BY <1>2, <1>4, <2>1 DEF Unique
<1>6. ToSet(t) = ToSet(s) \ {h}
  <2>1. ASSUME NEW i \in DOMAIN t PROVE t[i] \in ToSet(s) \ {h}
    <3>1. i + 1 \in DOMAIN s /\ s[i + 1] = t[i] /\ 1 \in DOMAIN s /\ i + 1 # 1
      BY <1>2, <1>4
    <3> QED
      BY <1>4, <3>1 DEF ToSet, Unique
  <2>2. ASSUME NEW i \in DOMAIN s, s[i] # h PROVE s[i] \in ToSet(t)
    <3>1. i - 1 \in DOMAIN t /\ t[i - 1] = s[i]
      BY <1>2, <1>4, <2>2
    <3> QED
      BY <3>1 DEF ToSet
  <2> QED
    BY <2>1, <2>2 DEF ToSet
<1>7. h \in ToSet(s)
  BY <1>2, <1>4 DEF ToSet
<1> QED
  BY <1>1, <1>5, <1>6, <1>7, <1>8 DEF t, h

\* A list that is cut in two.
LEMMA CutList ==
  ASSUME NEW S, NEW s \in Seq(S), Unique(s), NEW n \in 0..Len(s)
  PROVE  LET front == SubSeq(s, 1, n)
             back  == SubSeq(s, n + 1, Len(s))
         IN  /\ front \in Seq(S) /\ Len(front) = n /\ (front = <<>> <=> n = 0)
             /\ back \in Seq(S) /\ Len(back) = Len(s) - n
             /\ Unique(front) /\ Unique(back)
             /\ ToSet(front) = {s[i] : i \in 1..n}
             /\ ToSet(back) = ToSet(s) \ ToSet(front) /\ ToSet(front) \subseteq ToSet(s)
<1> DEFINE front == SubSeq(s, 1, n)
           back  == SubSeq(s, n + 1, Len(s))
<1>1. Len(s) \in Nat /\ n \in Nat /\ n <= Len(s) /\ DOMAIN s = 1..Len(s)
      /\ \A i \in 1..Len(s) : s[i] \in S
  OBVIOUS
<1>2. /\ front \in Seq(S) /\ Len(front) = n /\ DOMAIN front = 1..n
      /\ \A i \in 1..n : front[i] = s[i]
  <2>1. \A i \in 1..n : s[i] \in S
    BY <1>1
  <2>2. /\ front \in Seq(S) /\ Len(front) = (IF 1 <= n THEN n - 1 + 1 ELSE 0)
        /\ \A i \in 1..(n - 1 + 1) : front[i] = s[1 + i - 1]
    BY <1>1, <2>1, SubSeqProperties
  <2>3. Len(front) = n
    BY <1>1, <2>2
  <2>4. \A i \in 1..n : front[i] = s[i]
    BY <1>1, <2>2
  <2> HIDE DEF front
  <2> QED
    BY <2>2, <2>3, <2>4
<1>3. /\ back \in Seq(S) /\ Len(back) = Len(s) - n /\ DOMAIN back = 1..(Len(s) - n)
      /\ \A i \in 1..(Len(s) - n) : back[i] = s[n + i]
  <2>1. \A i \in (n + 1)..Len(s) : s[i] \in S
    BY <1>1
  <2>2. /\ back \in Seq(S)
        /\ Len(back) = (IF n + 1 <= Len(s) THEN Len(s) - (n + 1) + 1 ELSE 0)
        /\ \A i \in 1..(Len(s) - (n + 1) + 1) : back[i] = s[n + 1 + i - 1]
    BY <1>1, <2>1, SubSeqProperties, SMTT(30)
  <2> DEFINE m == Len(s)
  <2> HIDE DEF back, m
  <2>3. m \in Nat /\ n <= m /\ Len(back) = (IF n + 1 <= m THEN m - (n + 1) + 1 ELSE 0)
    BY <1>1, <2>2 DEF m
  <2>4. Len(back) = m - n
    BY ONLY <1>1, <2>3
  <2>5. \A i \in 1..(m - (n + 1) + 1) : back[i] = s[n + 1 + i - 1]
    BY <2>2 DEF m
  <2>6. \A i \in 1..(m - n) : i \in 1..(m - (n + 1) + 1) /\ n + 1 + i - 1 = n + i
    BY ONLY <1>1, <2>3
  <2>7. \A i \in 1..(m - n) : back[i] = s[n + i]
    BY <2>5, <2>6
  <2> QED
    BY <2>2, <2>4, <2>7 DEF m
<1> HIDE DEF front, back
<1>4. Unique(front)
  BY <1>1, <1>2 DEF Unique
<1>5. Unique(back)
  <2> SUFFICES ASSUME NEW i \in DOMAIN back, NEW j \in DOMAIN back, back[i] = back[j] PROVE i = j
    BY DEF Unique
  <2>1. n + i \in DOMAIN s /\ n + j \in DOMAIN s /\ s[n + i] = s[n + j]
    BY <1>1, <1>3
  <2> QED
    BY <1>1, <1>3, <2>1 DEF Unique
<1>6. ToSet(front) = {s[i] : i \in 1..n}
  BY <1>2 DEF ToSet
<1>7. ToSet(front) \subseteq ToSet(s)
  <2>1. \A i \in 1..n : i \in DOMAIN s
    BY <1>1
  <2> QED
    BY ONLY <1>6, <2>1 DEF ToSet
<1>8. ToSet(back) = ToSet(s) \ ToSet(front)
  <2>1. ASSUME NEW i \in DOMAIN back PROVE back[i] \in ToSet(s) \ ToSet(front)
    <3>1. n + i \in DOMAIN s /\ s[n + i] = back[i] /\ n + i > n
      BY <1>1, <1>3
    <3>2. \A j \in 1..n : s[j] # s[n + i]
      BY <1>1, <3>1 DEF Unique
    <3> QED
      BY <1>6, <3>1, <3>2 DEF ToSet
  <2>2. ASSUME NEW i \in DOMAIN s, s[i] \notin ToSet(front) PROVE s[i] \in ToSet(back)
    <3>1. i \notin 1..n
      BY <1>6, <2>2
    <3>2. i - n \in DOMAIN back /\ back[i - n] = s[i]
      BY <1>1, <1>3, <3>1
    <3> QED
      BY <3>2 DEF ToSet
  <2> QED
    BY <2>1, <2>2 DEF ToSet
<1>9. front = <<>> <=> n = 0
  BY <1>1, <1>2
<1> QED
  BY <1>2, <1>3, <1>4, <1>5, <1>6, <1>7, <1>8, <1>9 DEF front, back

\* The event poll starts with an empty list and a server that will wait.
LEMMA PollInit_Inv == PollInit => PollInv
<1> SUFFICES ASSUME PollInit PROVE PollInv
  OBVIOUS
<1> USE PollAssumption
<1>1. PollTyped
  BY DEF PollInit, PollTyped, PollFds
<1>2. ToSet(<<>>) = {} /\ Unique(<<>>)
  BY DEF ToSet, Unique
<1>3. ListedOk /\ SleepOk /\ HandedOk
  BY <1>2 DEF PollInit, ListedOk, SleepOk, HandedOk, Core
<1>4. \A fd : Due(fd) = 0
  BY <1>2 DEF PollInit, Due, Told, Telling, Handed
<1>5. Cardinality(accepts) = 0
  BY FS_EmptySet DEF PollInit
<1>6. PaidOk
  BY <1>4, <1>5 DEF PollInit, PaidOk
<1> QED
  BY <1>1, <1>3, <1>6 DEF PollInv

\* How many connections wait to be accepted, with one more and with one less.
LEMMA Waiters ==
  ASSUME PollTyped
  PROVE  /\ Cardinality(accepts) \in Nat /\ (Cardinality(accepts) > 0 => accepts # {})
         /\ \A c \in Conns \ accepts : Cardinality(accepts \cup {c}) = Cardinality(accepts) + 1
         /\ \A c \in accepts : Cardinality(accepts \ {c}) = Cardinality(accepts) - 1
<1>1. IsFiniteSet(accepts)
  BY PollAssumption, FS_Subset DEF PollTyped
<1>2. Cardinality(accepts) \in Nat /\ (Cardinality(accepts) > 0 => accepts # {})
  BY <1>1, FS_CardinalityType, FS_EmptySet
<1>3. ASSUME NEW c \in Conns \ accepts
      PROVE  Cardinality(accepts \cup {c}) = Cardinality(accepts) + 1
  BY <1>1, FS_AddElement
<1>4. ASSUME NEW c \in accepts
      PROVE  Cardinality(accepts \ {c}) = Cardinality(accepts) - 1
  BY <1>1, FS_RemoveElement
<1> QED
  BY <1>2, <1>3, <1>4

\* A handshake brings a connection and one event of the listening socket.
LEMMA HandshakeKeeps == ASSUME PollInv, NEW c \in Conns, Handshake(c) PROVE PollInv'
<1> USE PollAssumption DEF PollInv
<1>1. PollTyped'
  BY DEF Handshake, PollTyped, PollFds, Core
<1>2. ListedOk' /\ SleepOk' /\ HandedOk'
  <2>1. core.pc = "idle" /\ core'.pc = "find" /\ UNCHANGED <<rbr, rdlist, rdnum, rdy, cdmtx, srv, rcvbuf>>
    BY DEF Handshake, Core
  <2>2. ListedOk' /\ SleepOk'
    BY <2>1 DEF ListedOk, SleepOk, Core
  <2>3. ASSUME srv.pc = "deleting" PROVE come'[srv.fd] = come[srv.fd]
    <3>1. srv.fd \in Conns /\ come[srv.fd] = Fragments[srv.fd] /\ Fragments[srv.fd] # -1
      BY <2>3 DEF HandedOk
    <3>2. come[c] = -1 /\ come' = [come EXCEPT ![c] = 0] /\ come \in [Conns -> Int]
      BY DEF Handshake, PollTyped
    <3> QED
      BY <3>1, <3>2
  <2> QED
    BY <2>1, <2>2, <2>3 DEF HandedOk
<1>3. \A fd : Due(fd)' = Due(fd) + Told(fd = LISTENFD)
  BY DEF Handshake, Due, Told, Telling, Handed, Core
<1>4. \A d \in Conns : Due(d)' = Due(d)
  BY <1>3 DEF Told, Due
<1>5. Due(LISTENFD)' = Due(LISTENFD) + 1
  BY <1>3 DEF Told
<1>6. Cardinality(accepts') = Cardinality(accepts) + 1 /\ Cardinality(accepts) \in Nat
  BY Waiters DEF Handshake, PaidOk
<1>7. Due(LISTENFD) \in Nat
  BY DEF Due, Told
<1>8. PaidOk'
  <2>1. Due(LISTENFD)' <= Cardinality(accepts')
    BY <1>5, <1>6, <1>7 DEF PaidOk
  <2>2. ASSUME NEW d \in Conns
        PROVE  /\ come'[d] \in -1..Fragments[d]
               /\ IF come'[d] = -1 THEN rcvbuf'[d] = 0 /\ d \notin accepts' ELSE rcvbuf'[d] <= come'[d]
               /\ Due(d)' <= rcvbuf'[d]
    <3>1. come[c] = -1 /\ come' = [come EXCEPT ![c] = 0] /\ come \in [Conns -> Int]
          /\ accepts' = accepts \cup {c} /\ rcvbuf' = rcvbuf
      BY DEF Handshake, PollTyped
    <3>2. CASE d = c
      <4>1. come'[c] = 0 /\ Fragments[c] \in Nat /\ rcvbuf[c] = 0
        BY <3>1 DEF PaidOk
      <4> QED
        BY <1>4, <3>1, <3>2, <4>1 DEF PaidOk
    <3>3. CASE d # c
      <4>1. come'[d] = come[d] /\ (d \in accepts' <=> d \in accepts)
        BY <3>1, <3>3
      <4> QED
        BY <1>4, <3>1, <4>1 DEF PaidOk
    <3> QED
      BY <3>2, <3>3
  <2> QED
    BY <2>1, <2>2 DEF PaidOk
<1> QED
  BY <1>1, <1>2, <1>8

\* A fragment pays for the event it brings.
LEMMA FragmentKeeps == ASSUME PollInv, NEW c \in Conns, Fragment(c) PROVE PollInv'
<1> USE PollAssumption DEF PollInv
<1>1. PollTyped'
  BY DEF Fragment, PollTyped, PollFds, Core
<1>2. core.pc = "idle" /\ core'.pc = "find" /\ UNCHANGED <<rbr, rdlist, rdnum, rdy, cdmtx, srv, accepts>>
  BY DEF Fragment, Core
<1>3. ListedOk' /\ SleepOk'
  BY <1>2 DEF ListedOk, SleepOk, Core
<1>4. \A d \in Conns : d # c => rcvbuf'[d] = rcvbuf[d] /\ come'[d] = come[d]
  BY DEF Fragment, PollTyped
<1>5. rcvbuf'[c] = rcvbuf[c] + 1 /\ come'[c] = come[c] + 1 /\ come[c] \in 0..(Fragments[c] - 1)
  BY DEF Fragment, PollTyped
<1>6. HandedOk'
  BY <1>2, <1>4, <1>5 DEF HandedOk
<1>7. \A fd : Due(fd)' = Due(fd) + Told(fd = c)
  BY DEF Fragment, Due, Told, Telling, Handed, Core
<1>8. (\A d \in Conns : d # c => Due(d)' = Due(d)) /\ Due(LISTENFD)' = Due(LISTENFD)
  BY <1>7 DEF Told, Due
<1>9. Due(c)' = Due(c) + 1 /\ Due(c) \in Nat
  BY <1>7 DEF Told, Due
<1>10. PaidOk'
  <2>1. Due(LISTENFD)' <= Cardinality(accepts')
    BY <1>2, <1>8 DEF PaidOk
  <2>2. ASSUME NEW d \in Conns
        PROVE  /\ come'[d] \in -1..Fragments[d]
               /\ IF come'[d] = -1 THEN rcvbuf'[d] = 0 /\ d \notin accepts' ELSE rcvbuf'[d] <= come'[d]
               /\ Due(d)' <= rcvbuf'[d]
    <3>1. CASE d = c
      <4>1. rcvbuf[c] \in Nat /\ Fragments[c] \in Nat /\ rcvbuf[c] <= come[c]
        BY <1>5 DEF PaidOk, PollTyped
      <4> QED
        BY <1>5, <1>9, <3>1, <4>1 DEF PaidOk
    <3>2. CASE d # c
      BY <1>2, <1>4, <1>8, <3>2 DEF PaidOk
    <3> QED
      BY <3>1, <3>2
  <2> QED
    BY <2>1, <2>2 DEF PaidOk
<1> QED
  BY <1>1, <1>3, <1>6, <1>10

\* What is looked for and not found was paid for too.
LEMMA FindKeeps == ASSUME PollInv, Find PROVE PollInv'
<1> USE PollAssumption DEF PollInv
<1>1. /\ core.pc = "find" /\ core'.fd = core.fd /\ core'.pc \in {"insert", "idle"}
      /\ core'.pc = "insert" => core.fd \in rbr \ rdy
      /\ core' \in [pc : {"idle", "find", "insert", "signal"}, fd : PollFds]
      /\ UNCHANGED <<rbr, rdlist, rdnum, rdy, cdmtx, srv, accepts, rcvbuf, come>>
  BY DEF Find, Core, PollTyped
<1>2. PollTyped' /\ ListedOk' /\ SleepOk' /\ HandedOk'
  BY <1>1 DEF PollTyped, ListedOk, SleepOk, HandedOk, Core
<1>3. \A fd : Due(fd)' <= Due(fd) /\ Due(fd) \in Nat /\ Due(fd)' \in Nat
  BY <1>1 DEF Due, Told, Telling, Handed
<1>4. PaidOk'
  <2>1. Cardinality(accepts) \in Nat
    BY Waiters
  <2>2. \A c \in Conns : Due(c)' <= rcvbuf'[c]
    BY <1>1, <1>3 DEF PaidOk, PollTyped
  <2>3. Due(LISTENFD)' <= Cardinality(accepts')
    BY <1>1, <1>3, <2>1 DEF PaidOk
  <2> QED
    BY <1>1, <2>2, <2>3 DEF PaidOk
<1> QED
  BY <1>2, <1>4

\* What the callback found is neither listed nor marked, and goes to the list's head.
LEMMA ListKeeps == ASSUME PollInv, Insert PROVE PollInv'
<1> USE PollAssumption DEF PollInv
<1>1. /\ core.pc = "insert" /\ core.fd \in rbr \ rdy /\ core.fd \notin ToSet(rdlist) /\ core.fd \in PollFds
      /\ rdlist' = <<core.fd>> \o rdlist /\ rdnum' = rdnum + 1 /\ rdy' = rdy \cup {core.fd}
      /\ core'.pc = "signal" /\ core' \in [pc : {"idle", "find", "insert", "signal"}, fd : PollFds]
      /\ UNCHANGED <<rbr, cdmtx, srv, accepts, rcvbuf, come>>
  BY DEF Insert, Core, ListedOk, PollTyped
<1>2. /\ rdlist' \in Seq(PollFds) /\ Len(rdlist') = Len(rdlist) + 1
      /\ Unique(rdlist') /\ ToSet(rdlist') = ToSet(rdlist) \cup {core.fd}
  <2>1. rdlist \in Seq(PollFds) /\ Unique(rdlist)
    BY DEF PollTyped, ListedOk
  <2> QED
    BY <1>1, <2>1, PushedList
<1>3. PollTyped'
  BY <1>1, <1>2 DEF PollTyped
<1>4. ListedOk'
  BY <1>1, <1>2 DEF ListedOk, Core
<1>5. SleepOk' /\ HandedOk'
  BY <1>1 DEF SleepOk, HandedOk, Core
<1>6. \A fd : Due(fd)' = Due(fd)
  BY <1>1, <1>2 DEF Due, Told, Telling, Handed
<1>7. PaidOk'
  BY <1>1, <1>6 DEF PaidOk
<1> QED
  BY <1>3, <1>4, <1>5, <1>7

\* The signal is sent under the mutex, so nobody has looked without sleeping yet.
LEMMA SignalKeeps == ASSUME PollInv, Signal PROVE PollInv'
<1> USE PollAssumption DEF PollInv
<1>1. /\ core.pc = "signal" /\ cdmtx = "free" /\ core'.pc = "idle"
      /\ core' \in [pc : {"idle", "find", "insert", "signal"}, fd : PollFds]
      /\ UNCHANGED <<rbr, rdlist, rdnum, rdy, cdmtx, accepts, rcvbuf, come>>
      /\ srv' = Woken
  BY DEF Signal, Core, PollTyped
<1>2. /\ srv' \in [pc : {"wait", "look", "doze", "asleep", "wake", "take",
                         "event", "add", "adding", "deleting"},
                   forever : BOOLEAN, events : Seq(PollFds), fd : PollFds]
      /\ srv'.events = srv.events /\ srv'.fd = srv.fd
      /\ IF srv.pc = "asleep" THEN srv'.pc = "wake" ELSE srv'.pc = srv.pc
  BY <1>1 DEF Woken, PollTyped
<1>3. PollTyped' /\ ListedOk'
  BY <1>1, <1>2 DEF PollTyped, ListedOk, Core
<1>4. SleepOk' /\ HandedOk'
  BY <1>1, <1>2 DEF SleepOk, HandedOk, Core
<1>5. \A fd : Due(fd)' = Due(fd)
  BY <1>1, <1>2 DEF Due, Told, Telling, Handed
<1>6. PaidOk'
  BY <1>1, <1>5 DEF PaidOk
<1> QED
  BY <1>3, <1>4, <1>6

\* Until it takes the list the server changes nothing but its place and the mutex.
LEMMA WaitKeeps ==
  ASSUME PollInv, Lock \/ Look \/ Sleep \/ Timeout \/ Wake
  PROVE  PollInv'
<1> USE PollAssumption DEF PollInv
<1>1. /\ UNCHANGED <<rbr, rdlist, rdnum, rdy, core, accepts, rcvbuf, come>>
      /\ srv'.events = srv.events /\ srv'.fd = srv.fd
      /\ srv.pc \in {"wait", "look", "doze", "asleep", "wake"}
      /\ srv'.pc \in {"look", "doze", "asleep", "wake", "take"}
      /\ srv' \in [pc : {"wait", "look", "doze", "asleep", "wake", "take",
                         "event", "add", "adding", "deleting"},
                   forever : BOOLEAN, events : Seq(PollFds), fd : PollFds]
      /\ cdmtx' \in {"free", "srv"}
  BY DEF Lock, Look, Sleep, Timeout, Wake, Srv, Goto, PollTyped
<1>2. PollTyped' /\ ListedOk'
  BY <1>1, ZenonT(40) DEF PollTyped, ListedOk, Core
<1>3. HandedOk'
  BY <1>1 DEF HandedOk
<1>4. SleepOk'
  <2>1. rdnum = Len(rdlist) /\ (rdlist = <<>> <=> rdnum = 0)
    BY DEF ListedOk, PollTyped
  <2>2. CASE Lock
    BY <1>1, <2>2 DEF Lock, Srv, Goto, SleepOk, PollTyped
  <2>3. CASE Look
    BY <1>1, <2>1, <2>3 DEF Look, Srv, Goto, SleepOk, PollTyped
  <2>4. CASE Sleep
    BY <1>1, <2>4 DEF Sleep, Srv, Goto, SleepOk, PollTyped, Core
  <2>5. CASE Timeout
    BY <1>1, <2>5 DEF Timeout, Srv, Goto, SleepOk, PollTyped
  <2>6. CASE Wake
    BY <1>1, <2>6 DEF Wake, Srv, Goto, SleepOk, PollTyped
  <2> QED
    BY <2>2, <2>3, <2>4, <2>5, <2>6
<1>5. \A fd : Due(fd)' = Due(fd)
  BY <1>1 DEF Due, Told, Telling, Handed
<1>6. PaidOk'
  BY <1>1, <1>5 DEF PaidOk
<1> QED
  BY <1>2, <1>3, <1>4, <1>6

\* What the server takes from the list loses its mark and is in its hands.
LEMMA TakeKeeps == ASSUME PollInv, Take PROVE PollInv'
<1> USE PollAssumption DEF PollInv
<1> DEFINE n == IF rdnum < MaxEvents THEN rdnum ELSE MaxEvents
           front == SubSeq(rdlist, 1, n)
           back  == SubSeq(rdlist, n + 1, Len(rdlist))
<1>1. /\ rdlist \in Seq(PollFds) /\ Len(rdlist) \in Nat /\ rdnum = Len(rdlist) /\ Unique(rdlist)
      /\ n \in 0..Len(rdlist) /\ n <= MaxEvents
  BY DEF PollTyped, ListedOk
<1> HIDE DEF n
<1>2. /\ front \in Seq(PollFds) /\ Len(front) = n /\ (front = <<>> <=> n = 0)
      /\ back \in Seq(PollFds) /\ Len(back) = Len(rdlist) - n
      /\ Unique(front) /\ Unique(back)
      /\ ToSet(front) = {rdlist[i] : i \in 1..n}
      /\ ToSet(back) = ToSet(rdlist) \ ToSet(front) /\ ToSet(front) \subseteq ToSet(rdlist)
  BY ONLY <1>1, CutList
<1>3. /\ srv.pc = "take"
      /\ srv' = [srv EXCEPT !.events = front, !.pc = IF n = 0 THEN "wait" ELSE "event"]
      /\ rdlist' = back /\ rdy' = rdy \ {rdlist[i] : i \in 1..n} /\ rdnum' = rdnum - n
      /\ UNCHANGED <<rbr, cdmtx, core, accepts, rcvbuf, come>>
  BY DEF Take, Taken, Srv, n
<1> HIDE DEF front, back
<1>4. /\ srv' \in [pc : {"wait", "look", "doze", "asleep", "wake", "take",
                         "event", "add", "adding", "deleting"},
                   forever : BOOLEAN, events : Seq(PollFds), fd : PollFds]
      /\ srv'.events = front /\ srv'.fd = srv.fd /\ srv'.pc \in {"wait", "event"}
      /\ srv'.pc = "wait" <=> front = <<>>
  BY <1>2, <1>3 DEF PollTyped
<1>5. rdy' = rdy \ ToSet(front)
  BY <1>2, <1>3
<1>6. srv.events = <<>>
  BY <1>3 DEF HandedOk
<1>7. PollTyped'
  BY <1>2, <1>3, <1>4, <1>5 DEF PollTyped
<1>8. ListedOk'
  BY <1>1, <1>2, <1>3, <1>5 DEF ListedOk, Core
<1>9. SleepOk'
  BY <1>3, <1>4 DEF SleepOk, Core
<1>10. HandedOk'
  BY <1>1, <1>2, <1>3, <1>4 DEF HandedOk, ListedOk
<1>11. \A fd : Due(fd)' = Due(fd)
  <2>1. ToSet(<<>>) = {}
    BY DEF ToSet
  <2>2. ToSet(Handed) = {} /\ Handed' = front
    BY <1>3, <1>4, <1>6, <2>1 DEF Handed
  <2>3. \A fd : Telling(fd)' = Telling(fd)
    BY <1>3 DEF Telling
  <2> QED
    BY <1>2, <1>3, <2>2, <2>3 DEF Due, Told
<1>12. PaidOk'
  BY <1>3, <1>11 DEF PaidOk
<1> QED
  BY <1>7, <1>8, <1>9, <1>10, <1>12

\* What is left when the first of the events is done.
LEMMA RestOf ==
  ASSUME PollInv, srv.events # <<>>
  PROVE  /\ Rest \in [pc : {"wait", "event"}, forever : BOOLEAN, events : Seq(PollFds), fd : PollFds]
         /\ Rest.events = Tail(srv.events) /\ Rest.fd = srv.fd
         /\ Rest.pc = "wait" <=> Tail(srv.events) = <<>>
         /\ Unique(Tail(srv.events)) /\ Len(Tail(srv.events)) <= MaxEvents
         /\ Head(srv.events) \in ToSet(srv.events) /\ Head(srv.events) \in PollFds
         /\ ToSet(Tail(srv.events)) = ToSet(srv.events) \ {Head(srv.events)}
<1> USE PollAssumption DEF PollInv
<1>1. srv.events \in Seq(PollFds) /\ Unique(srv.events) /\ Len(srv.events) <= MaxEvents
      /\ Len(srv.events) \in Nat
  BY DEF PollTyped, HandedOk
<1>2. /\ Head(srv.events) \in PollFds /\ Head(srv.events) \in ToSet(srv.events)
      /\ Tail(srv.events) \in Seq(PollFds) /\ Len(Tail(srv.events)) = Len(srv.events) - 1
      /\ Tail(srv.events) = <<>> <=> Len(srv.events) = 1
      /\ Unique(Tail(srv.events))
      /\ ToSet(Tail(srv.events)) = ToSet(srv.events) \ {Head(srv.events)}
  BY ONLY <1>1, srv.events # <<>>, ShiftedList
<1>3. /\ Rest \in [pc : {"wait", "event"}, forever : BOOLEAN, events : Seq(PollFds), fd : PollFds]
      /\ Rest.events = Tail(srv.events) /\ Rest.fd = srv.fd
      /\ Rest.pc = "wait" <=> Tail(srv.events) = <<>>
  BY <1>2 DEF Rest, PollTyped
<1> QED
  BY <1>1, <1>2, <1>3

\* Accepting takes one connection for one event of the listening socket.
LEMMA NacceptKeeps == ASSUME PollInv, naccept PROVE PollInv'
<1> USE PollAssumption DEF PollInv
<1>1. PICK c \in accepts :
        /\ accepts' = accepts \ {c}
        /\ srv' = [srv EXCEPT !.pc = "add", !.fd = c]
  BY DEF naccept
<1>2. /\ srv.pc = "event" /\ Head(srv.events) = LISTENFD /\ srv.events # <<>>
      /\ UNCHANGED <<rbr, rdlist, rdnum, rdy, cdmtx, core, rcvbuf, come>>
  BY DEF naccept, Srv, HandedOk
<1>3. /\ srv' \in [pc : {"wait", "look", "doze", "asleep", "wake", "take",
                         "event", "add", "adding", "deleting"},
                   forever : BOOLEAN, events : Seq(PollFds), fd : PollFds]
      /\ srv'.pc = "add" /\ srv'.events = srv.events
  BY <1>1 DEF PollTyped, PollFds
<1>4. PollTyped'
  BY <1>1, <1>2, <1>3 DEF PollTyped
<1>5. ListedOk' /\ SleepOk' /\ HandedOk'
  BY <1>2, <1>3 DEF ListedOk, SleepOk, HandedOk, Core
<1>6. Handed = srv.events /\ Handed' = Tail(srv.events)
  BY <1>2, <1>3 DEF Handed
<1>7. ToSet(Tail(srv.events)) = ToSet(srv.events) \ {LISTENFD} /\ LISTENFD \in ToSet(srv.events)
  BY <1>2, RestOf
<1>8. \A fd : Telling(fd)' = Telling(fd)
  BY <1>2 DEF Telling
<1>9. Due(LISTENFD)' = Due(LISTENFD) - 1 /\ Due(LISTENFD) \in Nat
  BY <1>2, <1>6, <1>7, <1>8 DEF Due, Told
<1>10. \A d \in Conns : Due(d)' = Due(d)
  BY <1>2, <1>6, <1>7, <1>8 DEF Due, Told
<1>11. PaidOk'
  <2>1. Cardinality(accepts') = Cardinality(accepts) - 1 /\ Cardinality(accepts) \in Nat
    BY <1>1, Waiters
  <2>2. Due(LISTENFD)' <= Cardinality(accepts')
    BY <1>9, <2>1 DEF PaidOk
  <2> QED
    BY <1>1, <1>2, <1>10, <2>2 DEF PaidOk
<1> QED
  BY <1>4, <1>5, <1>11

\* The tree takes the new connection; its event is done.
LEMMA AddKeeps == ASSUME PollInv, CtlAdd PROVE PollInv'
<1> USE PollAssumption DEF PollInv
<1>1. CASE srv.pc = "add" /\ Goto("adding") /\ UNCHANGED rbr
             /\ UNCHANGED <<rdlist, rdnum, rdy, cdmtx, core, accepts, rcvbuf, come>>
  <2>1. /\ srv' \in [pc : {"wait", "look", "doze", "asleep", "wake", "take",
                           "event", "add", "adding", "deleting"},
                     forever : BOOLEAN, events : Seq(PollFds), fd : PollFds]
        /\ srv'.pc = "adding" /\ srv'.events = srv.events
    BY <1>1 DEF Goto, PollTyped
  <2>2. PollTyped' /\ ListedOk' /\ SleepOk' /\ HandedOk'
    BY <1>1, <2>1 DEF PollTyped, ListedOk, SleepOk, HandedOk, Core
  <2>3. \A fd : Due(fd)' = Due(fd)
    BY <1>1, <2>1 DEF Due, Told, Telling, Handed
  <2>4. PaidOk'
    BY <1>1, <2>3 DEF PaidOk
  <2> QED
    BY <2>2, <2>4
<1>2. CASE srv.pc = "adding" /\ srv' = Rest /\ rbr' = rbr \cup {srv.fd}
             /\ UNCHANGED <<rdlist, rdnum, rdy, cdmtx, core, accepts, rcvbuf, come>>
  <2>1. srv.events # <<>>
    BY <1>2 DEF HandedOk
  <2>2. /\ Rest \in [pc : {"wait", "event"}, forever : BOOLEAN, events : Seq(PollFds), fd : PollFds]
        /\ Rest.events = Tail(srv.events) /\ Rest.fd = srv.fd
        /\ Rest.pc = "wait" <=> Tail(srv.events) = <<>>
        /\ Unique(Tail(srv.events)) /\ Len(Tail(srv.events)) <= MaxEvents
        /\ ToSet(Tail(srv.events)) \subseteq ToSet(srv.events)
    BY <2>1, RestOf
  <2> HIDE DEF PollInv
  <2>3. PollTyped'
    BY <1>2, <2>2 DEF PollTyped, PollInv
  <2>4. ListedOk' /\ SleepOk'
    BY <1>2, <2>2 DEF ListedOk, SleepOk, Core, PollInv
  <2>5. HandedOk'
    BY <1>2, <2>2 DEF HandedOk, PollInv
  <2>6. Handed' = Handed
    BY <1>2, <2>2 DEF Handed
  <2>7. \A fd : Due(fd)' = Due(fd)
    BY <1>2, <2>6 DEF Due, Told, Telling
  <2>8. PaidOk'
    BY <1>2, <2>7 DEF PaidOk, PollInv
  <2> QED
    BY <2>3, <2>4, <2>5, <2>8 DEF PollInv
<1> QED
  BY <1>1, <1>2 DEF CtlAdd, Srv

\* A fragment is read for an event; the last one leads to the deletion.
LEMMA RecvKeeps == ASSUME PollInv, NEW c \in Conns, nrecv(c) PROVE PollInv'
<1> USE PollAssumption DEF PollInv
<1>1. /\ srv.pc = "event" /\ Head(srv.events) = c /\ rcvbuf[c] > 0 /\ srv.events # <<>>
      /\ rcvbuf' = [rcvbuf EXCEPT ![c] = @ - 1]
      /\ UNCHANGED <<rbr, rdlist, rdnum, rdy, cdmtx, core, accepts, come>>
      /\ srv' = IF come[c] = Fragments[c] /\ rcvbuf[c] = 1
                THEN [srv EXCEPT !.pc = "deleting", !.fd = c] ELSE Rest
  BY DEF nrecv, Srv, HandedOk
<1>2. /\ rcvbuf'[c] = rcvbuf[c] - 1 /\ \A d \in Conns : d # c => rcvbuf'[d] = rcvbuf[d]
      /\ rcvbuf' \in [Conns -> Nat] /\ rcvbuf[c] \in Nat
  BY <1>1 DEF PollTyped
<1>3. /\ Rest \in [pc : {"wait", "event"}, forever : BOOLEAN, events : Seq(PollFds), fd : PollFds]
      /\ Rest.events = Tail(srv.events) /\ Rest.fd = srv.fd
      /\ Rest.pc = "wait" <=> Tail(srv.events) = <<>>
      /\ Unique(Tail(srv.events)) /\ Len(Tail(srv.events)) <= MaxEvents
      /\ c \in ToSet(srv.events) /\ ToSet(Tail(srv.events)) = ToSet(srv.events) \ {c}
  BY <1>1, RestOf
<1> DEFINE ends == come[c] = Fragments[c] /\ rcvbuf[c] = 1
<1> HIDE DEF PollInv
<1>4. /\ srv' \in [pc : {"wait", "look", "doze", "asleep", "wake", "take",
                         "event", "add", "adding", "deleting"},
                   forever : BOOLEAN, events : Seq(PollFds), fd : PollFds]
      /\ ends => srv'.pc = "deleting" /\ srv'.fd = c /\ srv'.events = srv.events
      /\ ~ends => srv'.pc \in {"wait", "event"} /\ srv'.events = Tail(srv.events)
                  /\ (srv'.pc = "wait" <=> Tail(srv.events) = <<>>)
  <2>1. CASE ends
    BY <1>1, <2>1 DEF PollTyped, PollFds, PollInv
  <2>2. CASE ~ends
    BY <1>1, <1>3, <2>2
  <2> QED
    BY <2>1, <2>2
<1>5. PollTyped'
  BY <1>1, <1>2, <1>4 DEF PollTyped, PollInv
<1>6. ListedOk' /\ SleepOk'
  BY <1>1, <1>4 DEF ListedOk, SleepOk, Core, PollInv
<1>7. HandedOk'
  <2>1. CASE ends
    BY <1>1, <1>2, <1>4, <2>1 DEF HandedOk, PollInv
  <2>2. CASE ~ends
    BY <1>1, <1>3, <1>4, <2>2 DEF HandedOk, PollInv
  <2> QED
    BY <2>1, <2>2
<1>8. Handed = srv.events /\ Handed' = Tail(srv.events)
  <2>1. Handed = srv.events
    BY <1>1 DEF Handed
  <2>2. CASE ends
    BY <1>4, <2>1, <2>2 DEF Handed
  <2>3. CASE ~ends
    BY <1>4, <2>1, <2>3 DEF Handed
  <2> QED
    BY <2>1, <2>2, <2>3
<1>9. \A fd : Telling(fd)' = Telling(fd)
  BY <1>1 DEF Telling
<1>10. Due(c)' = Due(c) - 1 /\ Due(c) \in Nat /\ \A fd : fd # c => Due(fd)' = Due(fd)
  BY <1>1, <1>3, <1>8, <1>9 DEF Due, Told
<1>11. PaidOk'
  <2>1. Due(LISTENFD)' <= Cardinality(accepts')
    BY <1>1, <1>10 DEF PaidOk, PollInv
  <2>2. ASSUME NEW d \in Conns
        PROVE  /\ come'[d] \in -1..Fragments[d]
               /\ IF come'[d] = -1 THEN rcvbuf'[d] = 0 /\ d \notin accepts' ELSE rcvbuf'[d] <= come'[d]
               /\ Due(d)' <= rcvbuf'[d]
    <3>1. CASE d = c
      <4>1. come[c] \in -1..Fragments[c] /\ Fragments[c] \in Nat /\ come[c] # -1
            /\ rcvbuf[c] <= come[c] /\ Due(c) <= rcvbuf[c]
        BY <1>1 DEF PaidOk, PollInv
      <4> QED
        BY <1>1, <1>2, <1>10, <3>1, <4>1
    <3>2. CASE d # c
      BY <1>1, <1>2, <1>10, <3>2 DEF PaidOk, PollInv
    <3> QED
      BY <3>1, <3>2
  <2> QED
    BY <2>1, <2>2 DEF PaidOk
<1> QED
  BY <1>5, <1>6, <1>7, <1>11 DEF PollInv

\* An item is freed when no event of it is left, and none can come.
LEMMA DelKeeps == ASSUME PollInv, CtlDel PROVE PollInv'
<1>1. /\ srv.pc = "deleting" /\ rbr' = rbr \ {srv.fd} /\ srv' = Rest
      /\ UNCHANGED <<rdlist, rdnum, rdy, cdmtx, core, accepts, rcvbuf, come>>
  BY DEF CtlDel, Srv
<1>2. /\ srv.fd \in Conns /\ Head(srv.events) = srv.fd /\ rcvbuf[srv.fd] = 0 /\ srv.events # <<>>
  BY <1>1 DEF HandedOk, PollInv
<1>3. /\ Rest \in [pc : {"wait", "event"}, forever : BOOLEAN, events : Seq(PollFds), fd : PollFds]
      /\ Rest.events = Tail(srv.events) /\ Rest.fd = srv.fd
      /\ Rest.pc = "wait" <=> Tail(srv.events) = <<>>
      /\ Unique(Tail(srv.events)) /\ Len(Tail(srv.events)) <= MaxEvents
      /\ ToSet(Tail(srv.events)) = ToSet(srv.events) \ {srv.fd}
  BY <1>2, RestOf
<1>4. Due(srv.fd) = 0
  <2>1. Due(srv.fd) <= 0 /\ Due(srv.fd) \in Nat
    BY <1>2 DEF PaidOk, PollInv, Due, Told
  <2> QED
    BY <2>1
<1>5. srv.fd \notin ToSet(rdlist) /\ ~Telling(srv.fd)
  BY <1>4 DEF Due, Told
<1>6. srv.fd # LISTENFD
  BY <1>2, PollAssumption
<1>7. PollTyped'
  BY <1>1, <1>3 DEF PollTyped, PollInv
<1>8. ListedOk'
  BY <1>1, <1>5, <1>6 DEF ListedOk, Core, PollInv, Telling
<1>9. SleepOk'
  BY <1>1, <1>3 DEF SleepOk, Core, PollInv
<1>10. HandedOk'
  BY <1>1, <1>3 DEF HandedOk, PollInv
<1>11. \A fd : Due(fd)' = Due(fd)
  <2>1. Handed' = Handed
    BY <1>1, <1>3 DEF Handed
  <2> QED
    BY <1>1, <2>1 DEF Due, Told, Telling
<1>12. PaidOk'
  BY <1>1, <1>11 DEF PaidOk, PollInv
<1> QED
  BY <1>7, <1>8, <1>9, <1>10, <1>12 DEF PollInv

\* Every step of the packet core and of the server keeps the invariant.
LEMMA PollNext_Inv == PollInv /\ [PollNext]_pollVars => PollInv'
<1> SUFFICES ASSUME PollInv, [PollNext]_pollVars PROVE PollInv'
  OBVIOUS
<1>1. ASSUME NEW c \in Conns, Handshake(c) \/ Fragment(c) PROVE PollInv'
  BY <1>1, HandshakeKeeps, FragmentKeeps
<1>2. CASE epoll_event_callback
  BY <1>2, FindKeeps, ListKeeps, SignalKeeps DEF epoll_event_callback
<1>3. CASE PollServer
  <2>1. CASE nepoll_wait
    BY <2>1, WaitKeeps, TakeKeeps DEF nepoll_wait
  <2>2. CASE naccept \/ CtlAdd \/ CtlDel
    BY <2>2, NacceptKeeps, AddKeeps, DelKeeps
  <2>3. ASSUME NEW c \in Conns, nrecv(c) PROVE PollInv'
    BY <2>3, RecvKeeps
  <2> QED
    BY <1>3, <2>1, <2>2, <2>3 DEF PollServer
<1>4. CASE UNCHANGED pollVars
  BY <1>4 DEF pollVars, PollInv, PollTyped, ListedOk, SleepOk, HandedOk, PaidOk, Due, Telling, Handed, Core
<1> QED
  BY <1>1, <1>2, <1>3, <1>4 DEF PollNext

\* The invariant gives what the event poll promises.
LEMMA PollInv_Sound == PollInv => PollSound
<1> SUFFICES ASSUME PollInv PROVE PollSound
  OBVIOUS
<1> USE PollAssumption DEF PollInv
<1>1. Len(rdlist) \in Nat /\ DOMAIN rdlist = 1..Len(rdlist) /\ rdnum = Len(rdlist)
      /\ (rdlist = <<>> <=> rdnum = 0)
  BY DEF PollTyped, ListedOk
<1>2. PollTypeOK
  <2>1. \A c \in Conns : rcvbuf[c] \in 0..Fragments[c] /\ come[c] \in -1..Fragments[c]
    <3> SUFFICES ASSUME NEW c \in Conns
                 PROVE  rcvbuf[c] \in 0..Fragments[c] /\ come[c] \in -1..Fragments[c]
      OBVIOUS
    <3>1. /\ come[c] \in -1..Fragments[c] /\ Fragments[c] \in Nat /\ rcvbuf[c] \in Nat
          /\ IF come[c] = -1 THEN rcvbuf[c] = 0 ELSE rcvbuf[c] <= come[c]
      BY DEF PaidOk, PollTyped
    <3> QED
      BY <3>1
  <2> QED
    BY <1>1, <2>1 DEF PollTypeOK, PollTyped, HandedOk
<1>3. ReadyExact
  BY <1>1 DEF ReadyExact, ListedOk, Unique, ToSet
<1>4. NoLostWakeup
  BY <1>1 DEF NoLostWakeup, SleepOk, Srv
<1>5. NoFreedItem
  BY DEF NoFreedItem, ListedOk, HandedOk, Core
<1>6. NeverBlocks
  <2> SUFFICES ASSUME srv.pc = "event"
               PROVE  IF Head(srv.events) = LISTENFD THEN accepts # {}
                      ELSE rcvbuf[Head(srv.events)] > 0
    BY DEF NeverBlocks, Srv
  <2>1. srv.events # <<>> /\ Handed = srv.events
    BY DEF HandedOk, Handed
  <2>2. Head(srv.events) \in ToSet(srv.events) /\ Head(srv.events) \in PollFds
    BY <2>1, RestOf
  <2>3. Due(Head(srv.events)) >= 1 /\ Due(Head(srv.events)) \in Nat
    BY <2>1, <2>2 DEF Due, Told
  <2>4. CASE Head(srv.events) = LISTENFD
    <3>1. Cardinality(accepts) >= 1
      BY <2>3, <2>4, Waiters DEF PaidOk
    <3> QED
      BY <2>4, <3>1, Waiters
  <2>5. CASE Head(srv.events) \in Conns
    BY <2>3, <2>5 DEF PaidOk, PollTyped
  <2> QED
    BY <2>2, <2>4, <2>5 DEF PollFds
<1> QED
  BY <1>2, <1>3, <1>4, <1>5, <1>6 DEF PollSound

\* The event poll loses no wake-up, lists what is marked, and hands out no event that
\* would block the server or lead to a freed item, over every interleaving of the
\* packet core and the server (ustack_backup_2.4.4.c:2280-2310, 2395-2480).
THEOREM PollIsSound == PollSpec => []PollSound
<1>1. PollSpec => []PollInv
  BY PollInit_Inv, PollNext_Inv, PTL DEF PollSpec
<1> QED
  BY <1>1, PollInv_Sound, PTL

-----------------------------------------------------------------------------
(* The UDP half of the stack *)

\* What is on its way to the server: at most one entry for each datagram.
InHand == IF udpSrv.pc = "got" THEN {udpSrv.of} ELSE {}
Under ==
  ToSet(wire) \cup ToSet(inRing) \cup ToSet(udpCore.burst) \cup ToSet(rcvRing) \cup InHand

\* What has been answered, the oldest first, up to the answer the server is to give.
Answering ==
  IF udpSrv.pc = "answer"
  THEN <<[of |-> udpSrv.of.of, from |-> udpSrv.piece, to |-> udpSrv.piece]>> ELSE <<>>
Back == ((heard \o outRing) \o sndRing) \o Answering

Datagrams == Hosts \X Nat \X Nat
Portions == [of : Datagrams, from : Nat, to : Nat]
Stages == {"lock", "look", "doze", "asleep", "got", "answer"}

UdpTyped ==
  /\ tosend \in [Hosts -> Nat] /\ \A h \in Hosts : tosend[h] <= Traffic[h]
  /\ \A r \in {wire, inRing, outRing, sndRing, rcvRing, heard, udpCore.burst} : r \in Seq(Portions)
  /\ arp \subseteq Hosts /\ mutex \in {"free", "srv"} /\ dropped \subseteq Datagrams
  /\ udpCore \in [pc : {"poll", "burst", "signal"}, burst : Seq(Portions)]
  /\ udpSrv = [pc |-> udpSrv.pc, piece |-> udpSrv.piece, of |-> udpSrv.of] /\ udpSrv.pc \in Stages
  /\ udpSrv.pc \in {"got", "answer"} => udpSrv.of \in Portions /\ udpSrv.piece = udpSrv.of.from
  /\ udpCore.pc = "poll" => udpCore.burst = <<>>
  /\ \A r \in {inRing, outRing, sndRing, rcvRing} : Len(r) <= RingSize
  /\ Len(udpCore.burst) <= BurstSize

\* No entry is in two places, and none is twice in one.
Apart(A, B, C, D, E) ==
  /\ A \cap (B \cup C \cup D \cup E) = {} /\ B \cap (C \cup D \cup E) = {}
  /\ C \cap (D \cup E) = {} /\ D \cap E = {}
Spread ==
  /\ \A r \in {wire, inRing, udpCore.burst, rcvRing} : Unique(r)
  /\ Apart(ToSet(wire), ToSet(inRing), ToSet(udpCore.burst), ToSet(rcvRing), InHand)
  /\ \A x, y \in Under : x.of = y.of => x = y

\* The answers to a datagram come in the order of its pieces, without a gap unless
\* something of it was dropped.
Comes(q, n, d, p) == \E j \in 1..n : q[j].of = d /\ q[j].from = p
InOrder(q, gone) ==
  \A i \in 1..Len(q) :
    /\ \A j \in 1..(i - 1) : q[j].of = q[i].of => q[j].from < q[i].from
    /\ q[i].of \notin gone => \A p \in 1..(q[i].from - 1) : Comes(q, i - 1, q[i].of, p)

\* What is still to come of a datagram goes on where its answers end.
GoesOn(e, q, gone) ==
  /\ e.from \in 1..e.to /\ e.to = e.of[3]
  /\ \A i \in 1..Len(q) : q[i].of = e.of => q[i].from < e.from
  /\ e.of \notin gone => \A p \in 1..(e.from - 1) : Comes(q, Len(q), e.of, p)

\* Nothing is under way that was not sent, and nothing of what was sent gets lost but
\* what is dropped.
SentOf(d, left) == d[2] \in (left[d[1]] + 1)..Traffic[d[1]]
Whole(d, under, q, gone) ==
  \/ d \in gone \/ \E e \in under : e.of = d
  \/ \A p \in 1..d[3] : Comes(q, Len(q), d, p)
History(under, q, gone, left) ==
  /\ InOrder(q, gone) /\ \A e \in under : GoesOn(e, q, gone)
  /\ \A e \in under : SentOf(e.of, left)
  /\ \A i \in 1..Len(q) : SentOf(q[i].of, left)
  /\ \A h \in Hosts : \A k \in (left[h] + 1)..Traffic[h] : \E n \in 1..Pieces :
       Whole(<<h, k, n>>, under, q, gone)

\* The sender of what has come so far is known.
Introduced ==
  /\ \A e \in ToSet(rcvRing) \cup ToSet(sndRing) : e.of[1] \in arp
  /\ udpSrv.pc \in {"got", "answer"} => udpSrv.of.of[1] \in arp

\* Until it sleeps the server holds the mutex, and what comes meanwhile is signalled.
UdpSleepOk ==
  /\ mutex = "srv" <=> udpSrv.pc \in {"look", "doze"}
  /\ udpSrv.pc \in {"doze", "asleep"} /\ rcvRing # <<>> => udpCore.pc = "signal"

UdpInv ==
  UdpTyped /\ Spread /\ History(Under, Back, dropped, tosend) /\ Introduced /\ UdpSleepOk

\* What Append adds to a list.
LEMMA LongerList ==
  ASSUME NEW S, NEW s \in Seq(S), Unique(s), NEW x \in S, x \notin ToSet(s)
  PROVE  /\ Append(s, x) \in Seq(S) /\ Len(Append(s, x)) = Len(s) + 1
         /\ Unique(Append(s, x)) /\ ToSet(Append(s, x)) = ToSet(s) \cup {x}
<1> DEFINE u == Append(s, x)
<1>1. /\ Len(s) \in Nat /\ DOMAIN s = 1..Len(s) /\ u \in Seq(S) /\ Len(u) = Len(s) + 1
      /\ DOMAIN u = 1..(Len(s) + 1) /\ u[Len(s) + 1] = x /\ \A i \in 1..Len(s) : u[i] = s[i]
  BY AppendProperties
<1> HIDE DEF u
<1>2. ToSet(u) = ToSet(s) \cup {x}
  <2>1. \A y \in ToSet(u) : y = x \/ y \in ToSet(s)
    BY <1>1 DEF ToSet
  <2>2. x \in ToSet(u)
    BY <1>1 DEF ToSet
  <2>3. \A i \in DOMAIN s : i \in DOMAIN u /\ u[i] = s[i]
    BY <1>1
  <2> QED
    BY <2>1, <2>2, <2>3 DEF ToSet
<1>3. \A i \in 1..Len(s) : u[i] # x
  BY <1>1 DEF ToSet
<1>4. Unique(u)
  <2> SUFFICES ASSUME NEW i \in DOMAIN u, NEW j \in DOMAIN u, u[i] = u[j] PROVE i = j
    BY DEF Unique
  <2>1. CASE i = Len(s) + 1 \/ j = Len(s) + 1
    BY <1>1, <1>3, <2>1
  <2>2. CASE i \in 1..Len(s) /\ j \in 1..Len(s)
    BY <1>1, <2>2 DEF Unique
  <2> QED
    BY <1>1, <2>1, <2>2
<1> QED
  BY <1>1, <1>2, <1>4 DEF u

\* What is in two lists together.
LEMMA JoinedList ==
  ASSUME NEW S, NEW s \in Seq(S), NEW t \in Seq(S), Unique(s), Unique(t), ToSet(s) \cap ToSet(t) = {}
  PROVE  /\ s \o t \in Seq(S) /\ Len(s \o t) = Len(s) + Len(t)
         /\ Unique(s \o t) /\ ToSet(s \o t) = ToSet(s) \cup ToSet(t)
<1> DEFINE u == s \o t
<1>1. /\ Len(s) \in Nat /\ Len(t) \in Nat /\ DOMAIN s = 1..Len(s) /\ DOMAIN t = 1..Len(t)
      /\ u \in Seq(S) /\ Len(u) = Len(s) + Len(t) /\ DOMAIN u = 1..(Len(s) + Len(t))
      /\ \A i \in 1..(Len(s) + Len(t)) : u[i] = IF i <= Len(s) THEN s[i] ELSE t[i - Len(s)]
  BY ConcatProperties
<1> HIDE DEF u
<1>2. \A i \in DOMAIN u : IF i <= Len(s) THEN i \in DOMAIN s /\ u[i] = s[i]
                         ELSE i - Len(s) \in DOMAIN t /\ u[i] = t[i - Len(s)]
  BY <1>1
<1>3. (\A i \in DOMAIN s : i \in DOMAIN u /\ u[i] = s[i])
      /\ (\A i \in DOMAIN t : i + Len(s) \in DOMAIN u /\ u[i + Len(s)] = t[i])
  BY <1>1
<1>4. ToSet(u) = ToSet(s) \cup ToSet(t)
  BY <1>2, <1>3 DEF ToSet
<1>5. Unique(u)
  <2> SUFFICES ASSUME NEW i \in DOMAIN u, NEW j \in DOMAIN u, u[i] = u[j] PROVE i = j
    BY DEF Unique
  <2>1. i \in Int /\ j \in Int /\ Len(s) \in Int
    BY <1>1
  <2>2. CASE i <= Len(s) /\ j <= Len(s)
    BY <1>2, <2>2 DEF Unique
  <2>3. CASE ~(i <= Len(s)) /\ ~(j <= Len(s))
    <3>1. i - Len(s) = j - Len(s)
      BY <1>2, <2>3 DEF Unique
    <3> QED
      BY <2>1, <3>1
  <2>4. \A x \in ToSet(s) : x \notin ToSet(t)
    OBVIOUS
  <2>5. ASSUME i <= Len(s), ~(j <= Len(s)) PROVE FALSE
    <3>1. u[i] \in ToSet(s) /\ u[j] \in ToSet(t)
      BY <1>2, <2>5 DEF ToSet
    <3> QED
      BY <2>4, <3>1
  <2>6. ASSUME ~(i <= Len(s)), j <= Len(s) PROVE FALSE
    <3>1. u[j] \in ToSet(s) /\ u[i] \in ToSet(t)
      BY <1>2, <2>6 DEF ToSet
    <3> QED
      BY <2>4, <3>1
  <2> QED
    BY <2>2, <2>3, <2>5, <2>6
<1> QED
  BY <1>1, <1>4, <1>5 DEF u

-----------------------------------------------------------------------------
(* What a step does to the history of the datagrams *)

\* What is dropped may be forgotten.
LEMMA HistoryDrops ==
  ASSUME NEW U, NEW U2 \in SUBSET U, NEW q, NEW gone, NEW gone2, NEW left,
         History(U, q, gone, left), gone \subseteq gone2, \A e \in U \ U2 : e.of \in gone2
  PROVE  History(U2, q, gone2, left)
<1>1. InOrder(q, gone2)
  BY DEF History, InOrder
<1>2. \A e \in U2 : GoesOn(e, q, gone2) /\ SentOf(e.of, left)
  BY DEF History, GoesOn
<1>3. \A d : Whole(d, U, q, gone) => Whole(d, U2, q, gone2)
  BY DEF Whole
<1>4. \A h \in Hosts : \A k \in (left[h] + 1)..Traffic[h] : \E n \in 1..Pieces :
        Whole(<<h, k, n>>, U2, q, gone2)
  BY <1>3 DEF History
<1> QED
  BY <1>1, <1>2, <1>4 DEF History

\* A new datagram has no answers yet.
LEMMA HistorySends ==
  ASSUME NEW U \in SUBSET Portions, NEW q \in Seq(Portions), NEW gone, NEW left \in [Hosts -> Nat],
         NEW h \in Hosts, left[h] > 0, left[h] <= Traffic[h], NEW n \in 1..Pieces,
         History(U, q, gone, left)
  PROVE  LET e == [of |-> <<h, left[h], n>>, from |-> 1, to |-> n]
         IN  /\ \A x \in U : x.of # e.of
             /\ History(U \cup {e}, q, gone, [left EXCEPT ![h] = @ - 1])
<1> USE UdpAssumption
<1> DEFINE e == [of |-> <<h, left[h], n>>, from |-> 1, to |-> n]
           left2 == [left EXCEPT ![h] = @ - 1]
<1>1. /\ e.of = <<h, left[h], n>> /\ e.from = 1 /\ e.to = n
      /\ e.of[1] = h /\ e.of[2] = left[h] /\ e.of[3] = n
  OBVIOUS
<1>2. /\ left2[h] = left[h] - 1 /\ \A g \in Hosts : g # h => left2[g] = left[g]
      /\ \A g \in Hosts : left[g] \in Nat /\ left2[g] \in Nat /\ Traffic[g] \in Nat /\ left2[g] <= left[g]
  OBVIOUS
<1> HIDE DEF e, left2
<1>3. \A x \in Portions : x.of[1] \in Hosts /\ x.of[2] \in Nat
  BY DEF Portions, Datagrams
<1>4. \A x \in Portions : SentOf(x.of, left) => x.of # e.of /\ SentOf(x.of, left2)
  <2> SUFFICES ASSUME NEW x \in Portions, SentOf(x.of, left)
               PROVE  x.of # e.of /\ SentOf(x.of, left2)
    OBVIOUS
  <2> DEFINE g == x.of[1]
             k == x.of[2]
  <2>1. g \in Hosts /\ k \in Nat /\ k \in (left[g] + 1)..Traffic[g]
    BY <1>3 DEF SentOf
  <2>2. x.of = e.of => g = h /\ k = left[h]
    BY <1>1
  <2> HIDE DEF g, k
  <2>3. x.of # e.of
    BY <1>2, <2>1, <2>2
  <2>4. k \in (left2[g] + 1)..Traffic[g]
    BY <1>2, <2>1
  <2> QED
    BY <2>3, <2>4 DEF SentOf, g, k
<1>5. \A i \in 1..Len(q) : q[i] \in Portions
  BY ElementOfSeq
<1>6. \A x \in U : x.of # e.of
  BY <1>4 DEF History
<1>7. \A i \in 1..Len(q) : q[i].of # e.of /\ SentOf(q[i].of, left2)
  BY <1>4, <1>5 DEF History
<1>8. SentOf(e.of, left2)
  BY <1>1, <1>2 DEF SentOf
<1>9. GoesOn(e, q, gone)
  BY <1>1, <1>7, UdpAssumption DEF GoesOn
<1>10. ASSUME NEW g \in Hosts, NEW k \in (left2[g] + 1)..Traffic[g]
       PROVE  \E m \in 1..Pieces : Whole(<<g, k, m>>, U \cup {e}, q, gone)
  <2>1. CASE g = h /\ k = left[h]
    BY <1>1, <2>1 DEF Whole
  <2>2. CASE k \in (left[g] + 1)..Traffic[g]
    <3>1. PICK m \in 1..Pieces : Whole(<<g, k, m>>, U, q, gone)
      BY <2>2 DEF History
    <3>2. Whole(<<g, k, m>>, U \cup {e}, q, gone)
      BY <3>1 DEF Whole
    <3> QED
      BY <3>2
  <2>3. k \in Int /\ k >= left2[g] + 1 /\ k <= Traffic[g] /\ left[g] \in Nat /\ Traffic[g] \in Nat
    BY <1>2
  <2>4. CASE g = h
    <3>1. k >= left[g]
      BY <1>2, <2>3, <2>4
    <3>2. CASE k = left[g]
      BY <2>1, <2>4, <3>2
    <3>3. CASE k # left[g]
      <4>1. k \in (left[g] + 1)..Traffic[g]
        BY <2>3, <3>1, <3>3
      <4> QED
        BY <2>2, <4>1
    <3> QED
      BY <3>2, <3>3
  <2>5. CASE g # h
    BY <1>2, <2>2, <2>3, <2>5
  <2> QED
    BY <2>4, <2>5
<1>11. History(U \cup {e}, q, gone, left2)
  BY <1>4, <1>7, <1>8, <1>9, <1>10 DEF History
<1> QED
  BY <1>6, <1>11 DEF e, left2

\* An answer follows those before it; what is left of the datagram comes next, if
\* anything is left and the ring takes it.
LEMMA HistoryAnswers ==
  ASSUME NEW U \in SUBSET Portions, NEW q \in Seq(Portions), NEW gone, NEW left,
         NEW e \in U, \A x \in U : x.of = e.of => x = e, NEW a \in Portions, a.of = e.of, a.from = e.from,
         History(U, q, gone, left), NEW U2, NEW gone2, gone \subseteq gone2,
         LET rest == [e EXCEPT !.from = @ + 1]
         IN  \/ e.from < e.to /\ U2 = (U \ {e}) \cup {rest}
             \/ U2 = U \ {e} /\ (e.from < e.to => e.of \in gone2)
  PROVE  History(U2, Append(q, a), gone2, left)
<1> DEFINE rest == [e EXCEPT !.from = @ + 1]
           r    == Append(q, a)
<1>1. /\ r \in Seq(Portions) /\ Len(r) = Len(q) + 1 /\ Len(q) \in Nat
      /\ r[Len(q) + 1] = a /\ \A i \in 1..Len(q) : r[i] = q[i]
  BY AppendProperties
<1>2. rest.of = e.of /\ rest.from = e.from + 1 /\ rest.to = e.to /\ e.from \in Nat /\ e.to \in Nat
  BY DEF Portions
<1>3. GoesOn(e, q, gone) /\ SentOf(e.of, left)
  BY DEF History
<1> HIDE DEF rest, r
<1>4. ASSUME NEW d, NEW p, NEW n \in 0..Len(q), Comes(q, n, d, p)
      PROVE  Comes(r, n, d, p) /\ Comes(r, n + 1, d, p)
  <2>1. PICK j \in 1..n : q[j].of = d /\ q[j].from = p
    BY <1>4 DEF Comes
  <2>2. j \in 1..(n + 1) /\ r[j] = q[j]
    BY <1>1, <2>1
  <2> QED
    BY <2>1, <2>2 DEF Comes
<1>5. InOrder(r, gone2)
  <2> SUFFICES ASSUME NEW i \in 1..Len(r)
               PROVE  /\ \A j \in 1..(i - 1) : r[j].of = r[i].of => r[j].from < r[i].from
                      /\ r[i].of \notin gone2 => \A p \in 1..(r[i].from - 1) : Comes(r, i - 1, r[i].of, p)
    BY DEF InOrder
  <2>1. CASE i \in 1..Len(q)
    <3>1. r[i] = q[i] /\ i - 1 \in 0..Len(q) /\ \A j \in 1..(i - 1) : r[j] = q[j]
      BY <1>1, <2>1
    <3>2. /\ \A j \in 1..(i - 1) : q[j].of = q[i].of => q[j].from < q[i].from
          /\ q[i].of \notin gone => \A p \in 1..(q[i].from - 1) : Comes(q, i - 1, q[i].of, p)
      BY <2>1 DEF History, InOrder
    <3> QED
      BY <1>4, <3>1, <3>2
  <2>2. CASE i = Len(q) + 1
    <3>1. r[i] = a /\ i - 1 = Len(q) /\ \A j \in 1..(i - 1) : r[j] = q[j]
      BY <1>1, <2>2
    <3> QED
      BY <1>1, <1>3, <1>4, <3>1 DEF GoesOn
  <2> QED
    BY <1>1, <2>1, <2>2
<1>6. ASSUME NEW x \in U, x # e PROVE GoesOn(x, r, gone2) /\ SentOf(x.of, left)
  <2>1. GoesOn(x, q, gone) /\ SentOf(x.of, left) /\ x.of # e.of
    BY <1>6 DEF History
  <2>2. \A i \in 1..Len(r) : r[i].of = x.of => r[i].from < x.from
    BY <1>1, <2>1 DEF GoesOn
  <2>3. x.of \notin gone2 => \A p \in 1..(x.from - 1) : Comes(r, Len(r), x.of, p)
    BY <1>1, <1>4, <2>1 DEF GoesOn
  <2> QED
    BY <2>1, <2>2, <2>3 DEF GoesOn
<1>7. ASSUME NEW p \in 1..e.from, e.of \notin gone2
      PROVE  Comes(r, Len(r), e.of, p)
  <2>1. CASE p = e.from
    <3>1. Len(r) \in 1..Len(r) /\ r[Len(r)] = a
      BY <1>1
    <3> QED
      BY <2>1, <3>1 DEF Comes
  <2>2. CASE p # e.from
    <3>1. p \in 1..(e.from - 1)
      BY <1>2, <2>2
    <3>2. Comes(q, Len(q), e.of, p)
      BY <1>3, <1>7, <3>1 DEF GoesOn
    <3> QED
      BY <1>1, <1>4, <3>2
  <2> QED
    BY <2>1, <2>2
<1>8. ASSUME e.from < e.to PROVE GoesOn(rest, r, gone2)
  <2>1. rest.from \in 1..rest.to /\ rest.to = rest.of[3]
    BY <1>2, <1>3, <1>8 DEF GoesOn
  <2>2. ASSUME NEW i \in 1..Len(r), r[i].of = rest.of PROVE r[i].from < rest.from
    <3>1. CASE i \in 1..Len(q)
      <4>1. r[i] = q[i] /\ q[i].from < e.from
        BY <1>1, <1>2, <1>3, <2>2, <3>1 DEF GoesOn
      <4>2. q[i].from \in Nat
        <5>1. q[i] \in Portions
          BY <3>1, ElementOfSeq
        <5> QED
          BY <5>1 DEF Portions
      <4> QED
        BY <1>2, <4>1, <4>2
    <3>2. CASE i = Len(q) + 1
      BY <1>1, <1>2, <3>2
    <3> QED
      BY <1>1, <3>1, <3>2
  <2>3. rest.from - 1 = e.from
    BY <1>2
  <2> QED
    BY <1>2, <1>7, <2>1, <2>2, <2>3 DEF GoesOn
<1>9. \A x \in U2 : GoesOn(x, r, gone2) /\ SentOf(x.of, left)
  <2>1. \A x \in U2 : (x \in U /\ x # e) \/ (x = rest /\ e.from < e.to)
    BY DEF rest
  <2> QED
    BY <1>2, <1>3, <1>6, <1>8, <2>1
<1>10. \A i \in 1..Len(r) : SentOf(r[i].of, left)
  BY <1>1, <1>3 DEF History
<1>11. ASSUME NEW d, Whole(d, U, q, gone) PROVE Whole(d, U2, r, gone2)
  <2>1. CASE d \in gone
    BY <2>1 DEF Whole
  <2>2. CASE \E x \in U : x.of = d /\ x # e
    <3>1. \A x \in U : x # e => x \in U2
      OBVIOUS
    <3> QED
      BY <2>2, <3>1 DEF Whole
  <2>3. CASE e.of = d
    <3>1. CASE e.from < e.to
      <4>1. rest \in U2 \/ e.of \in gone2
        BY <3>1 DEF rest
      <4> QED
        BY <1>2, <2>3, <4>1 DEF Whole
    <3>2. CASE ~(e.from < e.to)
      <4>1. e.from = d[3]
        BY <1>2, <1>3, <2>3, <3>2 DEF GoesOn
      <4> QED
        BY <1>7, <2>3, <4>1 DEF Whole
    <3> QED
      BY <3>1, <3>2
  <2>4. CASE \A p \in 1..d[3] : Comes(q, Len(q), d, p)
    <3>1. \A p \in 1..d[3] : Comes(r, Len(r), d, p)
      BY <1>1, <1>4, <2>4
    <3> QED
      BY <3>1 DEF Whole
  <2> QED
    BY <1>11, <2>1, <2>2, <2>3, <2>4 DEF Whole
<1>12. \A h \in Hosts : \A k \in (left[h] + 1)..Traffic[h] : \E n \in 1..Pieces :
         Whole(<<h, k, n>>, U2, r, gone2)
  BY <1>11 DEF History
<1> QED
  BY <1>5, <1>9, <1>10, <1>12 DEF History, r

\* An answer that finds no room leaves a gap in what is dropped with it.
LEMMA HistoryLoses ==
  ASSUME NEW U, NEW q \in Seq(Portions), NEW r \in Seq(Portions), NEW gone, NEW left,
         NEW k \in 1..Len(q), Len(r) = Len(q) - 1,
         \A i \in 1..Len(r) : r[i] = IF i < k THEN q[i] ELSE q[i + 1],
         History(U, q, gone, left)
  PROVE  History(U, r, gone \cup {q[k].of}, left)
<1> DEFINE gone2 == gone \cup {q[k].of}
<1>1. Len(q) \in Nat /\ Len(r) \in Nat /\ k \in Nat
  OBVIOUS
<1>2. ASSUME NEW n \in 0..Len(q), NEW m \in 0..Len(r), m = (IF n < k THEN n ELSE n - 1),
             NEW d, d \notin gone2, NEW p, Comes(q, n, d, p)
      PROVE  Comes(r, m, d, p)
  <2>1. PICK j \in 1..n : q[j].of = d /\ q[j].from = p
    BY <1>2 DEF Comes
  <2>2. j # k
    BY <1>2, <2>1
  <2>3. CASE j < k
    <3>1. j \in 1..m /\ r[j] = q[j]
      BY <1>1, <1>2, <2>1, <2>3, SMTT(30)
    <3> QED
      BY <2>1, <3>1 DEF Comes
  <2>4. CASE j > k
    <3>1. j - 1 \in 1..m /\ r[j - 1] = q[j]
      BY <1>1, <1>2, <2>1, <2>4, SMTT(30)
    <3> QED
      BY <2>1, <3>1 DEF Comes
  <2> QED
    BY <1>1, <2>1, <2>2, <2>3, <2>4
<1> DEFINE at(i) == IF i < k THEN i ELSE i + 1
<1>3. \A i \in 1..Len(r) : at(i) \in 1..Len(q) /\ r[i] = q[at(i)]
  BY <1>1
<1>4. \A i, j \in 1..Len(r) : j < i => at(j) < at(i)
  BY <1>1
<1>5. InOrder(r, gone2)
  <2> SUFFICES ASSUME NEW i \in 1..Len(r)
               PROVE  /\ \A j \in 1..(i - 1) : r[j].of = r[i].of => r[j].from < r[i].from
                      /\ r[i].of \notin gone2 => \A p \in 1..(r[i].from - 1) : Comes(r, i - 1, r[i].of, p)
    BY DEF InOrder
  <2>1. /\ \A j \in 1..(at(i) - 1) : q[j].of = q[at(i)].of => q[j].from < q[at(i)].from
        /\ q[at(i)].of \notin gone =>
             \A p \in 1..(q[at(i)].from - 1) : Comes(q, at(i) - 1, q[at(i)].of, p)
    BY <1>3 DEF History, InOrder
  <2>2. \A j \in 1..(i - 1) : j \in 1..Len(r) /\ at(j) \in 1..(at(i) - 1)
    BY <1>1, <1>3, <1>4
  <2>4. i - 1 \in 0..Len(r) /\ at(i) - 1 \in 0..Len(q)
    BY <1>1
  <2>5. i - 1 = (IF at(i) - 1 < k THEN at(i) - 1 ELSE at(i) - 1 - 1)
    BY <1>1
  <2>6. r[i].of \notin gone2 => \A p \in 1..(r[i].from - 1) : Comes(r, i - 1, r[i].of, p)
    BY <1>2, <1>3, <2>1, <2>4, <2>5
  <2> QED
    BY <1>3, <2>1, <2>2, <2>6
<1>6. Len(r) = (IF Len(q) < k THEN Len(q) ELSE Len(q) - 1) /\ Len(q) \in 0..Len(q) /\ Len(r) \in 0..Len(r)
  BY <1>1
<1>7. \A d, p : d \notin gone2 /\ Comes(q, Len(q), d, p) => Comes(r, Len(r), d, p)
  BY <1>2, <1>6
<1> HIDE DEF gone2, at
<1>8. \A i \in 1..Len(r) : \E j \in 1..Len(q) : r[i] = q[j]
  BY <1>3
<1>9. gone \subseteq gone2
  BY DEF gone2
<1>10. \A e \in U : GoesOn(e, r, gone2)
  <2> SUFFICES ASSUME NEW e \in U PROVE GoesOn(e, r, gone2)
    OBVIOUS
  <2>1. GoesOn(e, q, gone)
    BY DEF History
  <2> QED
    BY <1>7, <1>8, <1>9, <2>1 DEF GoesOn
<1>11. \A d : Whole(d, U, q, gone) => Whole(d, U, r, gone2)
  BY <1>7, <1>9 DEF Whole
<1>12. \A h \in Hosts : \A j \in (left[h] + 1)..Traffic[h] : \E n \in 1..Pieces :
         Whole(<<h, j, n>>, U, r, gone2)
  BY <1>11 DEF History
<1>13. \A i \in 1..Len(r) : SentOf(r[i].of, left)
  BY <1>8 DEF History
<1> QED
  BY <1>5, <1>10, <1>12, <1>13 DEF History, gone2

-----------------------------------------------------------------------------
(* The steps of the UDP half *)

\* The parts of Back are sequences of portions; removing the head of the last but one
\* or the last is removing one of Back.
LEMMA BackTyped ==
  ASSUME UdpTyped
  PROVE  /\ Answering \in Seq(Portions) /\ Back \in Seq(Portions)
         /\ wire \in Seq(Portions) /\ inRing \in Seq(Portions) /\ outRing \in Seq(Portions)
         /\ sndRing \in Seq(Portions) /\ rcvRing \in Seq(Portions) /\ heard \in Seq(Portions)
         /\ udpCore.burst \in Seq(Portions) /\ Under \subseteq Portions
<1>1. /\ wire \in Seq(Portions) /\ inRing \in Seq(Portions) /\ outRing \in Seq(Portions)
      /\ sndRing \in Seq(Portions) /\ rcvRing \in Seq(Portions) /\ heard \in Seq(Portions)
      /\ udpCore.burst \in Seq(Portions)
  BY DEF UdpTyped
<1>2. Answering \in Seq(Portions)
  <2>1. CASE udpSrv.pc = "answer"
    <3>1. udpSrv.of \in Portions /\ udpSrv.piece = udpSrv.of.from
      BY <2>1 DEF UdpTyped
    <3>2. [of |-> udpSrv.of.of, from |-> udpSrv.piece, to |-> udpSrv.piece] \in Portions
      BY <3>1 DEF Portions
    <3> QED
      BY <2>1, <3>2 DEF Answering
  <2>2. CASE udpSrv.pc # "answer"
    BY <2>2 DEF Answering
  <2> QED
    BY <2>1, <2>2
<1>3. Back \in Seq(Portions)
  BY <1>1, <1>2, ConcatProperties DEF Back
<1>4. \A r \in Seq(Portions) : ToSet(r) \subseteq Portions
  BY ElementOfSeq DEF ToSet
<1>5. InHand \subseteq Portions
  BY DEF InHand, UdpTyped
<1>6. Under \subseteq Portions
  BY <1>1, <1>4, <1>5 DEF Under
<1> QED
  BY <1>1, <1>2, <1>3, <1>6

\* At first nothing was sent.
LEMMA UdpInit_Inv == UdpInit => UdpInv
<1> SUFFICES ASSUME UdpInit PROVE UdpInv
  OBVIOUS
<1> USE UdpAssumption
<1>1. UdpTyped
  BY DEF UdpInit, UdpTyped, Stages
<1>2. ToSet(<<>>) = {} /\ Unique(<<>>)
  BY DEF ToSet, Unique
<1>3. InHand = {} /\ Under = {}
  BY <1>2 DEF UdpInit, InHand, Under
<1>4. Spread
  BY <1>2, <1>3 DEF UdpInit, Spread, Apart
<1>5. Back = <<>>
  BY DEF UdpInit, Back, Answering
<1>6. Len(Back) = 0
  BY <1>5
<1>7. History(Under, Back, dropped, tosend)
  <2>1. \A h \in Hosts : (tosend[h] + 1)..Traffic[h] = {}
    BY DEF UdpInit
  <2> HIDE DEF UdpInit
  <2> QED
    BY <1>3, <1>6, <2>1 DEF History, InOrder
<1>8. Introduced /\ UdpSleepOk
  BY <1>2 DEF UdpInit, Introduced, UdpSleepOk
<1> QED
  BY <1>1, <1>4, <1>7, <1>8 DEF UdpInv

\* A host sends a datagram nobody has seen.
LEMMA HostSendsKeeps == ASSUME UdpInv, NEW h \in Hosts, HostSends(h) PROVE UdpInv'
<1>1. PICK n \in 1..Pieces :
        wire' = Append(wire, [of |-> <<h, tosend[h], n>>, from |-> 1, to |-> n])
  BY DEF HostSends
<1> DEFINE e == [of |-> <<h, tosend[h], n>>, from |-> 1, to |-> n]
<1>2. /\ tosend[h] > 0 /\ tosend' = [tosend EXCEPT ![h] = @ - 1] /\ wire' = Append(wire, e)
      /\ UNCHANGED <<inRing, outRing, arp, sndRing, rcvRing, mutex, udpCore, udpSrv, dropped, heard>>
  BY <1>1 DEF HostSends
<1>3. /\ tosend \in [Hosts -> Nat] /\ tosend[h] <= Traffic[h] /\ e \in Portions
      /\ wire \in Seq(Portions) /\ Unique(wire) /\ Under \in SUBSET Portions /\ Back \in Seq(Portions)
  <2>1. tosend \in [Hosts -> Nat] /\ tosend[h] <= Traffic[h]
    BY DEF UdpInv, UdpTyped
  <2>2. e \in Portions
    <3>1. <<h, tosend[h], n>> \in Datagrams /\ 1 \in Nat /\ n \in Nat
      BY <2>1, UdpAssumption DEF Datagrams
    <3> QED
      BY <3>1 DEF Portions
  <2>3. wire \in Seq(Portions) /\ Under \in SUBSET Portions /\ Back \in Seq(Portions)
    BY BackTyped DEF UdpInv
  <2>4. Unique(wire)
    BY DEF UdpInv, Spread
  <2> QED
    BY <2>1, <2>2, <2>3, <2>4
<1>4. /\ \A x \in Under : x.of # e.of
      /\ History(Under \cup {e}, Back, dropped, tosend')
  BY <1>2, <1>3, HistorySends DEF UdpInv
<1> HIDE DEF e
<1>5. e \notin Under /\ e \notin ToSet(wire)
  BY <1>4 DEF Under
<1>6. /\ wire' \in Seq(Portions) /\ Unique(wire') /\ ToSet(wire') = ToSet(wire) \cup {e}
  BY <1>2, <1>3, <1>5, LongerList
<1>7. InHand' = InHand /\ Back' = Back
  BY <1>2 DEF InHand, Back, Answering
<1>8. Under' = Under \cup {e}
  BY <1>2, <1>6, <1>7 DEF Under
<1>9. UdpTyped'
  <2>1. tosend' \in [Hosts -> Nat] /\ \A g \in Hosts : tosend'[g] <= Traffic[g]
    <3>1. tosend[h] - 1 \in Nat /\ \A g \in Hosts : tosend[g] \in Nat /\ Traffic[g] \in Nat
      BY <1>2, <1>3, UdpAssumption
    <3>2. tosend' \in [Hosts -> Nat]
      BY <1>2, <1>3, <3>1
    <3>3. \A g \in Hosts : tosend'[g] = (IF g = h THEN tosend[h] - 1 ELSE tosend[g])
      BY <1>2, <1>3
    <3>4. \A g \in Hosts : tosend[g] <= Traffic[g]
      BY DEF UdpInv, UdpTyped
    <3> QED
      BY <3>1, <3>2, <3>3, <3>4
  <2> QED
    BY <1>2, <1>6, <2>1 DEF UdpInv, UdpTyped
<1>10. Spread'
  <2>1. Apart(ToSet(wire'), ToSet(inRing'), ToSet(udpCore'.burst), ToSet(rcvRing'), InHand')
    BY <1>2, <1>5, <1>6, <1>7 DEF UdpInv, Spread, Apart, Under
  <2>2. \A x, y \in Under' : x.of = y.of => x = y
    BY <1>4, <1>8 DEF UdpInv, Spread
  <2> QED
    BY <1>2, <1>6, <2>1, <2>2 DEF UdpInv, Spread
<1>11. History(Under, Back, dropped, tosend)'
  BY <1>2, <1>4, <1>7, <1>8
<1>12. Introduced' /\ UdpSleepOk'
  BY <1>2 DEF UdpInv, Introduced, UdpSleepOk
<1> QED
  BY <1>9, <1>10, <1>11, <1>12 DEF UdpInv

\* What Few takes of a ring: its head, as much as a burst holds.
LEMMA FewOf ==
  ASSUME NEW r \in Seq(Portions)
  PROVE  Few(r) \in 0..Len(r) /\ Few(r) <= BurstSize
BY UdpAssumption DEF Few

\* A sequence is what it was cut into.
LEMMA WholeAgain ==
  ASSUME NEW r \in Seq(Portions), NEW n \in 0..Len(r)
  PROVE  SubSeq(r, 1, n) \o SubSeq(r, n + 1, Len(r)) = r
<1>1. Len(r) \in Nat
  OBVIOUS
<1>2. SubSeq(r, 1, n) \o SubSeq(r, n + 1, Len(r)) = SubSeq(r, 1, Len(r))
  <2>1. 1 \in 1 .. Len(r) + 1 /\ n \in 1 - 1 .. Len(r) /\ Len(r) \in n .. Len(r)
    BY <1>1
  <2> QED
    BY <2>1, ConcatAdjacentSubSeq
<1> QED
  BY <1>2, SubSeqFull

\* The main loop moves frames in their order and drops what "in" has no room for.
LEMMA MainLoopKeeps == ASSUME UdpInv, MainLoop PROVE UdpInv'
<1> USE UdpAssumption
<1> DEFINE n     == Few(wire)
           rx    == SubSeq(wire, 1, n)
           later == SubSeq(wire, n + 1, Len(wire))
           room  == RingSize - Len(inRing)
           taken == IF n < room THEN n ELSE room
           kept  == SubSeq(rx, 1, taken)
           m     == Few(outRing)
           tx    == SubSeq(outRing, 1, m)
           queue == SubSeq(outRing, m + 1, Len(outRing))
<1>1. /\ wire' = later /\ inRing' = inRing \o kept
      /\ dropped' = dropped \cup {rx[i].of : i \in (taken + 1)..n}
      /\ outRing' = SubSeq(outRing, Len(tx) + 1, Len(outRing)) /\ heard' = heard \o tx
      /\ UNCHANGED <<tosend, arp, sndRing, rcvRing, mutex, udpCore, udpSrv>>
  BY DEF MainLoop
<1>2. /\ wire \in Seq(Portions) /\ inRing \in Seq(Portions) /\ outRing \in Seq(Portions) /\ heard \in Seq(Portions)
      /\ sndRing \in Seq(Portions) /\ Answering \in Seq(Portions)
      /\ Unique(wire) /\ Unique(inRing) /\ Len(inRing) \in Nat /\ Len(inRing) <= RingSize
      /\ Len(outRing) <= RingSize /\ Len(outRing) \in Nat
      /\ ToSet(wire) \cap ToSet(inRing) = {}
  BY BackTyped DEF UdpInv, UdpTyped, Spread, Apart
<1>3. n \in 0..Len(wire) /\ m \in 0..Len(outRing)
  BY <1>2, FewOf
<1> HIDE DEF n, m
<1>4. /\ rx \in Seq(Portions) /\ Len(rx) = n /\ later \in Seq(Portions) /\ Unique(rx) /\ Unique(later)
      /\ ToSet(later) = ToSet(wire) \ ToSet(rx) /\ ToSet(rx) \subseteq ToSet(wire)
  BY <1>2, <1>3, CutList
<1>5. /\ tx \in Seq(Portions) /\ Len(tx) = m /\ queue \in Seq(Portions) /\ Len(queue) = Len(outRing) - m
      /\ tx \o queue = outRing
  <2>1. tx \o queue = outRing
    BY <1>2, <1>3, WholeAgain
  <2>2. \A i \in 1..Len(outRing) : outRing[i] \in Portions
    BY <1>2, ElementOfSeq
  <2>3. tx \in Seq(Portions) /\ Len(tx) = m
    <3>1. m \in Nat /\ m <= Len(outRing) /\ \A i \in 1..m : outRing[i] \in Portions
      BY <1>2, <1>3, <2>2
    <3> QED
      BY <3>1, SubSeqProperties
  <2>4. queue \in Seq(Portions) /\ Len(queue) = (IF m + 1 <= Len(outRing) THEN Len(outRing) - (m + 1) + 1 ELSE 0)
    <3>1. m + 1 \in Int /\ Len(outRing) \in Int /\ \A i \in (m + 1)..Len(outRing) : outRing[i] \in Portions
      BY <1>2, <1>3, <2>2
    <3> QED
      BY <3>1, SubSeqProperties
  <2> HIDE DEF tx, queue
  <2>5. Len(queue) = Len(outRing) - m
    BY <1>2, <1>3, <2>4
  <2> QED
    BY <2>1, <2>3, <2>4, <2>5
<1>6. taken \in 0..Len(rx) /\ taken \in Nat /\ Len(inRing) + taken <= RingSize
  BY <1>2, <1>3, <1>4
<1> HIDE DEF taken, rx, tx
<1>7. /\ kept \in Seq(Portions) /\ Len(kept) = taken /\ Unique(kept)
      /\ ToSet(kept) = {rx[i] : i \in 1..taken} /\ ToSet(kept) \subseteq ToSet(rx)
  BY <1>4, <1>6, CutList
<1> HIDE DEF kept, later, queue
<1>8. \A e \in ToSet(rx) \ ToSet(kept) : e.of \in dropped'
  <2> SUFFICES ASSUME NEW e \in ToSet(rx) \ ToSet(kept) PROVE e.of \in dropped'
    OBVIOUS
  <2>1. PICK i \in 1..n : rx[i] = e
    BY <1>4 DEF ToSet
  <2>2. i \notin 1..taken
    BY <1>7, <2>1
  <2>3. i \in (taken + 1)..n
    BY <1>3, <1>6, <2>2
  <2> QED
    BY <1>1, <2>1, <2>3
<1>9. dropped \subseteq dropped' /\ dropped' \subseteq Datagrams
  <2>1. \A i \in (taken + 1)..n : rx[i].of \in Datagrams
    <3>1. \A i \in (taken + 1)..n : i \in 1..Len(rx)
      BY <1>3, <1>4, <1>6
    <3>2. \A i \in 1..Len(rx) : rx[i] \in Portions
      BY <1>4, ElementOfSeq
    <3> QED
      BY <3>1, <3>2 DEF Portions
  <2> QED
    BY <1>1, <2>1 DEF UdpInv, UdpTyped
<1>10. /\ inRing' \in Seq(Portions) /\ Len(inRing') = Len(inRing) + taken /\ Unique(inRing')
       /\ ToSet(inRing') = ToSet(inRing) \cup ToSet(kept)
  <2>1. ToSet(inRing) \cap ToSet(kept) = {}
    BY <1>2, <1>4, <1>7
  <2>2. inRing \in Seq(Portions) /\ kept \in Seq(Portions) /\ Unique(inRing) /\ Unique(kept)
    BY <1>2, <1>7
  <2>3. /\ inRing \o kept \in Seq(Portions) /\ Len(inRing \o kept) = Len(inRing) + Len(kept)
        /\ Unique(inRing \o kept) /\ ToSet(inRing \o kept) = ToSet(inRing) \cup ToSet(kept)
    BY ONLY <2>1, <2>2, JoinedList
  <2> QED
    BY <1>1, <1>7, <2>3
<1>11. InHand' = InHand /\ Answering' = Answering
  BY <1>1 DEF InHand, Answering
<1>12. Under' = Under \ (ToSet(rx) \ ToSet(kept))
  BY <1>1, <1>4, <1>7, <1>10, <1>11 DEF Under, UdpInv, Spread, Apart
<1>13. Back' = Back
  <2>1. outRing' = queue
    BY <1>1, <1>5 DEF queue
  <2>2. (heard \o tx) \o queue = heard \o (tx \o queue)
    <3>1. heard \in Seq(Portions) /\ tx \in Seq(Portions) /\ queue \in Seq(Portions)
      BY <1>2, <1>5
    <3> QED
      BY ONLY <3>1, ConcatAssociative
  <2> QED
    BY <1>1, <1>5, <1>11, <2>1, <2>2 DEF Back
<1>14. UdpTyped'
  <2>1. outRing' \in Seq(Portions) /\ Len(outRing') <= RingSize /\ heard' \in Seq(Portions)
    <3>1. outRing' = queue /\ heard' = heard \o tx
      BY <1>1, <1>5 DEF queue
    <3>2. heard \o tx \in Seq(Portions)
      BY <1>2, <1>5, ConcatProperties
    <3>3. Len(queue) <= RingSize
      BY <1>2, <1>3, <1>5
    <3> QED
      BY <1>5, <3>1, <3>2, <3>3
  <2>2. wire' \in Seq(Portions) /\ Len(inRing') <= RingSize
    BY <1>1, <1>4, <1>6, <1>10
  <2> QED
    BY <1>1, <1>9, <1>10, <2>1, <2>2 DEF UdpInv, UdpTyped
<1>15. Spread'
  <2>1. Apart(ToSet(wire'), ToSet(inRing'), ToSet(udpCore'.burst), ToSet(rcvRing'), InHand')
    BY <1>1, <1>4, <1>7, <1>10, <1>11 DEF UdpInv, Spread, Apart
  <2>2. \A x, y \in Under' : x.of = y.of => x = y
    BY <1>12 DEF UdpInv, Spread
  <2> QED
    BY <1>1, <1>4, <1>10, <2>1, <2>2 DEF UdpInv, Spread
<1>16. History(Under, Back, dropped, tosend)'
  <2>1. History(Under', Back, dropped', tosend)
    <3>1. Under' \in SUBSET Under /\ \A e \in Under \ Under' : e.of \in dropped'
      BY <1>8, <1>12
    <3> QED
      BY <1>9, <3>1, HistoryDrops DEF UdpInv
  <2> QED
    BY <1>1, <1>13, <2>1
<1>17. Introduced' /\ UdpSleepOk'
  BY <1>1 DEF UdpInv, Introduced, UdpSleepOk
<1> QED
  BY <1>14, <1>15, <1>16, <1>17 DEF UdpInv

\* The packet core takes a burst of "in".
LEMMA TakeBurstKeeps == ASSUME UdpInv, TakeBurst PROVE UdpInv'
<1> DEFINE n     == Few(inRing)
           front == SubSeq(inRing, 1, n)
           later == SubSeq(inRing, n + 1, Len(inRing))
<1>1. /\ udpCore.pc = "poll" /\ udpCore' = [pc |-> "burst", burst |-> front] /\ inRing' = later
      /\ UNCHANGED <<tosend, wire, outRing, arp, sndRing, rcvRing, mutex, udpSrv, dropped, heard>>
  BY DEF TakeBurst, UCore
<1>2. /\ inRing \in Seq(Portions) /\ Len(inRing) \in Nat /\ Len(inRing) <= RingSize
      /\ udpCore.burst = <<>> /\ Unique(inRing)
  BY <1>1, BackTyped DEF UdpInv, UdpTyped, Spread
<1>3. n \in 0..Len(inRing) /\ n <= BurstSize
  BY <1>2, FewOf
<1> HIDE DEF n
<1>4. /\ front \in Seq(Portions) /\ Len(front) = n /\ later \in Seq(Portions) /\ Len(later) = Len(inRing) - n
      /\ Unique(front) /\ Unique(later)
      /\ ToSet(later) = ToSet(inRing) \ ToSet(front) /\ ToSet(front) \subseteq ToSet(inRing)
  BY <1>2, <1>3, CutList
<1> HIDE DEF front, later
<1>5. /\ udpCore'.burst = front /\ udpCore'.pc = "burst"
      /\ udpCore' \in [pc : {"poll", "burst", "signal"}, burst : Seq(Portions)]
      /\ Len(later) <= RingSize /\ ToSet(udpCore.burst) = {}
  BY <1>1, <1>2, <1>3, <1>4, UdpAssumption DEF ToSet
<1>6. InHand' = InHand /\ Back' = Back
  BY <1>1 DEF InHand, Back, Answering
<1>7. Under' = Under
  BY <1>1, <1>4, <1>5, <1>6 DEF Under
<1>8. UdpTyped'
  BY <1>1, <1>3, <1>4, <1>5 DEF UdpInv, UdpTyped
<1>9. Spread'
  <2>1. Apart(ToSet(wire'), ToSet(inRing'), ToSet(udpCore'.burst), ToSet(rcvRing'), InHand')
    BY <1>1, <1>4, <1>5, <1>6 DEF UdpInv, Spread, Apart
  <2> QED
    BY <1>1, <1>4, <1>5, <1>7, <2>1 DEF UdpInv, Spread
<1>10. History(Under, Back, dropped, tosend)'
  BY <1>1, <1>6, <1>7 DEF UdpInv
<1>11. Introduced' /\ UdpSleepOk'
  BY <1>1 DEF UdpInv, Introduced, UdpSleepOk
<1> QED
  BY <1>8, <1>9, <1>10, <1>11 DEF UdpInv

\* What becomes of a ring one more entry is offered to.
LEMMA OfferedTo ==
  ASSUME NEW s \in Seq(Portions), Unique(s), Len(s) <= RingSize, NEW x \in Portions, x \notin ToSet(s)
  PROVE  /\ Enqueued(s, x) \in Seq(Portions) /\ Len(Enqueued(s, x)) <= RingSize
         /\ Unique(Enqueued(s, x)) /\ Overflow(s, x) \subseteq {x.of}
         /\ \/ ToSet(Enqueued(s, x)) = ToSet(s) \cup {x}
            \/ Enqueued(s, x) = s /\ Overflow(s, x) = {x.of}
<1>1. CASE Len(s) < RingSize
  <2>1. Enqueued(s, x) = Append(s, x) /\ Overflow(s, x) = {}
    BY <1>1 DEF Enqueued, Overflow
  <2>2. /\ Append(s, x) \in Seq(Portions) /\ Len(Append(s, x)) = Len(s) + 1
        /\ Unique(Append(s, x)) /\ ToSet(Append(s, x)) = ToSet(s) \cup {x}
    BY LongerList
  <2>3. Len(s) \in Nat /\ RingSize \in Nat
    BY UdpAssumption
  <2> QED
    BY <1>1, <2>1, <2>2, <2>3
<1>2. CASE ~(Len(s) < RingSize)
  BY <1>2 DEF Enqueued, Overflow
<1> QED
  BY <1>1, <1>2

\* The packet core learns a sender and queues its datagram, or drops it.
LEMMA UdpProcessKeeps == ASSUME UdpInv, udp_process PROVE UdpInv'
<1> DEFINE f == Head(udpCore.burst)
<1>1. /\ udpCore.pc = "burst" /\ udpCore.burst # <<>> /\ arp' = arp \cup {f.of[1]}
      /\ rcvRing' = Enqueued(rcvRing, f) /\ dropped' = dropped \cup Overflow(rcvRing, f)
      /\ udpCore' = [pc |-> "signal", burst |-> Tail(udpCore.burst)]
      /\ UNCHANGED <<tosend, wire, inRing, outRing, sndRing, mutex, udpSrv, heard>>
  BY DEF udp_process, UCore, Learnt
<1>2. /\ udpCore.burst \in Seq(Portions) /\ Unique(udpCore.burst) /\ Len(udpCore.burst) <= BurstSize
      /\ rcvRing \in Seq(Portions) /\ Unique(rcvRing) /\ Len(rcvRing) <= RingSize
      /\ ToSet(udpCore.burst) \cap ToSet(rcvRing) = {}
  BY BackTyped DEF UdpInv, UdpTyped, Spread, Apart
<1>3. /\ f \in Portions /\ f \in ToSet(udpCore.burst) /\ Tail(udpCore.burst) \in Seq(Portions)
      /\ Len(Tail(udpCore.burst)) = Len(udpCore.burst) - 1 /\ Unique(Tail(udpCore.burst))
      /\ ToSet(Tail(udpCore.burst)) = ToSet(udpCore.burst) \ {f}
  BY <1>1, <1>2, ShiftedList
<1> HIDE DEF f
<1>4. /\ rcvRing' \in Seq(Portions) /\ Len(rcvRing') <= RingSize /\ Unique(rcvRing')
      /\ dropped' \subseteq dropped \cup {f.of} /\ dropped \subseteq dropped'
      /\ ToSet(rcvRing') = ToSet(rcvRing) \cup {f} \/ (rcvRing' = rcvRing /\ f.of \in dropped')
  <2>1. f \notin ToSet(rcvRing)
    BY <1>2, <1>3
  <2>2. /\ Enqueued(rcvRing, f) \in Seq(Portions) /\ Len(Enqueued(rcvRing, f)) <= RingSize
        /\ Unique(Enqueued(rcvRing, f)) /\ Overflow(rcvRing, f) \subseteq {f.of}
        /\ \/ ToSet(Enqueued(rcvRing, f)) = ToSet(rcvRing) \cup {f}
           \/ Enqueued(rcvRing, f) = rcvRing /\ Overflow(rcvRing, f) = {f.of}
    BY ONLY <1>2, <1>3, <2>1, OfferedTo
  <2>3. rcvRing' = Enqueued(rcvRing, f) /\ dropped' = dropped \cup Overflow(rcvRing, f)
    BY <1>1
  <2>4. dropped' \subseteq dropped \cup {f.of} /\ dropped \subseteq dropped'
    BY ONLY <2>2, <2>3
  <2>5. ToSet(rcvRing') = ToSet(rcvRing) \cup {f} \/ (rcvRing' = rcvRing /\ f.of \in dropped')
    <3>1. ToSet(rcvRing') = ToSet(Enqueued(rcvRing, f))
      BY ONLY <2>3
    <3>2. Overflow(rcvRing, f) = {f.of} => f.of \in dropped'
      BY ONLY <2>3
    <3>3. Enqueued(rcvRing, f) = rcvRing => rcvRing' = rcvRing
      BY ONLY <2>3
    <3> QED
      BY ONLY <2>2, <3>1, <3>2, <3>3
  <2>6. rcvRing' \in Seq(Portions) /\ Len(rcvRing') <= RingSize /\ Unique(rcvRing')
    BY ONLY <2>2, <2>3
  <2> QED
    BY ONLY <2>4, <2>5, <2>6
<1>5. f.of \in Datagrams /\ f.of[1] \in Hosts
  BY <1>3 DEF Portions, Datagrams
<1>6. /\ udpCore'.burst = Tail(udpCore.burst) /\ udpCore'.pc = "signal"
      /\ udpCore' \in [pc : {"poll", "burst", "signal"}, burst : Seq(Portions)]
      /\ Len(udpCore'.burst) <= BurstSize
  <2>1. Len(udpCore.burst) \in Nat /\ BurstSize \in Nat
    BY <1>2, UdpAssumption
  <2> QED
    BY <1>1, <1>2, <1>3, <2>1
<1>7. InHand' = InHand /\ Back' = Back
  BY <1>1 DEF InHand, Back, Answering
<1>8. Under' \in SUBSET Under /\ \A e \in Under \ Under' : e.of \in dropped'
  BY <1>1, <1>3, <1>4, <1>6, <1>7 DEF Under
<1>9. UdpTyped'
  BY <1>1, <1>4, <1>5, <1>6 DEF UdpInv, UdpTyped
<1>10. Spread'
  <2>1. Apart(ToSet(wire'), ToSet(inRing'), ToSet(udpCore'.burst), ToSet(rcvRing'), InHand')
    <3>1. Apart(ToSet(wire), ToSet(inRing), ToSet(udpCore.burst), ToSet(rcvRing), InHand)
      BY DEF UdpInv, Spread
    <3>2. /\ ToSet(udpCore'.burst) = ToSet(udpCore.burst) \ {f} /\ ToSet(rcvRing') \subseteq ToSet(rcvRing) \cup {f}
      BY <1>3, <1>4, <1>6
    <3>3. wire' = wire /\ inRing' = inRing
      BY <1>1
    <3> QED
      BY ONLY <1>3, <1>7, <3>1, <3>2, <3>3 DEF Apart
  <2> QED
    BY <1>1, <1>3, <1>4, <1>6, <1>8, <2>1 DEF UdpInv, Spread
<1>11. History(Under, Back, dropped, tosend)'
  <2>1. History(Under', Back, dropped', tosend)
    BY <1>4, <1>8, HistoryDrops DEF UdpInv
  <2> QED
    BY <1>1, <1>7, <2>1
<1>12. Introduced' /\ UdpSleepOk'
  BY <1>1, <1>4, <1>6 DEF UdpInv, Introduced, UdpSleepOk
<1> QED
  BY <1>9, <1>10, <1>11, <1>12 DEF UdpInv

\* The signal wakes the server.
LEMMA UdpSignalKeeps == ASSUME UdpInv, udp_signal PROVE UdpInv'
<1>1. /\ udpCore.pc = "signal" /\ mutex = "free" /\ udpSrv' = Alarmed
      /\ udpCore' = [udpCore EXCEPT !.pc = "burst"]
      /\ UNCHANGED <<tosend, wire, inRing, outRing, arp, sndRing, rcvRing, mutex, dropped, heard>>
  BY DEF udp_signal, UCore
<1>2. /\ udpCore'.pc = "burst" /\ udpCore'.burst = udpCore.burst
      /\ udpCore' \in [pc : {"poll", "burst", "signal"}, burst : Seq(Portions)]
  BY <1>1 DEF UdpInv, UdpTyped
<1>3. /\ udpSrv' = [pc |-> udpSrv'.pc, piece |-> udpSrv'.piece, of |-> udpSrv'.of]
      /\ udpSrv'.of = udpSrv.of /\ udpSrv'.piece = udpSrv.piece
      /\ \/ udpSrv.pc = "asleep" /\ udpSrv'.pc = "lock"
         \/ udpSrv.pc # "asleep" /\ udpSrv'.pc = udpSrv.pc
  <2>1. udpSrv = [pc |-> udpSrv.pc, piece |-> udpSrv.piece, of |-> udpSrv.of]
    BY DEF UdpInv, UdpTyped
  <2>2. CASE udpSrv.pc = "asleep"
    <3>1. udpSrv' = [udpSrv EXCEPT !.pc = "lock"]
      BY <1>1, <2>2 DEF Alarmed
    <3>2. udpSrv' = [pc |-> "lock", piece |-> udpSrv.piece, of |-> udpSrv.of]
      BY ONLY <2>1, <3>1
    <3>3. udpSrv'.pc = "lock" /\ udpSrv'.piece = udpSrv.piece /\ udpSrv'.of = udpSrv.of
      BY ONLY <3>2
    <3>4. udpSrv' = [pc |-> udpSrv'.pc, piece |-> udpSrv'.piece, of |-> udpSrv'.of]
      BY ONLY <3>2
    <3> QED
      BY ONLY <2>2, <3>3, <3>4
  <2>3. CASE udpSrv.pc # "asleep"
    <3>1. udpSrv' = udpSrv
      BY <1>1, <2>3 DEF Alarmed
    <3> QED
      BY <2>1, <2>3, <3>1
  <2> QED
    BY <2>2, <2>3
<1>4. InHand' = InHand /\ Back' = Back
  BY <1>1, <1>3 DEF InHand, Back, Answering
<1>5. Under' = Under
  BY <1>1, <1>2, <1>4 DEF Under
<1>6. UdpTyped'
  BY <1>1, <1>2, <1>3 DEF UdpInv, UdpTyped, Stages
<1>7. Spread'
  BY <1>1, <1>2, <1>4, <1>5 DEF UdpInv, Spread
<1>8. History(Under, Back, dropped, tosend)'
  BY <1>1, <1>4, <1>5 DEF UdpInv
<1>9. Introduced' /\ UdpSleepOk'
  BY <1>1, <1>2, <1>3 DEF UdpInv, Introduced, UdpSleepOk
<1> QED
  BY <1>6, <1>7, <1>8, <1>9 DEF UdpInv

\* A step of the server or the packet core that moves no datagram.
LEMMA UdpStands ==
  ASSUME UdpInv,
         UNCHANGED <<tosend, wire, inRing, outRing, arp, sndRing, rcvRing, udpCore, dropped, heard>>,
         mutex' \in {"free", "srv"}, NEW pc \in {"look", "doze", "asleep"},
         udpSrv' = [udpSrv EXCEPT !.pc = pc], udpSrv.pc \notin {"got", "answer"}, UdpSleepOk'
  PROVE  UdpInv'
<1>1. /\ udpSrv' = [pc |-> udpSrv'.pc, piece |-> udpSrv'.piece, of |-> udpSrv'.of] /\ udpSrv'.pc = pc
  BY DEF UdpInv, UdpTyped
<1>2. InHand' = InHand /\ Back' = Back
  BY <1>1 DEF InHand, Back, Answering
<1>3. Under' = Under
  BY <1>2 DEF Under
<1>4. UdpTyped'
  BY <1>1 DEF UdpInv, UdpTyped, Stages
<1>5. Spread' /\ History(Under, Back, dropped, tosend)'
  BY <1>2, <1>3 DEF UdpInv, Spread
<1>6. Introduced'
  BY <1>1 DEF UdpInv, Introduced
<1> QED
  BY <1>4, <1>5, <1>6 DEF UdpInv

\* The server locks.
LEMMA UdpLockKeeps == ASSUME UdpInv, UdpLock PROVE UdpInv'
<1>1. /\ udpSrv.pc = "lock" /\ mutex = "free" /\ mutex' = "srv" /\ udpSrv' = [udpSrv EXCEPT !.pc = "look"]
      /\ UNCHANGED <<tosend, wire, inRing, outRing, arp, sndRing, rcvRing, udpCore, dropped, heard>>
  BY DEF UdpLock, USrv
<1>2. udpSrv'.pc = "look"
  BY <1>1 DEF UdpInv, UdpTyped
<1>3. UdpSleepOk'
  BY <1>1, <1>2 DEF UdpSleepOk
<1> QED
  BY <1>1, <1>3, UdpStands

\* The server goes to sleep and gives the mutex back.
LEMMA UdpWaitKeeps == ASSUME UdpInv, UdpWait PROVE UdpInv'
<1>1. /\ udpSrv.pc = "doze" /\ mutex' = "free" /\ udpSrv' = [udpSrv EXCEPT !.pc = "asleep"]
      /\ UNCHANGED <<tosend, wire, inRing, outRing, arp, sndRing, rcvRing, udpCore, dropped, heard>>
  BY DEF UdpWait, USrv
<1>2. udpSrv'.pc = "asleep"
  BY <1>1 DEF UdpInv, UdpTyped
<1>3. UdpSleepOk'
  BY <1>1, <1>2 DEF UdpInv, UdpSleepOk
<1> QED
  BY <1>1, <1>3, UdpStands

\* The server takes the datagram at the head of its ring, or finds none.
LEMMA DequeueKeeps == ASSUME UdpInv, Dequeue PROVE UdpInv'
<1>1. /\ udpSrv.pc = "look"
      /\ UNCHANGED <<tosend, wire, inRing, outRing, arp, sndRing, udpCore, dropped, heard>>
  BY DEF Dequeue, USrv
<1>2. mutex = "srv"
  BY <1>1 DEF UdpInv, UdpSleepOk
<1>3. CASE rcvRing = <<>>
  <2>1. udpSrv' = [udpSrv EXCEPT !.pc = "doze"] /\ rcvRing' = rcvRing /\ mutex' = mutex
    BY <1>3 DEF Dequeue
  <2>2. udpSrv'.pc = "doze"
    BY <2>1 DEF UdpInv, UdpTyped
  <2>3. UdpSleepOk'
    BY <1>2, <1>3, <2>1, <2>2 DEF UdpSleepOk
  <2> QED
    BY <1>1, <1>2, <2>1, <2>3, UdpStands
<1>4. CASE rcvRing # <<>>
  <2> DEFINE e == Head(rcvRing)
  <2>1. /\ udpSrv' = [pc |-> "got", piece |-> e.from, of |-> e]
        /\ rcvRing' = Tail(rcvRing) /\ mutex' = "free"
    BY <1>4 DEF Dequeue
  <2>2. rcvRing \in Seq(Portions) /\ Unique(rcvRing) /\ Len(rcvRing) <= RingSize
    BY BackTyped DEF UdpInv, UdpTyped, Spread
  <2>3. /\ e \in Portions /\ e \in ToSet(rcvRing) /\ Tail(rcvRing) \in Seq(Portions)
        /\ Len(Tail(rcvRing)) = Len(rcvRing) - 1 /\ Unique(Tail(rcvRing))
        /\ ToSet(Tail(rcvRing)) = ToSet(rcvRing) \ {e}
    BY <1>4, <2>2, ShiftedList
  <2> HIDE DEF e
  <2>4. Len(rcvRing') <= RingSize
    <3>1. Len(rcvRing) \in Nat /\ RingSize \in Nat
      BY <2>2, UdpAssumption
    <3> QED
      BY <2>1, <2>2, <2>3, <3>1
  <2>5. /\ udpSrv'.pc = "got" /\ udpSrv'.of = e /\ udpSrv'.piece = e.from
        /\ udpSrv' = [pc |-> udpSrv'.pc, piece |-> udpSrv'.piece, of |-> udpSrv'.of]
    BY <2>1
  <2>6. InHand = {} /\ InHand' = {e} /\ Back' = Back
    BY <1>1, <2>5 DEF InHand, Back, Answering
  <2>7. Under' = Under
    BY <1>1, <2>1, <2>3, <2>6 DEF Under
  <2>8. UdpTyped'
    BY <1>1, <2>1, <2>3, <2>4, <2>5 DEF UdpInv, UdpTyped, Stages
  <2>9. Spread'
    <3>1. Apart(ToSet(wire'), ToSet(inRing'), ToSet(udpCore'.burst), ToSet(rcvRing'), InHand')
      <4>1. Apart(ToSet(wire), ToSet(inRing), ToSet(udpCore.burst), ToSet(rcvRing), {})
        BY <2>6 DEF UdpInv, Spread
      <4>2. wire' = wire /\ inRing' = inRing /\ udpCore' = udpCore /\ ToSet(rcvRing') = ToSet(rcvRing) \ {e}
        BY <1>1, <2>1, <2>3
      <4> QED
        BY ONLY <2>3, <2>6, <4>1, <4>2 DEF Apart
    <3> QED
      BY <1>1, <2>1, <2>3, <2>7, <3>1 DEF UdpInv, Spread
  <2>10. History(Under, Back, dropped, tosend)'
    BY <1>1, <2>6, <2>7 DEF UdpInv
  <2>11. Introduced' /\ UdpSleepOk'
    BY <1>1, <2>1, <2>3, <2>5 DEF UdpInv, Introduced, UdpSleepOk
  <2> QED
    BY <2>8, <2>9, <2>10, <2>11 DEF UdpInv
<1> QED
  BY <1>3, <1>4

\* An answer goes from the head of its ring to the end of the next, and the order of
\* what has been answered stays.
LEMMA HandedOver ==
  ASSUME NEW S, NEW o \in Seq(S), NEW s \in Seq(S), s # <<>>
  PROVE  Append(o, Head(s)) \o Tail(s) = o \o s
<1> DEFINE x == Head(s)
           y == Tail(s)
<1>1. x \in S /\ y \in Seq(S)
  BY HeadTailProperties
<1>2. s = <<x>> \o y
  <2>1. 1 \in 1..Len(s) /\ Len(s) \in 1..Len(s)
    BY EmptySeq
  <2>2. SubSeq(s, 1, Len(s)) = <<s[1]>> \o SubSeq(s, 1 + 1, Len(s))
    BY ONLY <2>1, SubSeqRecursiveFirst
  <2>3. SubSeq(s, 1, Len(s)) = s /\ y = SubSeq(s, 2, Len(s)) /\ x = s[1]
    BY SubSeqFull, TailIsSubSeq
  <2> QED
    BY <2>2, <2>3
<1> HIDE DEF x, y
<1>3. Append(o, x) = o \o <<x>> /\ <<x>> \in Seq(S)
  BY <1>1, AppendIsConcat
<1>4. (o \o <<x>>) \o y = o \o (<<x>> \o y)
  BY ONLY <1>1, <1>3, ConcatAssociative
<1>5. Append(o, x) \o y = o \o s
  BY <1>2, <1>3, <1>4
<1> QED
  BY <1>5 DEF x, y

\* Three sequences one after the other.
LEMMA ThreeParts ==
  ASSUME NEW S, NEW a \in Seq(S), NEW b \in Seq(S), NEW c \in Seq(S), NEW q, q = (a \o b) \o c
  PROVE  /\ q \in Seq(S) /\ Len(q) = Len(a) + Len(b) + Len(c) /\ \A i \in 1..Len(a) : q[i] = a[i]
         /\ \A j \in 1..Len(b) : q[Len(a) + j] = b[j]
         /\ \A j \in 1..Len(c) : q[Len(a) + Len(b) + j] = c[j]
<1> DEFINE A == a \o b
<1>1. /\ A \in Seq(S) /\ Len(A) = Len(a) + Len(b)
      /\ \A i \in 1..(Len(a) + Len(b)) : A[i] = IF i <= Len(a) THEN a[i] ELSE b[i - Len(a)]
  BY ConcatProperties
<1>2. q = A \o c
  OBVIOUS
<1> HIDE DEF A
<1>3. /\ q \in Seq(S) /\ Len(q) = Len(A) + Len(c)
      /\ \A i \in 1..(Len(A) + Len(c)) : q[i] = IF i <= Len(A) THEN A[i] ELSE c[i - Len(A)]
  <2>1. A \in Seq(S) /\ c \in Seq(S)
    BY <1>1
  <2> QED
    BY ONLY <1>2, <2>1, ConcatProperties
<1>4. Len(a) \in Nat /\ Len(b) \in Nat /\ Len(c) \in Nat
  OBVIOUS
<1> DEFINE la == Len(a)
           lb == Len(b)
           lc == Len(c)
<1>5. /\ la \in Nat /\ lb \in Nat /\ lc \in Nat /\ Len(q) = la + lb + lc
      /\ \A i \in 1..(la + lb) : A[i] = IF i <= la THEN a[i] ELSE b[i - la]
      /\ \A i \in 1..(la + lb + lc) : q[i] = IF i <= la + lb THEN A[i] ELSE c[i - (la + lb)]
  <2>1. la \in Nat /\ lb \in Nat /\ lc \in Nat
    BY <1>4
  <2>2. Len(A) = la + lb
    BY <1>1
  <2>3. \A i \in 1..(la + lb) : A[i] = IF i <= la THEN a[i] ELSE b[i - la]
    BY <1>1
  <2>4. /\ Len(q) = Len(A) + lc
        /\ \A i \in 1..(Len(A) + lc) : q[i] = IF i <= Len(A) THEN A[i] ELSE c[i - Len(A)]
    BY <1>3
  <2> HIDE DEF la, lb, lc
  <2> QED
    BY ONLY <2>1, <2>2, <2>3, <2>4
<1> HIDE DEF la, lb, lc
<1>6. \A i \in 1..la : q[i] = a[i]
  <2>1. \A i \in 1..la : i \in 1..(la + lb) /\ i \in 1..(la + lb + lc) /\ i <= la + lb /\ i <= la
    BY ONLY <1>5
  <2> QED
    BY ONLY <1>5, <2>1
<1>7. ASSUME NEW j \in 1..lb PROVE q[la + j] = b[j]
  <2>1. /\ la + j \in 1..(la + lb) /\ la + j \in 1..(la + lb + lc) /\ la + j <= la + lb
        /\ ~(la + j <= la) /\ la + j - la = j
    BY ONLY <1>5
  <2>2. q[la + j] = A[la + j]
    BY ONLY <1>5, <2>1
  <2>3. A[la + j] = b[la + j - la]
    BY ONLY <1>5, <2>1
  <2> QED
    BY ONLY <2>1, <2>2, <2>3
<1>8. ASSUME NEW j \in 1..lc PROVE q[la + lb + j] = c[j]
  <2>1. /\ la + lb + j \in 1..(la + lb + lc) /\ ~(la + lb + j <= la + lb)
        /\ la + lb + j - (la + lb) = j
    BY ONLY <1>5
  <2>2. q[la + lb + j] = c[la + lb + j - (la + lb)]
    BY ONLY <1>5, <2>1
  <2> QED
    BY ONLY <2>1, <2>2
<1> QED
  BY <1>3, <1>5, <1>6, <1>7, <1>8 DEF la, lb, lc

\* A sequence without the head of its middle part.
LEMMA TakenOut ==
  ASSUME NEW a \in Seq(Portions), NEW s \in Seq(Portions), s # <<>>, NEW z \in Seq(Portions),
         NEW q, q = (a \o s) \o z
  PROVE  LET r == (a \o Tail(s)) \o z
             k == Len(a) + 1
         IN  /\ k \in 1..Len(q) /\ Len(r) = Len(q) - 1 /\ q[k] = Head(s)
             /\ \A i \in 1..Len(r) : r[i] = IF i < k THEN q[i] ELSE q[i + 1]
<1> DEFINE t == Tail(s)
           r == (a \o Tail(s)) \o z
           k == Len(a) + 1
<1>1. /\ t \in Seq(Portions) /\ Len(t) = Len(s) - 1 /\ Head(s) = s[1]
      /\ \A i \in 1..Len(t) : t[i] = s[i + 1]
  BY HeadTailProperties
<1>2. Len(a) \in Nat /\ Len(s) \in Nat \ {0} /\ Len(z) \in Nat
  BY EmptySeq
<1>3. r = (a \o t) \o z
  OBVIOUS
<1> HIDE DEF t, r
<1>4. /\ q \in Seq(Portions) /\ Len(q) = Len(a) + Len(s) + Len(z) /\ \A i \in 1..Len(a) : q[i] = a[i]
      /\ \A j \in 1..Len(s) : q[Len(a) + j] = s[j]
      /\ \A j \in 1..Len(z) : q[Len(a) + Len(s) + j] = z[j]
  BY ThreeParts
<1>5. /\ r \in Seq(Portions) /\ Len(r) = Len(a) + Len(t) + Len(z) /\ \A i \in 1..Len(a) : r[i] = a[i]
      /\ \A j \in 1..Len(t) : r[Len(a) + j] = t[j]
      /\ \A j \in 1..Len(z) : r[Len(a) + Len(t) + j] = z[j]
  <2>1. a \in Seq(Portions) /\ t \in Seq(Portions) /\ z \in Seq(Portions)
    BY <1>1
  <2> QED
    BY ONLY <1>3, <2>1, ThreeParts
<1> DEFINE la == Len(a)
           ls == Len(s)
           lz == Len(z)
<1>6. /\ la \in Nat /\ ls \in Nat \ {0} /\ lz \in Nat /\ Len(q) = la + ls + lz
      /\ Len(r) = la + (ls - 1) + lz /\ k = la + 1
  BY <1>1, <1>2, <1>4, <1>5
<1>7. /\ \A i \in 1..la : q[i] = a[i] /\ r[i] = a[i]
      /\ \A j \in 1..ls : q[la + j] = s[j]
      /\ \A j \in 1..(ls - 1) : r[la + j] = s[j + 1]
  BY <1>1, <1>4, <1>5
<1>8. /\ \A j \in 1..lz : q[la + ls + j] = z[j]
      /\ \A j \in 1..lz : r[la + (ls - 1) + j] = z[j]
  BY <1>1, <1>4, <1>5
<1> HIDE DEF la, ls, lz, k
<1>9. q[k] = Head(s) /\ k \in 1..Len(q) /\ Len(r) = Len(q) - 1
  <2>1. 1 \in 1..ls
    BY ONLY <1>6
  <2>2. q[la + 1] = s[1]
    BY ONLY <1>7, <2>1
  <2> QED
    BY <1>1, <1>6, <2>2
<1>10. ASSUME NEW i \in 1..(la + (ls - 1) + lz)
       PROVE  r[i] = IF i < la + 1 THEN q[i] ELSE q[i + 1]
  <2>1. CASE i \in 1..la
    <3>1. r[i] = q[i]
      BY ONLY <1>7, <2>1
    <3> QED
      BY ONLY <1>6, <2>1, <3>1
  <2>2. CASE \E j \in 1..(ls - 1) : i = la + j
    <3>1. PICK j \in 1..(ls - 1) : i = la + j
      BY ONLY <2>2
    <3>2. j + 1 \in 1..ls /\ i + 1 = la + (j + 1) /\ ~(i < la + 1)
      BY ONLY <1>6, <3>1
    <3>3. r[i] = s[j + 1] /\ q[i + 1] = s[j + 1]
      BY ONLY <1>7, <3>1, <3>2
    <3> QED
      BY ONLY <3>2, <3>3
  <2>3. CASE \E j \in 1..lz : i = la + (ls - 1) + j
    <3>1. PICK j \in 1..lz : i = la + (ls - 1) + j
      BY ONLY <2>3
    <3>2. i + 1 = la + ls + j /\ ~(i < la + 1)
      BY ONLY <1>6, <3>1
    <3>3. r[i] = z[j] /\ q[i + 1] = z[j]
      BY ONLY <1>8, <3>1, <3>2
    <3> QED
      BY ONLY <3>2, <3>3
  <2>4. \/ i \in 1..la
        \/ i - la \in 1..(ls - 1) /\ i = la + (i - la)
        \/ i - (la + (ls - 1)) \in 1..lz /\ i = la + (ls - 1) + (i - (la + (ls - 1)))
    BY ONLY <1>6
  <2> QED
    BY <2>1, <2>2, <2>3, <2>4
<1>11. \A i \in 1..Len(r) : r[i] = IF i < k THEN q[i] ELSE q[i + 1]
  <2>1. \A i \in 1..(la + (ls - 1) + lz) : r[i] = IF i < la + 1 THEN q[i] ELSE q[i + 1]
    BY ONLY <1>10
  <2>2. Len(r) = la + (ls - 1) + lz /\ k = la + 1
    BY ONLY <1>6
  <2> QED
    BY ONLY <2>1, <2>2
<1> QED
  BY <1>9, <1>11 DEF r, k

\* The parts of what has been answered.
LEMMA BackParts ==
  ASSUME UdpTyped
  PROVE  /\ heard \o outRing \in Seq(Portions) /\ (heard \o outRing) \o sndRing \in Seq(Portions)
         /\ Back = ((heard \o outRing) \o sndRing) \o Answering
BY BackTyped, ConcatProperties DEF Back

\* An answer leaves its ring for "out"; when that is full it is lost.
LEMMA UdpOutKeeps == ASSUME UdpInv, udp_out PROVE UdpInv'
<1>1. /\ udpCore.pc = "burst" /\ udpCore.burst = <<>> /\ udpCore' = [udpCore EXCEPT !.pc = "poll"]
      /\ UNCHANGED <<tosend, wire, inRing, arp, rcvRing, mutex, udpSrv, heard>>
  BY DEF udp_out, UCore
<1>2. /\ udpCore'.pc = "poll" /\ udpCore'.burst = udpCore.burst /\ udpCore'.burst = <<>>
      /\ udpCore' \in [pc : {"poll", "burst", "signal"}, burst : Seq(Portions)]
  BY <1>1 DEF UdpInv, UdpTyped
<1>3. InHand' = InHand /\ Answering' = Answering
  BY <1>1 DEF InHand, Answering
<1>4. Under' = Under
  BY <1>1, <1>2, <1>3 DEF Under
<1>5. Spread'
  BY <1>1, <1>2, <1>3, <1>4 DEF UdpInv, Spread
<1>6. UdpSleepOk'
  BY <1>1 DEF UdpInv, UdpSleepOk
<1>7. CASE sndRing = <<>>
  <2>1. UNCHANGED <<sndRing, outRing, dropped>>
    BY <1>7 DEF udp_out
  <2>2. UdpTyped'
    BY <1>1, <1>2, <2>1 DEF UdpInv, UdpTyped
  <2>3. Back' = Back
    BY <1>1, <1>3, <2>1 DEF Back
  <2>4. History(Under, Back, dropped, tosend)'
    BY <1>1, <1>4, <2>1, <2>3 DEF UdpInv
  <2>5. Introduced'
    BY <1>1, <2>1 DEF UdpInv, Introduced
  <2> QED
    BY <1>5, <1>6, <2>2, <2>4, <2>5 DEF UdpInv
<1>8. CASE sndRing # <<>>
  <2> DEFINE ol == Head(sndRing)
  <2>1. /\ sndRing \in Seq(Portions) /\ outRing \in Seq(Portions) /\ heard \in Seq(Portions)
        /\ Answering \in Seq(Portions) /\ Back \in Seq(Portions)
        /\ Len(sndRing) <= RingSize /\ Len(outRing) <= RingSize
    BY BackTyped DEF UdpInv, UdpTyped
  <2>2. /\ ol \in Portions /\ ol \in ToSet(sndRing) /\ Tail(sndRing) \in Seq(Portions)
        /\ Len(Tail(sndRing)) = Len(sndRing) - 1 /\ ToSet(Tail(sndRing)) \subseteq ToSet(sndRing)
    <3>1. /\ ol \in Portions /\ Tail(sndRing) \in Seq(Portions) /\ Len(Tail(sndRing)) = Len(sndRing) - 1
          /\ \A i \in 1..Len(Tail(sndRing)) : Tail(sndRing)[i] = sndRing[i + 1]
      BY <1>8, <2>1, HeadTailProperties
    <3>2. ol = sndRing[1] /\ 1 \in 1..Len(sndRing) /\ Len(sndRing) \in Nat
      BY <1>8, <2>1, EmptySeq
    <3>3. \A i \in 1..Len(Tail(sndRing)) : i + 1 \in 1..Len(sndRing)
      BY <3>1, <3>2
    <3>4. DOMAIN sndRing = 1..Len(sndRing) /\ DOMAIN Tail(sndRing) = 1..Len(Tail(sndRing))
      BY <2>1, <3>1, LenProperties
    <3> HIDE DEF ol
    <3>5. ol \in ToSet(sndRing)
      BY <3>2, <3>4 DEF ToSet
    <3>6. ToSet(Tail(sndRing)) \subseteq ToSet(sndRing)
      BY <3>1, <3>3, <3>4 DEF ToSet
    <3> QED
      BY <3>1, <3>5, <3>6
  <2>3. ol.of[1] \in arp
    BY <2>2 DEF UdpInv, Introduced
  <2>4. /\ sndRing' = Tail(sndRing) /\ outRing' = Enqueued(outRing, ol)
        /\ dropped' = dropped \cup Overflow(outRing, ol)
    BY <1>8, <2>3 DEF udp_out
  <2>5. ol.of \in Datagrams
    BY <2>2 DEF Portions
  <2> HIDE DEF ol
  <2>6. Len(sndRing') <= RingSize
    <3>1. Len(sndRing) \in Nat /\ RingSize \in Nat
      BY <2>1, UdpAssumption
    <3> QED
      BY <2>1, <2>2, <2>4, <3>1
  <2>7. Introduced'
    BY <1>1, <2>2, <2>4 DEF UdpInv, Introduced
  <2>8. Back = ((heard \o outRing) \o sndRing) \o Answering
    BY DEF Back
  <2>9. Back' = ((heard \o outRing') \o Tail(sndRing)) \o Answering
    BY <1>1, <1>3, <2>4 DEF Back
  <2>10. CASE Len(outRing) < RingSize
    <3>1. outRing' = Append(outRing, ol) /\ dropped' = dropped
      BY <2>4, <2>10 DEF Enqueued, Overflow
    <3>2. outRing' \in Seq(Portions) /\ Len(outRing') <= RingSize
      <4>1. Append(outRing, ol) \in Seq(Portions) /\ Len(Append(outRing, ol)) = Len(outRing) + 1
        BY <2>1, <2>2, AppendProperties
      <4>2. Len(outRing) \in Nat /\ RingSize \in Nat
        BY <2>1, UdpAssumption
      <4> QED
        BY <2>10, <3>1, <4>1, <4>2
    <3>3. Back' = Back
      <4> DEFINE more == Append(outRing, ol)
                 rest == Tail(sndRing)
      <4>1. more \o rest = outRing \o sndRing
        <5>1. Append(outRing, Head(sndRing)) \o Tail(sndRing) = outRing \o sndRing
          <6>1. outRing \in Seq(Portions) /\ sndRing \in Seq(Portions) /\ sndRing # <<>>
            BY <1>8, <2>1
          <6> QED
            BY ONLY <6>1, HandedOver
        <5> QED
          BY <5>1 DEF ol
      <4>2. more \in Seq(Portions) /\ rest \in Seq(Portions)
        BY <2>1, <2>2, AppendProperties
      <4>3. Back' = ((heard \o more) \o rest) \o Answering
        BY <2>9, <3>1
      <4> HIDE DEF more, rest
      <4>4. (heard \o more) \o rest = heard \o (more \o rest)
        <5>1. heard \in Seq(Portions) /\ more \in Seq(Portions) /\ rest \in Seq(Portions)
          BY <2>1, <4>2
        <5> QED
          BY ONLY <5>1, ConcatAssociative
      <4>5. (heard \o outRing) \o sndRing = heard \o (outRing \o sndRing)
        <5>1. heard \in Seq(Portions) /\ outRing \in Seq(Portions) /\ sndRing \in Seq(Portions)
          BY <2>1
        <5> QED
          BY ONLY <5>1, ConcatAssociative
      <4> QED
        BY ONLY <2>8, <4>1, <4>3, <4>4, <4>5
    <3>4. UdpTyped'
      BY <1>1, <1>2, <2>2, <2>4, <2>6, <3>1, <3>2 DEF UdpInv, UdpTyped
    <3>5. History(Under, Back, dropped, tosend)'
      BY <1>1, <1>4, <3>1, <3>3 DEF UdpInv
    <3> QED
      BY <1>5, <1>6, <2>7, <3>4, <3>5 DEF UdpInv
  <2>11. CASE ~(Len(outRing) < RingSize)
    <3>1. outRing' = outRing /\ dropped' = dropped \cup {ol.of}
      BY <2>4, <2>11 DEF Enqueued, Overflow
    <3>2. UdpTyped'
      BY <1>1, <1>2, <2>2, <2>4, <2>5, <2>6, <3>1 DEF UdpInv, UdpTyped
    <3> DEFINE a == heard \o outRing
               k == Len(a) + 1
    <3>3. a \in Seq(Portions)
      BY <2>1, ConcatProperties
    <3> HIDE DEF a
    <3>4. Back = (a \o sndRing) \o Answering /\ Back' = (a \o Tail(sndRing)) \o Answering
      BY <2>8, <2>9, <3>1 DEF a
    <3> HIDE DEF k
    <3>5. k = Len(a) + 1
      BY DEF k
    <3>6. /\ Back' \in Seq(Portions) /\ k \in 1..Len(Back) /\ Len(Back') = Len(Back) - 1 /\ Back[k] = ol
          /\ \A i \in 1..Len(Back') : Back'[i] = IF i < k THEN Back[i] ELSE Back[i + 1]
      <4> DEFINE q == Back
                 r == (a \o Tail(sndRing)) \o Answering
      <4>1. /\ a \in Seq(Portions) /\ sndRing \in Seq(Portions) /\ sndRing # <<>>
            /\ Answering \in Seq(Portions) /\ q = (a \o sndRing) \o Answering
        BY <1>8, <2>1, <3>3, <3>4
      <4> HIDE DEF q
      <4>2. /\ Len(a) + 1 \in 1..Len(q) /\ Len(r) = Len(q) - 1 /\ q[Len(a) + 1] = Head(sndRing)
            /\ \A i \in 1..Len(r) : r[i] = IF i < Len(a) + 1 THEN q[i] ELSE q[i + 1]
        BY ONLY <4>1, TakenOut, SMTT(30)
      <4>3. r \in Seq(Portions)
        <5>1. a \o Tail(sndRing) \in Seq(Portions)
          BY <2>2, <3>3, ConcatProperties
        <5> QED
          BY <2>1, <5>1, ConcatProperties
      <4>4. Back' = r
        BY <3>4
      <4> HIDE DEF r
      <4> QED
        BY ONLY <3>5, <4>2, <4>3, <4>4 DEF q, ol
    <3>7. History(Under, Back', dropped \cup {Back[k].of}, tosend)
      <4>1. History(Under, Back, dropped, tosend)
        BY DEF UdpInv
      <4> QED
        BY ONLY <2>1, <3>6, <4>1, HistoryLoses
    <3>8. History(Under, Back, dropped, tosend)'
      BY <1>1, <1>4, <3>1, <3>6, <3>7
    <3> QED
      BY <1>5, <1>6, <2>7, <3>2, <3>8 DEF UdpInv
  <2> QED
    BY <2>10, <2>11
<1> QED
  BY <1>7, <1>8

\* An answer is one piece of the datagram.
LEMMA OnePiece ==
  ASSUME NEW x \in Portions, NEW p
  PROVE  [x EXCEPT !.from = p, !.to = p] = [of |-> x.of, from |-> p, to |-> p]
<1>1. PICK d \in Datagrams, f \in Nat, t \in Nat : x = [of |-> d, from |-> f, to |-> t]
  BY DEF Portions
<1>2. [x EXCEPT !.from = p] = [of |-> d, from |-> p, to |-> t]
  BY ONLY <1>1
<1>3. [x EXCEPT !.from = p, !.to = p] = [[x EXCEPT !.from = p] EXCEPT !.to = p]
  OBVIOUS
<1>4. [[of |-> d, from |-> p, to |-> t] EXCEPT !.to = p] = [of |-> d, from |-> p, to |-> p]
  OBVIOUS
<1>5. x.of = d
  BY <1>1
<1> QED
  BY ONLY <1>2, <1>3, <1>4, <1>5

\* The server's answer stands behind those before it.
LEMMA AnswerKept == ASSUME UdpInv, nsendto PROVE UdpInv'
<1> DEFINE e == udpSrv.of
           a == [of |-> e.of, from |-> udpSrv.piece, to |-> udpSrv.piece]
           A == (heard \o outRing) \o sndRing
<1>1. /\ udpSrv.pc = "answer" /\ udpSrv' = [pc |-> "lock", piece |-> 0, of |-> 0]
      /\ UNCHANGED <<tosend, wire, inRing, outRing, arp, rcvRing, mutex, udpCore, heard>>
  BY DEF nsendto, USrv
<1>2. e \in Portions /\ udpSrv.piece = e.from /\ a \in Portions
  <2>1. e \in Portions /\ udpSrv.piece = e.from
    BY <1>1 DEF UdpInv, UdpTyped
  <2> QED
    BY <2>1 DEF Portions
<1>3. [e EXCEPT !.from = udpSrv.piece, !.to = udpSrv.piece] = a
  BY ONLY <1>2, OnePiece
<1>4. sndRing' = Enqueued(sndRing, a) /\ dropped' = dropped \cup Overflow(sndRing, a)
  BY <1>3 DEF nsendto
<1>5. a.of = e.of /\ e.of[1] \in arp /\ e.of \in Datagrams
  BY <1>1, <1>2 DEF UdpInv, Introduced, Portions
<1>6. Answering = <<a>>
  BY <1>1 DEF Answering
<1> HIDE DEF e, a
<1>7. /\ udpSrv'.pc = "lock" /\ Answering' = <<>> /\ InHand' = InHand
      /\ udpSrv' = [pc |-> udpSrv'.pc, piece |-> udpSrv'.piece, of |-> udpSrv'.of]
  BY <1>1 DEF Answering, InHand
<1>8. Under' = Under
  BY <1>1, <1>7 DEF Under
<1>9. Spread'
  BY <1>1, <1>7, <1>8 DEF UdpInv, Spread
<1>10. UdpSleepOk'
  BY <1>1, <1>7 DEF UdpInv, UdpSleepOk
<1>11. /\ sndRing \in Seq(Portions) /\ Len(sndRing) <= RingSize /\ A \in Seq(Portions)
       /\ heard \o outRing \in Seq(Portions) /\ Back \in Seq(Portions)
  BY BackTyped, BackParts DEF UdpInv, UdpTyped
<1>12. Back = A \o <<a>>
  BY <1>6 DEF Back
<1>13. Back = Append(A, a)
  BY <1>2, <1>11, <1>12, AppendIsConcat
<1>14. CASE Len(sndRing) < RingSize
  <2>1. sndRing' = Append(sndRing, a) /\ dropped' = dropped
    BY <1>4, <1>14 DEF Enqueued, Overflow
  <2>2. /\ sndRing' \in Seq(Portions) /\ Len(sndRing') <= RingSize
        /\ \A x \in ToSet(sndRing') : x \in ToSet(sndRing) \/ x = a
    <3>1. /\ Append(sndRing, a) \in Seq(Portions) /\ Len(Append(sndRing, a)) = Len(sndRing) + 1
          /\ \A i \in 1..Len(sndRing) : Append(sndRing, a)[i] = sndRing[i]
          /\ Append(sndRing, a)[Len(sndRing) + 1] = a
      BY <1>2, <1>11, AppendProperties
    <3>2. Len(sndRing) \in Nat /\ RingSize \in Nat
      BY <1>11, UdpAssumption
    <3>3. DOMAIN sndRing' = 1..(Len(sndRing) + 1) /\ DOMAIN sndRing = 1..Len(sndRing)
      BY <1>11, <2>1, <3>1, LenProperties
    <3>4. \A i \in DOMAIN sndRing' : sndRing'[i] = a \/ (i \in DOMAIN sndRing /\ sndRing'[i] = sndRing[i])
      BY <2>1, <3>1, <3>2, <3>3
    <3> QED
      BY <1>14, <2>1, <3>1, <3>2, <3>4 DEF ToSet
  <2>3. Back' = Back
    <3>1. Append(sndRing, a) = sndRing \o <<a>> /\ <<a>> \in Seq(Portions)
      BY <1>2, <1>11, AppendIsConcat
    <3>2. (heard \o outRing) \o (sndRing \o <<a>>) = A \o <<a>>
      <4>1. heard \o outRing \in Seq(Portions) /\ sndRing \in Seq(Portions) /\ <<a>> \in Seq(Portions)
        BY <1>11, <3>1
      <4> QED
        BY ONLY <4>1, ConcatAssociative
    <3>3. Back' = ((heard \o outRing) \o sndRing') \o <<>>
      BY <1>1, <1>7 DEF Back
    <3>4. Back' = Back \o <<>>
      BY <1>12, <2>1, <3>1, <3>2, <3>3
    <3> QED
      BY <1>11, <3>4, ConcatEmptySeq
  <2>4. UdpTyped'
    BY <1>1, <1>7, <2>1, <2>2 DEF UdpInv, UdpTyped, Stages
  <2>5. Introduced'
    BY <1>1, <1>5, <1>7, <2>2 DEF UdpInv, Introduced
  <2>6. History(Under, Back, dropped, tosend)'
    BY <1>1, <1>8, <2>1, <2>3 DEF UdpInv
  <2> QED
    BY <1>9, <1>10, <2>4, <2>5, <2>6 DEF UdpInv
<1>15. CASE ~(Len(sndRing) < RingSize)
  <2>1. sndRing' = sndRing /\ dropped' = dropped \cup {a.of}
    BY <1>4, <1>15 DEF Enqueued, Overflow
  <2>2. UdpTyped'
    BY <1>1, <1>5, <1>7, <2>1 DEF UdpInv, UdpTyped, Stages
  <2>3. Introduced'
    BY <1>1, <1>7, <2>1 DEF UdpInv, Introduced
  <2>4. Back' = A
    <3>1. Back' = A \o <<>>
      BY <1>1, <1>7, <2>1 DEF Back
    <3> QED
      BY <1>11, <3>1, ConcatEmptySeq
  <2> DEFINE k == Len(Back)
  <2> HIDE DEF A
  <2>5. /\ k = Len(A) + 1 /\ Back[k] = a /\ \A i \in 1..Len(A) : Back[i] = A[i]
    BY <1>2, <1>11, <1>13, AppendProperties
  <2>6. k \in 1..Len(Back) /\ Len(A) = Len(Back) - 1 /\ Len(A) \in Nat
    BY <1>11, <2>5
  <2>7. \A i \in 1..Len(A) : A[i] = IF i < k THEN Back[i] ELSE Back[i + 1]
    BY <2>5, <2>6
  <2> HIDE DEF k
  <2>8. History(Under, A, dropped \cup {Back[k].of}, tosend)
    <3>1. History(Under, Back, dropped, tosend)
      BY DEF UdpInv
    <3> QED
      BY ONLY <1>11, <2>6, <2>7, <3>1, HistoryLoses
  <2>9. History(Under, Back, dropped, tosend)'
    BY <1>1, <1>8, <2>1, <2>4, <2>5, <2>8
  <2> QED
    BY <1>9, <1>10, <2>2, <2>3, <2>9 DEF UdpInv
<1> QED
  BY <1>14, <1>15

\* The server takes a piece; what does not fit goes to the end of the ring.
LEMMA RestKeeps == ASSUME UdpInv, nrecvfrom_rest PROVE UdpInv'
<1> DEFINE e    == udpSrv.of
           rest == [e EXCEPT !.from = @ + 1]
           a    == [of |-> e.of, from |-> udpSrv.piece, to |-> udpSrv.piece]
<1>1. /\ udpSrv.pc = "got" /\ udpSrv' = [udpSrv EXCEPT !.pc = "answer"]
      /\ UNCHANGED <<tosend, wire, inRing, outRing, arp, sndRing, mutex, udpCore, heard>>
      /\ IF rest.from <= rest.to
         THEN rcvRing' = Enqueued(rcvRing, rest) /\ dropped' = dropped \cup Overflow(rcvRing, rest)
         ELSE UNCHANGED <<rcvRing, dropped>>
  BY DEF nrecvfrom_rest, Remainder, USrv
<1>2. e \in Portions /\ udpSrv.piece = e.from /\ a \in Portions
  <2>1. e \in Portions /\ udpSrv.piece = e.from
    BY <1>1 DEF UdpInv, UdpTyped
  <2> QED
    BY <2>1 DEF Portions
<1>3. /\ rest \in Portions /\ rest.of = e.of /\ rest.from = e.from + 1 /\ rest.to = e.to
      /\ e.from \in Nat /\ e.to \in Nat /\ a.of = e.of /\ a.from = e.from
  BY <1>2 DEF Portions
<1>4. e.of[1] \in arp /\ e.of \in Datagrams
  BY <1>1, <1>2 DEF UdpInv, Introduced, Portions
<1>5. /\ udpSrv'.pc = "answer" /\ udpSrv'.piece = udpSrv.piece /\ udpSrv'.of = udpSrv.of
      /\ udpSrv' = [pc |-> udpSrv'.pc, piece |-> udpSrv'.piece, of |-> udpSrv'.of]
  BY <1>1 DEF UdpInv, UdpTyped
<1>6. Answering = <<>> /\ Answering' = <<a>> /\ InHand = {e} /\ InHand' = {}
  BY <1>1, <1>5 DEF Answering, InHand
<1>7. e \in Under /\ \A x \in Under : x.of = e.of => x = e
  BY <1>6 DEF Under, UdpInv, Spread
<1>8. udpSrv.of = e
  OBVIOUS
<1> HIDE DEF e, a
<1>9. rest # e /\ rest \notin Under
  <2>1. rest.from # e.from
    BY ONLY <1>3
  <2>2. rest # e
    BY ONLY <2>1
  <2> QED
    BY ONLY <1>3, <1>7, <2>2
<1>10. /\ rcvRing \in Seq(Portions) /\ Unique(rcvRing) /\ Len(rcvRing) <= RingSize
       /\ Back \in Seq(Portions) /\ Under \in SUBSET Portions
       /\ (heard \o outRing) \o sndRing \in Seq(Portions) /\ rest \notin ToSet(rcvRing)
  BY <1>9, BackTyped, BackParts DEF UdpInv, UdpTyped, Spread, Under
<1>11. Back' = Append(Back, a)
  <2> DEFINE A == (heard \o outRing) \o sndRing
  <2>1. Back = A \o <<>> /\ Back' = A \o <<a>>
    BY <1>1, <1>6 DEF Back
  <2>2. A \in Seq(Portions)
    BY <1>10
  <2> HIDE DEF A
  <2>3. Back = A
    BY <2>1, <2>2, ConcatEmptySeq
  <2>4. Append(A, a) = A \o <<a>>
    BY <1>2, <2>2, AppendIsConcat
  <2> QED
    BY <2>1, <2>3, <2>4
<1> HIDE DEF rest
<1>12. Apart(ToSet(wire), ToSet(inRing), ToSet(udpCore.burst), ToSet(rcvRing), {e})
  BY <1>6 DEF UdpInv, Spread
<1>13. rest \notin ToSet(wire) \cup ToSet(inRing) \cup ToSet(udpCore.burst)
  BY <1>9 DEF Under
<1>14. \/ /\ e.from < e.to /\ ToSet(rcvRing') = ToSet(rcvRing) \cup {rest} /\ dropped' = dropped
          /\ rcvRing' \in Seq(Portions) /\ Unique(rcvRing') /\ Len(rcvRing') <= RingSize
       \/ /\ e.from < e.to => e.of \in dropped'
          /\ rcvRing' = rcvRing /\ dropped \subseteq dropped' /\ dropped' \subseteq dropped \cup {e.of}
  <2>1. CASE ~(e.from < e.to)
    BY <1>1, <1>3, <2>1
  <2>2. CASE e.from < e.to
    <3>1. rcvRing' = Enqueued(rcvRing, rest) /\ dropped' = dropped \cup Overflow(rcvRing, rest)
      BY <1>1, <1>3, <2>2
    <3>2. CASE Len(rcvRing) < RingSize
      <4>1. rcvRing' = Append(rcvRing, rest) /\ dropped' = dropped
        BY <3>1, <3>2 DEF Enqueued, Overflow
      <4>2. /\ Append(rcvRing, rest) \in Seq(Portions) /\ Len(Append(rcvRing, rest)) = Len(rcvRing) + 1
            /\ Unique(Append(rcvRing, rest))
            /\ ToSet(Append(rcvRing, rest)) = ToSet(rcvRing) \cup {rest}
        BY ONLY <1>3, <1>10, LongerList
      <4>3. Len(rcvRing) \in Nat /\ RingSize \in Nat
        BY <1>10, UdpAssumption
      <4> QED
        BY <2>2, <3>2, <4>1, <4>2, <4>3
    <3>3. CASE ~(Len(rcvRing) < RingSize)
      BY <1>3, <3>1, <3>3 DEF Enqueued, Overflow
    <3> QED
      BY <3>2, <3>3
  <2> QED
    BY <2>1, <2>2
<1>15. \/ e.from < e.to /\ Under' = (Under \ {e}) \cup {rest}
       \/ Under' = Under \ {e} /\ (e.from < e.to => e.of \in dropped')
  <2>1. /\ Under = ToSet(wire) \cup ToSet(inRing) \cup ToSet(udpCore.burst) \cup ToSet(rcvRing) \cup {e}
        /\ Under' = ToSet(wire) \cup ToSet(inRing) \cup ToSet(udpCore.burst) \cup ToSet(rcvRing')
    BY <1>1, <1>6 DEF Under
  <2>2. e \notin ToSet(wire) \cup ToSet(inRing) \cup ToSet(udpCore.burst) \cup ToSet(rcvRing)
    BY <1>12 DEF Apart
  <2>3. CASE e.from < e.to /\ ToSet(rcvRing') = ToSet(rcvRing) \cup {rest}
    BY ONLY <2>1, <2>2, <2>3
  <2>4. CASE rcvRing' = rcvRing /\ (e.from < e.to => e.of \in dropped')
    <3>1. ToSet(rcvRing') = ToSet(rcvRing)
      BY <2>4
    <3>2. Under' = Under \ {e}
      BY ONLY <2>1, <2>2, <3>1
    <3> QED
      BY <2>4, <3>2
  <2> QED
    BY <1>14, <2>3, <2>4
<1>16. /\ rcvRing' \in Seq(Portions) /\ Unique(rcvRing') /\ Len(rcvRing') <= RingSize
       /\ ToSet(rcvRing') \subseteq ToSet(rcvRing) \cup {rest}
       /\ dropped \subseteq dropped' /\ dropped' \subseteq dropped \cup {e.of}
  BY <1>10, <1>14
<1>17. UdpTyped'
  BY <1>1, <1>2, <1>4, <1>5, <1>8, <1>16 DEF UdpInv, UdpTyped, Stages
<1>18. Spread'
  <2>1. Apart(ToSet(wire'), ToSet(inRing'), ToSet(udpCore'.burst), ToSet(rcvRing'), InHand')
    <3>1. wire' = wire /\ inRing' = inRing /\ udpCore' = udpCore
      BY <1>1
    <3> QED
      BY ONLY <1>6, <1>12, <1>13, <1>16, <3>1 DEF Apart
  <2>2. \A x, y \in Under' : x.of = y.of => x = y
    <3>1. \A x \in Under' : (x \in Under /\ x # e) \/ x = rest
      BY <1>15
    <3>2. \A x, y \in Under : x.of = y.of => x = y
      BY DEF UdpInv, Spread
    <3> QED
      BY ONLY <1>3, <1>7, <3>1, <3>2
  <2> QED
    BY <1>1, <1>16, <2>1, <2>2 DEF UdpInv, Spread
<1>19. History(Under, Back, dropped, tosend)'
  <2>1. History(Under, Back, dropped, tosend)
    BY DEF UdpInv
  <2>2. History(Under', Append(Back, a), dropped', tosend)
    BY ONLY <1>2, <1>3, <1>7, <1>10, <1>15, <1>16, <2>1, HistoryAnswers DEF rest
  <2> QED
    BY <1>1, <1>11, <2>2
<1>20. Introduced' /\ UdpSleepOk'
  BY <1>1, <1>3, <1>4, <1>5, <1>8, <1>16 DEF UdpInv, Introduced, UdpSleepOk
<1> QED
  BY <1>17, <1>18, <1>19, <1>20 DEF UdpInv

\* No step breaks the invariant.
LEMMA UdpNext_Inv == UdpInv /\ [UdpNext]_udpVars => UdpInv'
<1> SUFFICES ASSUME UdpInv, [UdpNext]_udpVars PROVE UdpInv'
  OBVIOUS
<1>1. CASE MainLoop
  BY <1>1, MainLoopKeeps
<1>2. CASE UdpPacketCore
  BY <1>2, TakeBurstKeeps, UdpProcessKeeps, UdpSignalKeeps, UdpOutKeeps DEF UdpPacketCore
<1>3. CASE udp_server_entry
  BY <1>3, UdpLockKeeps, DequeueKeeps, UdpWaitKeeps, RestKeeps, AnswerKept DEF udp_server_entry
<1>4. CASE \E h \in Hosts : HostSends(h)
  BY <1>4, HostSendsKeeps
<1>5. CASE UNCHANGED udpVars
  <2>1. UNCHANGED <<tosend, wire, inRing, outRing, arp, sndRing, rcvRing, mutex, udpCore, udpSrv, dropped, heard>>
    BY <1>5 DEF udpVars
  <2>2. InHand' = InHand /\ Back' = Back
    BY <2>1 DEF InHand, Back, Answering
  <2>3. Under' = Under
    BY <2>1, <2>2 DEF Under
  <2> QED
    BY <2>1, <2>2, <2>3 DEF UdpInv, UdpTyped, Spread, Introduced, UdpSleepOk
<1> QED
  BY <1>1, <1>2, <1>3, <1>4, <1>5 DEF UdpNext

\* What the invariant says of the answers and of quiet.
LEMMA UdpInv_Sound == UdpInv => UdpSound
<1> SUFFICES ASSUME UdpInv PROVE UdpSound
  OBVIOUS
<1>1. UdpTypeOK
  BY DEF UdpInv, UdpTyped, UdpTypeOK
<1>2. /\ heard \in Seq(Portions) /\ outRing \in Seq(Portions) /\ sndRing \in Seq(Portions)
      /\ Answering \in Seq(Portions) /\ rcvRing \in Seq(Portions)
  BY BackTyped DEF UdpInv
<1>3. AddressKnown
  <2>1. \A i \in 1..Len(sndRing) : sndRing[i] \in ToSet(sndRing)
    BY <1>2 DEF ToSet
  <2> QED
    BY <2>1 DEF UdpInv, Introduced, AddressKnown
<1>4. Len(heard) <= Len(Back) /\ \A i \in 1..Len(heard) : Back[i] = heard[i]
  <2> DEFINE b == heard \o outRing
             c == b \o sndRing
  <2>1. /\ b \in Seq(Portions) /\ Len(b) = Len(heard) + Len(outRing)
        /\ \A i \in 1..(Len(heard) + Len(outRing)) :
             b[i] = IF i <= Len(heard) THEN heard[i] ELSE outRing[i - Len(heard)]
    BY <1>2, ConcatProperties
  <2> HIDE DEF b
  <2>2. /\ c \in Seq(Portions) /\ Len(c) = Len(b) + Len(sndRing)
        /\ \A i \in 1..(Len(b) + Len(sndRing)) :
             c[i] = IF i <= Len(b) THEN b[i] ELSE sndRing[i - Len(b)]
    <3>1. b \in Seq(Portions) /\ sndRing \in Seq(Portions)
      BY <1>2, <2>1
    <3> QED
      BY ONLY <3>1, ConcatProperties
  <2> HIDE DEF c
  <2>3. Back = c \o Answering
    BY DEF Back, b, c
  <2>4. /\ Len(Back) = Len(c) + Len(Answering)
        /\ \A i \in 1..(Len(c) + Len(Answering)) :
             Back[i] = IF i <= Len(c) THEN c[i] ELSE Answering[i - Len(c)]
    <3>1. c \in Seq(Portions) /\ Answering \in Seq(Portions)
      BY <1>2, <2>2
    <3> QED
      BY ONLY <2>3, <3>1, ConcatProperties
  <2>5. Len(heard) \in Nat /\ Len(outRing) \in Nat /\ Len(sndRing) \in Nat /\ Len(Answering) \in Nat
    BY <1>2
  <2>6. Len(heard) <= Len(b) /\ Len(b) <= Len(c) /\ Len(c) <= Len(Back) /\ Len(b) \in Nat /\ Len(c) \in Nat
    BY <2>1, <2>2, <2>4, <2>5
  <2>7. \A i \in 1..Len(heard) : b[i] = heard[i]
    BY <2>1, <2>5
  <2>8. \A i \in 1..Len(b) : c[i] = b[i]
    BY <2>2, <2>5, <2>6
  <2>9. \A i \in 1..Len(c) : Back[i] = c[i]
    BY <2>4, <2>5, <2>6
  <2>10. \A i \in 1..Len(heard) : i \in 1..Len(b) /\ i \in 1..Len(c)
    BY <2>5, <2>6
  <2>11. Len(heard) <= Len(Back) /\ Len(Back) \in Nat
    BY <2>2, <2>4, <2>5, <2>6
  <2> QED
    BY <2>7, <2>8, <2>9, <2>10, <2>11
<1>5. InOrder(Back, dropped)
  BY DEF UdpInv, History
<1>6. PiecesInOrder
  <2> SUFFICES ASSUME NEW i \in 1..Len(heard)
               PROVE  /\ \A j \in 1..(i - 1) : heard[j].of = heard[i].of => heard[j].from < heard[i].from
                      /\ heard[i].of \notin dropped => \A p \in 1..(heard[i].from - 1) :
                           \E j \in 1..(i - 1) : heard[j].of = heard[i].of /\ heard[j].from = p
    BY DEF PiecesInOrder
  <2>1. Len(heard) \in Nat /\ Len(Back) \in Nat
    BY <1>2, BackTyped DEF UdpInv
  <2>2. i \in 1..Len(Back) /\ Back[i] = heard[i] /\ \A j \in 1..(i - 1) : Back[j] = heard[j]
    BY <1>4, <2>1
  <2>3. /\ \A j \in 1..(i - 1) : Back[j].of = Back[i].of => Back[j].from < Back[i].from
        /\ Back[i].of \notin dropped => \A p \in 1..(Back[i].from - 1) :
             \E j \in 1..(i - 1) : Back[j].of = Back[i].of /\ Back[j].from = p
    BY <1>5, <2>2 DEF InOrder, Comes
  <2> QED
    BY ONLY <2>2, <2>3
<1>7. UdpNoLostWakeup
  BY DEF UdpInv, UdpSleepOk, UdpNoLostWakeup, USrv, UCore
<1>8. NothingForgotten
  <2> SUFFICES ASSUME wire = <<>>, inRing = <<>>, sndRing = <<>>, outRing = <<>>,
                      udpSrv.pc = "asleep", udpCore.pc = "poll",
                      NEW h \in Hosts, NEW k \in (tosend[h] + 1)..Traffic[h]
               PROVE  \E n \in 1..Pieces :
                        \/ <<h, k, n>> \in dropped
                        \/ \A p \in 1..n : \E i \in 1..Len(heard) :
                             heard[i].of = <<h, k, n>> /\ heard[i].from = p
    BY DEF NothingForgotten, USrv, UCore
  <2>1. rcvRing = <<>> /\ udpCore.burst = <<>>
    BY DEF UdpInv, UdpSleepOk, UdpTyped
  <2>2. ToSet(<<>>) = {}
    BY DEF ToSet
  <2>3. Under = {}
    BY <2>1, <2>2 DEF Under, InHand
  <2>4. Back = heard
    <3>1. Back = ((heard \o <<>>) \o <<>>) \o <<>>
      BY DEF Back, Answering
    <3> QED
      BY <1>2, <3>1, ConcatEmptySeq
  <2>5. PICK n \in 1..Pieces : Whole(<<h, k, n>>, Under, Back, dropped)
    BY DEF UdpInv, History
  <2>6. <<h, k, n>>[3] = n
    OBVIOUS
  <2>7. \/ <<h, k, n>> \in dropped
        \/ \A p \in 1..n : Comes(heard, Len(heard), <<h, k, n>>, p)
    BY <2>3, <2>4, <2>5, <2>6 DEF Whole
  <2> QED
    BY <2>7 DEF Comes
<1> QED
  BY <1>1, <1>3, <1>6, <1>7, <1>8 DEF UdpSound

\* The echo server of the UDP half keeps what UdpSound promises: the pieces of a
\* datagram come back in their order and without a gap, its sender is always known,
\* no signal is lost and nothing is forgotten, but for what a full ring took
\* (tcp.c:978-1142, 1416-1463).
THEOREM UdpIsSound == UdpSpec => []UdpSound
<1>1. UdpInit => UdpInv
  BY UdpInit_Inv
<1>2. UdpInv /\ [UdpNext]_udpVars => UdpInv'
  BY UdpNext_Inv
<1>3. UdpInv => UdpSound
  BY UdpInv_Sound
<1> QED
  BY <1>1, <1>2, <1>3, PTL DEF UdpSpec
=============================================================================
