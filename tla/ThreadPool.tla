----------------------------- MODULE ThreadPool -----------------------------
(***************************************************************************)
(* The thread pool of threadpool.c: workers that wait on one condition     *)
(* variable for tasks of one list, and a manager that creates the workers, *)
(* pushes tasks and may destroy the pool.                                  *)
(*                                                                         *)
(* nThreadPoolDestroy writes the workers' flags and the pool's two lists   *)
(* without the mutex, so a worker's turn under the mutex is cut where      *)
(* those writes can fall between two of its reads.                         *)
(***************************************************************************)
EXTENDS Naturals, Sequences, FiniteSets

CONSTANTS
    Workers,   \* threads the manager asks for
    PoolTasks  \* tasks, each pushed once

VARIABLES
    wpc,       \* wpc[w]: where worker w is
    hand,      \* hand[w]: the task w holds, NoTask if none
    terminate, \* the workers whose flag is set
    crew,      \* pool->workers, newest first
    todo,      \* pool->tasks, newest first
    pool_mutex, \* the holder of pool->mutex, NoTask if none
    manager,   \* [at, walk]: what the manager does; walk is the cursor of Destroy
    unpushed,  \* tasks not pushed yet
    ran,       \* ran[t]: times task t ran
    fault      \* what the pool touched that it may not: "none", "freed", "null"

poolVars == <<wpc, hand, terminate, crew, todo, pool_mutex, manager, unpushed, ran, fault>>

NoTask == "nothing"

\* Threads, tasks and nothing are not confused.
ASSUME PoolAssumption == NoTask \notin Workers /\ NoTask \notin PoolTasks

PoolInit ==
    /\ wpc = [w \in Workers |-> "unborn"]
    /\ hand = [w \in Workers |-> NoTask]
    /\ terminate = {} /\ crew = <<>> /\ todo = <<>>
    /\ pool_mutex = NoTask
    /\ manager = [at |-> "create", walk |-> 0]
    /\ unpushed = PoolTasks
    /\ ran = [t \in PoolTasks |-> 0]
    /\ fault = "none"

Goes(w, where) == wpc' = [wpc EXCEPT ![w] = where]
Boards(what) == manager' = [manager EXCEPT !.at = what]

-----------------------------------------------------------------------------
(* nThreadPoolCallback *)

\* Takes the mutex, at the head of the loop or on the way out of the wait.
TakeMutex(w) ==
    /\ wpc[w] \in {"start", "woken"} /\ pool_mutex = NoTask
    /\ pool_mutex' = w /\ Goes(w, "locked")
    /\ UNCHANGED <<hand, terminate, crew, todo, manager, unpushed, ran, fault>>

\* The test of the inner loop: no task, and no flag: the worker waits.
TestTasks(w) ==
    /\ wpc[w] = "locked"
    /\ Goes(w, IF todo = <<>> THEN "empty" ELSE "task")
    /\ UNCHANGED <<hand, terminate, crew, todo, pool_mutex, manager, unpushed, ran, fault>>

TestFlag(w) ==
    /\ wpc[w] = "empty"
    /\ IF w \in terminate
       THEN Goes(w, "task") /\ UNCHANGED pool_mutex
       ELSE Goes(w, "waiting") /\ pool_mutex' = NoTask
    /\ UNCHANGED <<hand, terminate, crew, todo, manager, unpushed, ran, fault>>

\* POSIX lets the wait end for no reason; the inner loop tests again.
Spurious(w) ==
    /\ wpc[w] = "waiting" /\ Goes(w, "woken")
    /\ UNCHANGED <<hand, terminate, crew, todo, pool_mutex, manager, unpushed, ran, fault>>

\* After the inner loop: leave if told to, otherwise take the newest task.
\* Destroy may have emptied the list since the test.
TakeTask(w) ==
    /\ wpc[w] = "task" /\ pool_mutex' = NoTask
    /\ \/ /\ w \in terminate
          /\ Goes(w, "leaving") /\ UNCHANGED <<hand, todo, fault>>
       \/ /\ w \notin terminate /\ todo # <<>>
          /\ Goes(w, "running")
          /\ hand' = [hand EXCEPT ![w] = Head(todo)]
          /\ todo' = Tail(todo)
          /\ UNCHANGED fault
       \/ /\ w \notin terminate /\ todo = <<>>
          /\ fault' = "null" /\ Goes(w, "dead") /\ UNCHANGED <<hand, todo>>
    /\ UNCHANGED <<terminate, crew, manager, unpushed, ran>>

\* The callback of the task, outside the mutex.
RunTask(w) ==
    /\ wpc[w] = "running"
    /\ ran' = [ran EXCEPT ![hand[w]] = @ + 1]
    /\ hand' = [hand EXCEPT ![w] = NoTask]
    /\ Goes(w, "start")
    /\ UNCHANGED <<terminate, crew, todo, pool_mutex, manager, unpushed, fault>>

\* The worker frees its own record; it does not leave pool->workers.
Leave(w) ==
    /\ wpc[w] = "leaving" /\ Goes(w, "gone")
    /\ UNCHANGED <<hand, terminate, crew, todo, pool_mutex, manager, unpushed, ran, fault>>

Worker(w) == TakeMutex(w) \/ TestTasks(w) \/ TestFlag(w) \/ TakeTask(w) \/ RunTask(w) \/ Leave(w)

-----------------------------------------------------------------------------
(* The manager *)

\* nThreadPoolCreate, one turn of its loop; main goes on pushing when malloc
\* or pthread_create failed and only some of the workers exist.
PoolCreate ==
    /\ manager.at = "create"
    /\ \/ \E w \in Workers :
            /\ wpc[w] = "unborn" /\ Goes(w, "start")
            /\ crew' = <<w>> \o crew
            /\ manager' = IF Len(crew) + 1 = Cardinality(Workers)
                          THEN [manager EXCEPT !.at = "push"] ELSE manager
       \/ Boards("push") /\ UNCHANGED <<wpc, crew>>
    /\ UNCHANGED <<hand, terminate, todo, pool_mutex, unpushed, ran, fault>>

Waiting == { w \in Workers : wpc[w] = "waiting" }

\* pthread_cond_signal wakes one of those that wait, broadcast all of them.
CondSignal == \/ Waiting = {} /\ UNCHANGED wpc
          \/ \E w \in Waiting : Goes(w, "woken")
Broadcast == wpc' = [w \in Workers |-> IF w \in Waiting THEN "woken" ELSE wpc[w]]

\* Mutant: nobody is woken.
PushTask_Silent ==
    /\ manager.at \in {"push", "destroyed"} /\ pool_mutex = NoTask
    /\ \E t \in unpushed : unpushed' = unpushed \ {t} /\ todo' = <<t>> \o todo
    /\ UNCHANGED <<wpc, hand, terminate, crew, pool_mutex, manager, ran, fault>>

\* nThreadPoolPushTask: every access is under the mutex, so one step.
PushTask ==
    /\ manager.at \in {"push", "destroyed"} /\ pool_mutex = NoTask
    /\ \E t \in unpushed :
         /\ unpushed' = unpushed \ {t}
         /\ todo' = <<t>> \o todo
    /\ CondSignal
    /\ UNCHANGED <<hand, terminate, crew, pool_mutex, manager, ran, fault>>

\* nThreadPoolDestroy may be called at any time after the creation.
CallDestroy ==
    /\ manager.at = "push"
    /\ manager' = [at |-> "flag", walk |-> 1]
    /\ UNCHANGED <<wpc, hand, terminate, crew, todo, pool_mutex, unpushed, ran, fault>>

\* One turn of the walk: sets the flag, then reads worker->next.
SetFlag ==
    /\ manager.at = "flag" /\ manager.walk <= Len(crew)
    /\ IF wpc[crew[manager.walk]] = "gone"
       THEN fault' = "freed" /\ UNCHANGED terminate
       ELSE terminate' = terminate \cup {crew[manager.walk]} /\ UNCHANGED fault
    /\ Boards("next")
    /\ UNCHANGED <<wpc, hand, crew, todo, pool_mutex, unpushed, ran>>

ReadNext ==
    /\ manager.at = "next"
    /\ manager' = [at |-> "flag", walk |-> manager.walk + 1]
    /\ fault' = IF wpc[crew[manager.walk]] = "gone" THEN "freed" ELSE fault
    /\ UNCHANGED <<wpc, hand, terminate, crew, todo, pool_mutex, unpushed, ran>>

\* The broadcast is made with the mutex held.
WakeAll ==
    /\ manager.at = "flag" /\ manager.walk > Len(crew)
    /\ pool_mutex = NoTask
    /\ Broadcast /\ Boards("forget")
    /\ UNCHANGED <<hand, terminate, crew, todo, pool_mutex, unpushed, ran, fault>>

\* Without the mutex again; the tasks that were waiting are dropped.
Forget ==
    /\ manager.at = "forget"
    /\ crew' = <<>> /\ todo' = <<>> /\ Boards("destroyed")
    /\ UNCHANGED <<wpc, hand, terminate, pool_mutex, unpushed, ran, fault>>

Manager == PoolCreate \/ PushTask \/ SetFlag \/ ReadNext \/ WakeAll \/ Forget

PoolNext == Manager \/ CallDestroy \/ \E w \in Workers : Worker(w) \/ Spurious(w)

\* A process that touched freed memory may do anything: nothing is said of it.
PoolStep == fault = "none" /\ PoolNext

PoolSpec == PoolInit /\ [][PoolStep]_poolVars

\* What the kernel runs, and the manager once it has begun a call.
BossGoes == PoolCreate \/ SetFlag \/ ReadNext \/ Forget

-----------------------------------------------------------------------------
Flying == { "flag", "next", "forget", "destroyed" }
Born == { w \in Workers : wpc[w] # "unborn" }

\* Every variable has its type, and the mutex is held by the worker that is between
\* its lock and its unlock, on every way out of the turn.
PoolTypeOK ==
    /\ \A w \in Workers : pool_mutex = w <=> wpc[w] \in {"locked", "empty", "task"}
    /\ wpc \in [Workers -> {"unborn", "start", "locked", "empty", "task", "waiting",
                            "woken", "running", "leaving", "gone", "dead"}]
    /\ hand \in [Workers -> PoolTasks \cup {NoTask}]
    /\ terminate \subseteq Workers /\ crew \in Seq(Workers) /\ todo \in Seq(PoolTasks)
    /\ pool_mutex \in Workers \cup {NoTask}
    /\ manager \in [at : {"create", "push"} \cup Flying, walk : Nat]
    /\ unpushed \subseteq PoolTasks /\ ran \in [PoolTasks -> Nat]
    /\ fault \in {"none", "freed", "null"}

\* A task is in one place only: not pushed, in the list once, in the hand of one
\* worker, run once, or dropped by Destroy (threadpool.c:79, 150, 164).
TaskPlaces(t) ==
    Cardinality({ i \in DOMAIN todo : todo[i] = t })
    + Cardinality({ w \in Workers : hand[w] = t })
    + ran[t] + (IF t \in unpushed THEN 1 ELSE 0)
TaskOnce == \A t \in PoolTasks :
    TaskPlaces(t) = 1 \/ (TaskPlaces(t) = 0 /\ manager.at = "destroyed")

\* No lost wake-up: while a task is in the list, some worker is on its way to
\* the list, not all of them wait (threadpool.c:68-71, 163-166).
TaskWakes ==
    todo # <<>> /\ Born # {} /\ manager.at = "push"
        => \E w \in Born : wpc[w] # "waiting"

\* The pool touches freed or missing memory only when Destroy was called
\* (threadpool.c:141, 150): what main does, create and push, is safe.
SafeBeforeDestroy == fault # "none" => manager.at \in Flying

\* The pool runs each task once, loses no wake-up, keeps its mutex, and touches freed
\* memory only once Destroy was called (threadpool.c:61-168).
PoolSound == PoolTypeOK /\ TaskOnce /\ TaskWakes /\ SafeBeforeDestroy

\* A pool that was not destroyed owes every task a run, if it has a worker at all:
\* the list is last in first out, so this can hold only because the tasks are
\* finitely many (threadpool.c:84).
PoolOwes(t) == t \notin unpushed /\ Born # {}
PoolGives(t) == ran[t] = 1 \/ manager.at \in Flying

\* Destroy reaches every worker: once it has returned, all leave in the end, none
\* sleeps through the broadcast (threadpool.c:69-76, 145-147).
Destroyed == manager.at = "destroyed"
CrewGone == fault # "none" \/ \A w \in Born : wpc[w] = "gone"
=============================================================================
