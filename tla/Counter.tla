------------------------------ MODULE Counter -------------------------------
(***************************************************************************)
(* One number in shared memory that several threads (lock.c, CAS.c) or     *)
(* processes (nty_server_mulcore.c) count up, in the ways the code has:    *)
(*   "bare"   read, add, write back       (lock.c, WITHOUT_LOCK)           *)
(*   "lock"   the same under a mutex or a spin lock (lock.c)               *)
(*   "xadd"   one locked instruction      (lock.c, INC_FLAG)               *)
(*   "cas"    compare and exchange, again until it hits (CAS.c,            *)
(*            add_shmvalue of nty_server_mulcore.c)                        *)
(***************************************************************************)
EXTENDS Naturals

CONSTANTS
    Threads,  \* the threads
    Rounds    \* how often each of them counts

ASSUME CounterAssumption == Rounds \in Nat

VARIABLES
    how,    \* the way, chosen when the program is built
    pcount, \* the number
    old,    \* old[t]: what t read, its old_val
    cpc,    \* cpc[t]: where t is in its turn
    done,   \* done[t]: turns t finished
    lock    \* the lock is taken

counterVars == <<how, pcount, old, cpc, done, lock>>

CounterInit ==
    /\ how \in {"bare", "lock", "xadd", "cas"}
    /\ pcount = 0 /\ lock = "free"
    /\ old = [t \in Threads |-> 0]
    /\ cpc = [t \in Threads |-> "start"]
    /\ done = [t \in Threads |-> 0]

Finish(t) == /\ done' = [done EXCEPT ![t] = @ + 1]
             /\ cpc' = [cpc EXCEPT ![t] = "start"]

\* pthread_mutex_lock or pthread_spin_lock
TakeLock(t) ==
    /\ how = "lock" /\ cpc[t] = "start" /\ done[t] < Rounds /\ lock = "free"
    /\ lock' = "held" /\ cpc' = [cpc EXCEPT ![t] = "read"]
    /\ UNCHANGED <<how, pcount, old, done>>

\* old_val = *pcount
Read(t) ==
    /\ \/ how \in {"bare", "cas"} /\ cpc[t] = "start" /\ done[t] < Rounds
       \/ how = "lock" /\ cpc[t] = "read"
    /\ old' = [old EXCEPT ![t] = pcount]
    /\ cpc' = [cpc EXCEPT ![t] = "write"]
    /\ UNCHANGED <<how, pcount, done, lock>>

\* Mutant: the lock is not let go.
Write_Holds(t) ==
    /\ how \in {"bare", "lock"} /\ cpc[t] = "write"
    /\ pcount' = old[t] + 1
    /\ Finish(t)
    /\ UNCHANGED <<how, old, lock>>

\* (*pcount)++ stores what was read plus one, and the lock, if any, is let go.
Write(t) ==
    /\ how \in {"bare", "lock"} /\ cpc[t] = "write"
    /\ pcount' = old[t] + 1
    /\ lock' = "free"
    /\ Finish(t)
    /\ UNCHANGED <<how, old>>

\* lock; xaddl
Xadd(t) ==
    /\ how = "xadd" /\ cpc[t] = "start" /\ done[t] < Rounds
    /\ pcount' = pcount + 1
    /\ Finish(t)
    /\ UNCHANGED <<how, old, lock>>

\* Mutant: stores without the lock prefix, the compare made before: a miss is not
\* seen and the turn counts.
Cas_Misses(t) ==
    /\ how = "cas" /\ cpc[t] = "write" /\ Finish(t)
    /\ pcount' = IF pcount = old[t] THEN old[t] + 1 ELSE pcount
    /\ UNCHANGED <<how, old, lock>>

\* cas: stores if the number is still the one read, reads again if it is not.
Cas(t) ==
    /\ how = "cas" /\ cpc[t] = "write"
    /\ IF pcount = old[t]
       THEN pcount' = old[t] + 1 /\ Finish(t)
       ELSE UNCHANGED <<pcount, done>> /\ cpc' = [cpc EXCEPT ![t] = "start"]
    /\ UNCHANGED <<how, old, lock>>

CountTurn(t) == TakeLock(t) \/ Read(t) \/ Write(t) \/ Xadd(t) \/ Cas(t)

CounterNext == \E t \in Threads : CountTurn(t)

CounterSpec == CounterInit /\ [][CounterNext]_counterVars

-----------------------------------------------------------------------------
\* Every variable has its type, and no thread counts more often than it was told.
CounterTypeOK ==
    /\ how \in {"bare", "lock", "xadd", "cas"}
    /\ pcount \in Nat /\ old \in [Threads -> Nat]
    /\ cpc \in [Threads -> {"start", "read", "write"}]
    /\ done \in [Threads -> 0..Rounds] /\ lock \in {"free", "held"}

\* Every way but the bare one counts each turn exactly once, at one instant of
\* the turn: it implements the atomic counter.
CountsEachTurn ==
    [][how # "bare" =>
          \/ UNCHANGED <<pcount, done>>
          \/ \E t \in Threads : /\ done[t] < Rounds
                                /\ pcount' = pcount + 1
                                /\ done' = [done EXCEPT ![t] = @ + 1]]_counterVars

\* The lock lets one thread at a time between the read and the write, so what it
\* read is still there when it writes (lock.c:43-45).
ReadIsFresh == \A t \in Threads :
    how = "lock" /\ cpc[t] = "write" => pcount = old[t]

\* A turn of compare and exchange fails only because another one succeeded
\* since its read: the number moved (CAS.c:20-23).
MissMeansHit == \A t \in Threads :
    how = "cas" /\ cpc[t] = "write" => old[t] <= pcount

\* All the ways end, once a thread has begun: a miss means that another thread's
\* turn is over, and the turns are finitely many (CAS.c:23).
CountBegun == \E t \in Threads : cpc[t] # "start" \/ done[t] > 0
CountOver == \A t \in Threads : done[t] = Rounds
=============================================================================
