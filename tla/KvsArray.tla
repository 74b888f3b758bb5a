------------------------------ MODULE KvsArray ------------------------------
(***************************************************************************)
(* The array engine of zzx_kvstore (kvs_array.c): a table of SIZE slots, a *)
(* counter total that bounds every scan, and strings on the heap.  A       *)
(* pointer is NULL, the string it points to, or WILD: a word the program   *)
(* never wrote (kvs_array_create does not clear the table).                *)
(***************************************************************************)
EXTENDS KVReply, FiniteSets

CONSTANTS
  SIZE,            \* KVS_ARRAY_SIZE
  WILD,
  FreshWords,      \* what a slot of the malloc'ed table may hold
  MallocMayFail    \* TRUE: kvs_malloc may return NULL

ASSUME ArrayAssumption ==
  /\ SIZE \in Nat \ {0}
  /\ FreshWords \subseteq {NULL, WILD}
  /\ FreshWords # {}
  /\ MallocMayFail \in BOOLEAN
  /\ NULL \notin Keys \cup Vals
  /\ WILD \notin Keys \cup Vals
  /\ NULL # WILD
  /\ {<<"absent">>, <<"lost">>} \cap Vals = {}   \* what Contents says of keys without a value

VARIABLES
  table,     \* inst->table: slot -> [key, value]
  total,     \* inst->total
  blocks,    \* heap blocks the engine holds for keys and values
  status,    \* "up", "crashed" (undefined behaviour bit), "destroyed"
  reply      \* what the last call returned: [op, key, ret, val]

vars == <<table, total, blocks, status, reply>>

Slots   == 0..(SIZE - 1)
Scanned == 0..(total - 1)      \* the slots a loop "i < inst->total" visits
Words   == {NULL, WILD}

Return(op, k, ret, val) == reply' = Reply(op, k, ret, val)

\* The results kvs_malloc may give: TRUE is a block, FALSE is NULL.
kvs_malloc == IF MallocMayFail THEN BOOLEAN ELSE {TRUE}

Matching(k)    == {i \in Scanned : table[i].key = k}
Holes          == {i \in Scanned : table[i].key = NULL}
IsFirst(i, S)  == i \in S /\ \A j \in S : i <= j

\* A loop that looks for k dereferences the key of every slot it passes.
ReadsWild(k) ==
  \E j \in Scanned : /\ table[j].key = WILD
                     /\ \A i \in Matching(k) : j < i

kvs_array_create ==
  /\ \E k \in [Slots -> FreshWords], v \in [Slots -> FreshWords] :
        table = [i \in Slots |-> [key |-> k[i], value |-> v[i]]]
  /\ total = 0
  /\ blocks = 0
  /\ status = "up"
  /\ reply = NoReply

-----------------------------------------------------------------------------
(* kvs_array_set, one action per way it can end *)

SetFull(k) ==
  /\ total = SIZE
  /\ Return("SET", k, -2, NULL)
  /\ UNCHANGED <<table, total, blocks>>

SetSame(k, v) ==
  /\ total # SIZE
  /\ \E i \in Scanned : IsFirst(i, Matching(k)) /\ table[i].value = v
  /\ Return("SET", k, 1, NULL)
  /\ UNCHANGED <<table, total, blocks>>

\* The old value is freed before the new one is allocated: when that fails
\* the slot keeps its key and a NULL value.
Overwrite(op, i, v, failure) ==
  \E ok \in kvs_malloc :
    /\ table' = [table EXCEPT ![i].value = IF ok THEN v ELSE NULL]
    /\ blocks' = blocks - (IF table[i].value = NULL THEN 0 ELSE 1)
                        + (IF ok THEN 1 ELSE 0)
    /\ Return(op, table[i].key, IF ok THEN 0 ELSE failure, NULL)
    /\ UNCHANGED total

SetUpdate(k, v) ==
  /\ total # SIZE
  /\ \E i \in Scanned : /\ IsFirst(i, Matching(k))
                        /\ table[i].value \notin {v, NULL}
                        /\ Overwrite("SET", i, v, -4)

Store(i, k, v) ==
  /\ table' = [table EXCEPT ![i] = [key |-> k, value |-> v]]
  /\ total' = total + 1
  /\ blocks' = blocks + 2
  /\ Return("SET", k, 0, NULL)

\* A new key takes the first hole below total, else slot total; total grows
\* in both cases.  The final "return -5" of the code needs total = SIZE here.
\* Mutant: the hole is taken before the key has been searched for.
SetInsert_HoleFirst(k, v) ==
  /\ total # SIZE
  /\ \/ \E i \in Scanned : IsFirst(i, Holes) /\ Store(i, k, v)
     \/ Holes = {} /\ Matching(k) = {} /\ Store(total, k, v)

SetInsert(k, v) ==
  /\ total # SIZE
  /\ Matching(k) = {}
  /\ \/ \E i \in Scanned : IsFirst(i, Holes) /\ Store(i, k, v)
     \/ Holes = {} /\ Store(total, k, v)

\* Mutant: the copy of the key is forgotten when the value has no memory.
SetNoMemory_KeepsCopy(k) ==
  /\ total # SIZE
  /\ Matching(k) = {}
  /\ FALSE \in kvs_malloc
  /\ Return("SET", k, -4, NULL)
  /\ blocks' = blocks + 1
  /\ UNCHANGED <<table, total>>

SetNoMemory(k) ==
  /\ total # SIZE
  /\ Matching(k) = {}
  /\ FALSE \in kvs_malloc
  /\ \E ret \in {-3, -4} : Return("SET", k, ret, NULL)   \* key, then value
  /\ UNCHANGED <<table, total, blocks>>                  \* kcopy is freed

kvs_array_set(k, v) ==
  \/ SetFull(k) \/ SetSame(k, v) \/ SetUpdate(k, v)
  \/ SetInsert(k, v) \/ SetNoMemory(k)

\* strcmp on a word that is no string: a slot never written, or the value
\* of a key whose update failed.
SetCrash(k) ==
  /\ total # SIZE
  /\ \/ ReadsWild(k)
     \/ \E i \in Scanned : IsFirst(i, Matching(k)) /\ table[i].value = NULL

-----------------------------------------------------------------------------
kvs_array_get(k) ==
  /\ \/ \E i \in Scanned : /\ IsFirst(i, Matching(k))
                           /\ Return("GET", k, 0, table[i].value)
     \/ Matching(k) = {} /\ Return("GET", k, 0, NULL)
  /\ UNCHANGED <<table, total, blocks>>

\* Mutant: total shrinks whichever slot was emptied.
DelFound_AlwaysShrinks(k) ==
  \E i \in Scanned :
    /\ IsFirst(i, Matching(k))
    /\ table' = [table EXCEPT ![i] = [key |-> NULL, value |-> NULL]]
    /\ blocks' = blocks - (IF table[i].value = NULL THEN 1 ELSE 2)
    /\ total' = total - 1
    /\ Return("DEL", k, 0, NULL)

\* Only a deletion in the last scanned slot lowers total; the others leave a
\* hole that a later set may fill.
DelFound(k) ==
  \E i \in Scanned :
    /\ IsFirst(i, Matching(k))
    /\ table' = [table EXCEPT ![i] = [key |-> NULL, value |-> NULL]]
    /\ blocks' = blocks - (IF table[i].value = NULL THEN 1 ELSE 2)
    /\ total' = IF i = total - 1 THEN total - 1 ELSE total
    /\ Return("DEL", k, 0, NULL)

DelMissing(k) ==
  /\ Matching(k) = {}
  /\ Return("DEL", k, 1, NULL)
  /\ UNCHANGED <<table, total, blocks>>

kvs_array_del(k) == DelFound(k) \/ DelMissing(k)

ModFound(k, v) ==
  \E i \in Scanned : IsFirst(i, Matching(k)) /\ Overwrite("MOD", i, v, -2)

ModMissing(k) ==
  /\ Matching(k) = {}
  /\ Return("MOD", k, 1, NULL)
  /\ UNCHANGED <<table, total, blocks>>

kvs_array_mod(k, v) == ModFound(k, v) \/ ModMissing(k)

\* exist is get followed by a test of the value, so a key without a value
\* does not exist.
kvs_array_exist(k) ==
  /\ LET found == \E i \in Scanned : /\ IsFirst(i, Matching(k))
                                     /\ table[i].value # NULL
     IN  Return("EXIST", k, IF found THEN 0 ELSE 1, NULL)
  /\ UNCHANGED <<table, total, blocks>>

\* Frees the table and nothing it points to: no slot is left to reach a key
\* or a value from, and their blocks stay with the heap.
kvs_array_destory ==
  /\ status' = "destroyed"
  /\ table' = [i \in Slots |-> [key |-> WILD, value |-> WILD]]
  /\ UNCHANGED <<total, blocks, reply>>

Call(k) ==
  /\ \/ \E v \in Vals : kvs_array_set(k, v) \/ kvs_array_mod(k, v)
     \/ kvs_array_get(k) \/ kvs_array_del(k) \/ kvs_array_exist(k)
  /\ UNCHANGED status

Crash(k) ==
  /\ ReadsWild(k) \/ SetCrash(k)
  /\ status' = "crashed"
  /\ UNCHANGED <<table, total, blocks, reply>>

Next ==
  /\ status = "up"
  /\ (\E k \in Keys : Call(k) \/ Crash(k)) \/ kvs_array_destory

Init == kvs_array_create

Spec == Init /\ [][Next]_vars

-----------------------------------------------------------------------------
\* Every slot, counter and reply keeps its type.
TypeOK ==
  /\ table \in [Slots -> [key : Keys \cup Words, value : Vals \cup Words]]
  /\ total \in 0..SIZE
  /\ blocks \in 0..(2 * SIZE)
  /\ status \in {"up", "crashed", "destroyed"}
  /\ reply \in Replies

Stored == {i \in Slots : table[i].key \in Keys}
Valued == {i \in Slots : table[i].value \in Vals}

\* A key is in at most one slot: kvs_array_set fills a hole only after it has
\* searched every slot that may hold the key.
KeysUnique ==
  \A i, j \in Stored : table[i].key = table[j].key => i = j

\* No key is out of reach: every slot that holds one is below total, so the
\* loops of get, del and mod see it, whichever slots del has emptied.
StoredBelowTotal == \A i \in Stored : i < total

\* A slot without a key owns no value, and a key owns a value or, after a
\* failed update, none: never a word the program did not write.
ValueHasKey ==
  \A i \in Slots : IF i \in Stored THEN table[i].value # WILD
                                    ELSE table[i].value \notin Vals

\* The ledger of the heap: as long as the table stands, every block the engine
\* holds is reachable from it exactly once, on every path of the five calls,
\* the failing ones included.  Nothing is said of kvs_array_destory: it frees
\* the table alone and leaks whatever blocks counts then.
LedgerExact ==
  status # "destroyed" => blocks = Cardinality(Stored) + Cardinality(Valued)

\* kvs_array.c:102 - "-2 is returned when the array is full".
FullMeansFull ==
  status = "up" /\ reply.op = "SET" /\ reply.ret = -2 => Cardinality(Stored) = SIZE

\* kvs_array_set never meets a slot that it must not dereference.
NeverCrashes == status # "crashed"

-----------------------------------------------------------------------------
(* The map the engine stands for *)

Contents ==
  [k \in Keys |->
     IF status = "destroyed" \/ \A i \in Stored : table[i].key # k THEN <<"absent">>
     ELSE LET i == CHOOSE i \in Stored : table[i].key = k
          IN  IF table[i].value = NULL THEN <<"lost">> ELSE table[i].value]

Map == INSTANCE KVMap WITH
  dict <- Contents, answer <- OutcomeOf(reply),
  Absent <- <<"absent">>, Lost <- <<"lost">>, LossyFailure <- MallocMayFail

\* The engine implements the map: replies and contents agree with KVMap on
\* every call, and a failed update is the only way to lose a value.
ImplementsMap == Map!Spec
=============================================================================
