--------------------------- MODULE KvsArray_proofs ---------------------------
(***************************************************************************)
(* Proofs about the array engine, for every SIZE, every set of keys and    *)
(* values and every content of the uninitialised table.  The five          *)
(* invariants of KvsArray are inductive together, so their conjunction is  *)
(* the inductive invariant: the type of blocks needs the ledger, the       *)
(* ledger needs to know what a slot owns, and that no key is stored twice  *)
(* needs every stored key to be below total, where the search looks.       *)
(***************************************************************************)
EXTENDS KvsArray, FiniteSetTheorems, TLAPS

IInv == TypeOK /\ KeysUnique /\ StoredBelowTotal /\ ValueHasKey /\ LedgerExact

-----------------------------------------------------------------------------
(* Replies and maps *)

\* What kvs_protocol_filter makes of a reply.
LEMMA Outcomes ==
  ASSUME NEW op \in Ops, NEW k, NEW val
  PROVE  /\ \A ret \in -4..-1 : OutcomeOf(Reply(op, k, ret, val)) = <<op, k, "error">>
         /\ OutcomeOf(Reply(op, k, 1, val)) = <<op, k, IF op = "SET" THEN "same" ELSE "nokey">>
         /\ OutcomeOf(Reply(op, k, 0, val)) =
              <<op, k, IF op = "GET" THEN IF val = NULL THEN "nokey" ELSE val ELSE "ok">>
<1>1. op # "NONE"
  BY DEF Ops
<1>2. ASSUME NEW r, r.op = op, r.key = k, r.val = val
      PROVE  /\ r.ret \in -4..-1 => OutcomeOf(r) = <<op, k, "error">>
             /\ r.ret = 1 => OutcomeOf(r) = <<op, k, IF op = "SET" THEN "same" ELSE "nokey">>
             /\ r.ret = 0 => OutcomeOf(r) =
                  <<op, k, IF op = "GET" THEN IF val = NULL THEN "nokey" ELSE val ELSE "ok">>
  <2>1. CASE r.ret \in -4..-1
    BY <1>1, <1>2, <2>1 DEF OutcomeOf
  <2>2. CASE r.ret = 1
    BY <1>1, <1>2, <2>2 DEF OutcomeOf
  <2>3. CASE r.ret = 0
    BY <1>1, <1>2, <2>3 DEF OutcomeOf
  <2> QED
    BY <2>1, <2>2, <2>3
<1>3. \A ret : LET r == Reply(op, k, ret, val)
              IN  r.op = op /\ r.key = k /\ r.ret = ret /\ r.val = val
  BY DEF Reply
<1> QED
  BY <1>2, <1>3

\* Two maps are equal when they bind every key alike.
LEMMA SameMap ==
  ASSUME NEW f, NEW g, f = [k \in Keys |-> f[k]], g = [k \in Keys |-> g[k]],
         NEW k \in Keys, NEW x, f[k] = x, \A k2 \in Keys \ {k} : f[k2] = g[k2]
  PROVE  f = [g EXCEPT ![k] = x]
OBVIOUS

-----------------------------------------------------------------------------
(* The ledger: what one changed slot does to the two cardinalities *)

\* The table has SIZE slots, so at most SIZE keys and SIZE values.
LEMMA SlotSets ==
  ASSUME NEW S \in SUBSET Slots
  PROVE  /\ IsFiniteSet(S)
         /\ Cardinality(S) \in 0..SIZE
<1>1. IsFiniteSet(Slots) /\ Cardinality(Slots) = SIZE
  BY ArrayAssumption, FS_Interval DEF Slots
<1> QED
  BY <1>1, FS_Subset, FS_CardinalityType, ArrayAssumption

\* Adding a slot to a set of slots, or removing one, moves its size by one.
LEMMA OneSlot ==
  ASSUME NEW S \in SUBSET Slots, NEW i \in Slots
  PROVE  /\ Cardinality(S \cup {i}) = Cardinality(S) + (IF i \in S THEN 0 ELSE 1)
         /\ Cardinality(S \ {i}) = Cardinality(S) - (IF i \in S THEN 1 ELSE 0)
<1>1. IsFiniteSet(S) /\ Cardinality(S) \in Int
  BY SlotSets, ArrayAssumption
<1>2. Cardinality(S \cup {i}) = IF i \in S THEN Cardinality(S) ELSE Cardinality(S) + 1
  BY <1>1, FS_AddElement
<1>3. Cardinality(S \ {i}) = IF i \in S THEN Cardinality(S) - 1 ELSE Cardinality(S)
  BY <1>1, FS_RemoveElement
<1> QED
  BY <1>1, <1>2, <1>3

-----------------------------------------------------------------------------
(* One lemma per way a call changes a slot *)

\* The slots of a scan are slots of the table.
LEMMA ScannedSlots ==
  ASSUME IInv, NEW i \in Scanned
  PROVE  /\ i \in Slots
         /\ i \in Int
         /\ table[i] \in [key : Keys \cup Words, value : Vals \cup Words]
BY ArrayAssumption DEF IInv, TypeOK, Scanned, Slots

\* The parts of the invariant that a table with the right cardinalities keeps.
LEMMA LedgerBound == LedgerExact /\ status # "destroyed" => blocks \in 0..(2 * SIZE)
<1>1. Cardinality(Stored) \in 0..SIZE /\ Cardinality(Valued) \in 0..SIZE
  BY SlotSets DEF Stored, Valued
<1> QED
  BY <1>1, ArrayAssumption DEF LedgerExact

\* kvs_array_set and kvs_array_mod on a key that is there: the slot keeps its
\* key and gains, keeps or loses its value, and the ledger follows.
LEMMA OverwriteKeeps ==
  ASSUME IInv, NEW op \in Ops, NEW i \in Scanned, table[i].key \in Keys,
         NEW v \in Vals, NEW failure \in {-4, -2},
         Overwrite(op, i, v, failure), status = "up", UNCHANGED status
  PROVE  IInv'
<1> DEFINE w(ok) == IF ok THEN v ELSE NULL
<1>1. PICK ok \in BOOLEAN :
        /\ table' = [table EXCEPT ![i].value = w(ok)]
        /\ blocks' = blocks - (IF table[i].value = NULL THEN 0 ELSE 1)
                            + (IF ok THEN 1 ELSE 0)
        /\ Return(op, table[i].key, IF ok THEN 0 ELSE failure, NULL)
        /\ total' = total
  BY DEF Overwrite, kvs_malloc
<1>2. i \in Slots /\ table[i] \in [key : Keys \cup Words, value : Vals \cup Words]
  BY ScannedSlots
<1>3. table \in [Slots -> [key : Keys \cup Words, value : Vals \cup Words]]
  BY DEF IInv, TypeOK
<1>4. /\ table' \in [Slots -> [key : Keys \cup Words, value : Vals \cup Words]]
      /\ \A j \in Slots : table'[j].key = table[j].key
      /\ \A j \in Slots \ {i} : table'[j].value = table[j].value
      /\ table'[i].value = w(ok)
  BY <1>1, <1>2, <1>3 DEF Words
<1>5. Stored' = Stored /\ i \in Stored
  BY <1>2, <1>4 DEF Stored
<1>6. Valued' = IF ok THEN Valued \cup {i} ELSE Valued \ {i}
  BY <1>2, <1>4, ArrayAssumption DEF Valued
<1>7. (table[i].value = NULL) <=> (i \notin Valued)
  BY <1>2, <1>5, ArrayAssumption DEF Valued, IInv, ValueHasKey, Words
<1>8. LedgerExact'
  <2>1. /\ Cardinality(Valued \cup {i}) = Cardinality(Valued) + (IF i \in Valued THEN 0 ELSE 1)
        /\ Cardinality(Valued \ {i}) = Cardinality(Valued) - (IF i \in Valued THEN 1 ELSE 0)
        /\ Cardinality(Valued) \in Int /\ Cardinality(Stored) \in Int
    BY <1>2, OneSlot, SlotSets DEF Valued, Stored
  <2> QED
    BY <1>1, <1>5, <1>6, <1>7, <2>1 DEF LedgerExact, IInv
<1>9. ValueHasKey' /\ KeysUnique' /\ StoredBelowTotal'
  BY <1>1, <1>2, <1>4, <1>5, ArrayAssumption
     DEF IInv, ValueHasKey, KeysUnique, StoredBelowTotal
<1>10. reply' \in Replies
  BY <1>1 DEF Return, Reply, Replies, Ops
<1>11. (blocks \in 0..(2 * SIZE))'
  <2>1. (LedgerExact /\ status # "destroyed")'
    BY <1>8
  <2> QED
    BY <2>1, LedgerBound, PTL
<1> QED
  BY <1>1, <1>4, <1>8, <1>9, <1>10, <1>11 DEF IInv, TypeOK

\* kvs_array_set on a new key: the slot it takes, a hole or the first slot
\* past the scan, held neither a key nor a value.
LEMMA StoreKeeps ==
  ASSUME IInv, NEW k \in Keys, NEW v \in Vals, NEW i \in Slots,
         i \notin Stored, i <= total, total # SIZE, Matching(k) = {},
         Store(i, k, v), status = "up", UNCHANGED status
  PROVE  IInv'
<1>1. /\ table' = [table EXCEPT ![i] = [key |-> k, value |-> v]]
      /\ total' = total + 1
      /\ blocks' = blocks + 2
      /\ reply' = Reply("SET", k, 0, NULL)
  BY DEF Store, Return
<1>2. /\ table \in [Slots -> [key : Keys \cup Words, value : Vals \cup Words]]
      /\ total \in 0..SIZE
      /\ i \in Int
  BY DEF IInv, TypeOK, Slots
<1>3. /\ table' \in [Slots -> [key : Keys \cup Words, value : Vals \cup Words]]
      /\ \A j \in Slots \ {i} : table'[j] = table[j]
      /\ table'[i] = [key |-> k, value |-> v]
  BY <1>1, <1>2
<1>4. i \notin Valued
  BY DEF Valued, IInv, ValueHasKey
<1>5. Stored' = Stored \cup {i} /\ Valued' = Valued \cup {i}
  BY <1>3 DEF Stored, Valued
<1>6. LedgerExact'
  <2>1. /\ Cardinality(Stored \cup {i}) = Cardinality(Stored) + 1
        /\ Cardinality(Valued \cup {i}) = Cardinality(Valued) + 1
        /\ Cardinality(Valued) \in Int /\ Cardinality(Stored) \in Int
    BY <1>4, OneSlot, SlotSets DEF Valued, Stored
  <2> QED
    BY <1>1, <1>5, <2>1 DEF LedgerExact, IInv
<1>7. KeysUnique'
  <2>1. \A j \in Stored : table[j].key # k
    <3>1. \A j \in Stored : j \in Scanned
      BY <1>2 DEF IInv, StoredBelowTotal, Stored, Slots, Scanned
    <3> QED
      BY <3>1 DEF Matching
  <2> QED
    BY <1>3, <1>5, <2>1 DEF KeysUnique, IInv, Stored
<1>8. StoredBelowTotal'
  <2>1. \A j \in Stored : j < total /\ j \in Int
    BY DEF IInv, StoredBelowTotal, Stored, Slots
  <2> QED
    BY <1>1, <1>2, <1>5, <2>1, ArrayAssumption DEF StoredBelowTotal
<1>9. ValueHasKey'
  BY <1>3, <1>5, ArrayAssumption DEF IInv, ValueHasKey
<1>10. (blocks \in 0..(2 * SIZE))'
  <2>1. (LedgerExact /\ status # "destroyed")'
    BY <1>6
  <2> QED
    BY <2>1, LedgerBound, PTL
<1>11. reply' \in Replies
  BY <1>1 DEF Reply, Replies, Ops
<1> QED
  BY <1>1, <1>2, <1>3, <1>6, <1>7, <1>8, <1>9, <1>10, <1>11, ArrayAssumption
     DEF IInv, TypeOK

\* kvs_array_del: the slot gives back what it owned, and lowering total never
\* hides a stored key.
LEMMA DelFoundKeeps ==
  ASSUME IInv, NEW k \in Keys, DelFound(k), status = "up", UNCHANGED status
  PROVE  IInv'
<1>1. PICK i \in Scanned :
        /\ table[i].key = k
        /\ table' = [table EXCEPT ![i] = [key |-> NULL, value |-> NULL]]
        /\ blocks' = blocks - (IF table[i].value = NULL THEN 1 ELSE 2)
        /\ total' = IF i = total - 1 THEN total - 1 ELSE total
        /\ reply' = Reply("DEL", k, 0, NULL)
  BY DEF DelFound, IsFirst, Matching, Return
<1>2. /\ table \in [Slots -> [key : Keys \cup Words, value : Vals \cup Words]]
      /\ total \in 0..SIZE
  BY DEF IInv, TypeOK
<1>3. i \in Slots /\ i \in Int /\ i \in 0..(total - 1)
  BY ScannedSlots DEF Scanned
<1>4. /\ table' \in [Slots -> [key : Keys \cup Words, value : Vals \cup Words]]
      /\ \A j \in Slots \ {i} : table'[j] = table[j]
      /\ table'[i] = [key |-> NULL, value |-> NULL]
  BY <1>1, <1>2, <1>3 DEF Words
<1>5. i \in Stored /\ (table[i].value = NULL <=> i \notin Valued)
  BY <1>1, <1>2, <1>3, ArrayAssumption DEF Stored, Valued, IInv, ValueHasKey, Words
<1>6. Stored' = Stored \ {i} /\ Valued' = Valued \ {i}
  <2>1. NULL \notin Keys /\ NULL \notin Vals
    BY ArrayAssumption
  <2>2. \A j \in Slots : j \in Stored' <=> j \in Stored /\ j # i
    BY <1>3, <1>4, <2>1 DEF Stored
  <2>3. \A j \in Slots : j \in Valued' <=> j \in Valued /\ j # i
    BY <1>3, <1>4, <2>1 DEF Valued
  <2> QED
    BY <2>2, <2>3 DEF Stored, Valued
<1>7. LedgerExact'
  <2>1. /\ Cardinality(Stored \ {i}) = Cardinality(Stored) - 1
        /\ Cardinality(Valued \ {i}) = Cardinality(Valued) - (IF i \in Valued THEN 1 ELSE 0)
        /\ Cardinality(Valued) \in Int /\ Cardinality(Stored) \in Int
    <3>1. Stored \in SUBSET Slots /\ Valued \in SUBSET Slots
      BY DEF Stored, Valued
    <3>2. Cardinality(Valued) \in Int /\ Cardinality(Stored) \in Int
      BY <3>1, SlotSets, ArrayAssumption
    <3>3. Cardinality(Stored \ {i}) = Cardinality(Stored) - 1
      BY <1>3, <1>5, <3>1, OneSlot
    <3>4. Cardinality(Valued \ {i}) = Cardinality(Valued) - (IF i \in Valued THEN 1 ELSE 0)
      BY <1>3, <3>1, OneSlot
    <3> QED
      BY <3>2, <3>3, <3>4
  <2> QED
    BY <1>1, <1>5, <1>6, <2>1 DEF LedgerExact, IInv
<1>8. KeysUnique'
  BY <1>4, <1>6 DEF KeysUnique, IInv, Stored
<1>9. StoredBelowTotal'
  <2>1. \A j \in Stored : j < total /\ j \in Int
    BY DEF IInv, StoredBelowTotal, Stored, Slots
  <2> QED
    BY <1>1, <1>2, <1>3, <1>6, <2>1 DEF StoredBelowTotal
<1>10. ValueHasKey'
  BY <1>4, <1>6, ArrayAssumption DEF IInv, ValueHasKey
<1>11. (blocks \in 0..(2 * SIZE))'
  <2>1. (LedgerExact /\ status # "destroyed")'
    BY <1>7
  <2> QED
    BY <2>1, LedgerBound, PTL
<1>12. reply' \in Replies
  BY <1>1 DEF Reply, Replies, Ops
<1> QED
  BY <1>1, <1>2, <1>3, <1>4, <1>7, <1>8, <1>9, <1>10, <1>11, <1>12,
     ArrayAssumption
     DEF IInv, TypeOK

\* A call or a crash that leaves the table alone and whose reply is well typed.
LEMMA TableKept ==
  ASSUME IInv, UNCHANGED <<table, total, blocks>>,
         status = "up" \/ status' = status,
         status' \in {"up", "crashed", "destroyed"}, reply' \in Replies
  PROVE  IInv'
BY DEF IInv, TypeOK, KeysUnique, StoredBelowTotal, ValueHasKey, LedgerExact,
       Stored, Valued

\* kvs_array_destory: no slot says anything any more, and the blocks it leaks
\* are still no more than two a slot.
LEMMA DestoryKeeps ==
  ASSUME IInv, kvs_array_destory
  PROVE  IInv'
<1>1. /\ table' \in [Slots -> [key : Keys \cup Words, value : Vals \cup Words]]
      /\ \A i \in Slots : table'[i].key = WILD /\ table'[i].value = WILD
  BY DEF kvs_array_destory, Words
<1>2. Stored' = {} /\ Valued' = {}
  BY <1>1, ArrayAssumption DEF Stored, Valued
<1>3. TypeOK'
  BY <1>1 DEF IInv, TypeOK, kvs_array_destory
<1>4. KeysUnique' /\ StoredBelowTotal' /\ LedgerExact'
  BY <1>2 DEF KeysUnique, StoredBelowTotal, LedgerExact, kvs_array_destory
<1>5. ValueHasKey'
  BY <1>1, <1>2, ArrayAssumption DEF ValueHasKey
<1> QED
  BY <1>3, <1>4, <1>5 DEF IInv

-----------------------------------------------------------------------------
(* The inductive invariant *)

\* kvs_array_create establishes the invariant whatever the fresh table holds.
LEMMA InitIInv == Init => IInv
<1> SUFFICES ASSUME Init PROVE IInv
  OBVIOUS
<1> USE DEF Init, kvs_array_create
<1>1. /\ table \in [Slots -> [key : Words, value : Words]]
      /\ total = 0 /\ blocks = 0 /\ status = "up" /\ reply = NoReply
  BY ArrayAssumption DEF Words
<1>2. Stored = {} /\ Valued = {}
  BY <1>1, ArrayAssumption DEF Stored, Valued, Words
<1>3. LedgerExact
  BY <1>1, <1>2, FS_EmptySet DEF LedgerExact
<1>4. TypeOK
  BY <1>1, ArrayAssumption DEF TypeOK, Replies, NoReply, Reply
<1>5. KeysUnique /\ StoredBelowTotal
  BY <1>2 DEF KeysUnique, StoredBelowTotal
<1>6. ValueHasKey
  BY <1>2 DEF ValueHasKey, Valued
<1> QED
  BY <1>3, <1>4, <1>5, <1>6 DEF IInv

\* kvs_array_set keeps the invariant on each of its ways out.
LEMMA SetKeeps ==
  ASSUME IInv, NEW k \in Keys, NEW v \in Vals, kvs_array_set(k, v),
         status = "up", status' = status
  PROVE  IInv'
<1>0. status' \in {"up", "crashed", "destroyed"}
  BY DEF IInv, TypeOK
<1>1. CASE SetFull(k)
  BY <1>0, <1>1, TableKept DEF SetFull, Return, Reply, Replies, Ops
<1>2. CASE SetSame(k, v)
  BY <1>0, <1>2, TableKept DEF SetSame, Return, Reply, Replies, Ops
<1>3. CASE SetUpdate(k, v)
  BY <1>3, OverwriteKeeps DEF SetUpdate, IsFirst, Matching, Ops
<1>4. CASE SetInsert(k, v)
  <2>1. CASE \E i \in Scanned : IsFirst(i, Holes) /\ Store(i, k, v)
    <3>1. PICK i \in Scanned : table[i].key = NULL /\ Store(i, k, v)
      BY <2>1 DEF IsFirst, Holes
    <3>2. i \in Slots /\ i <= total
      BY ScannedSlots DEF Scanned, IInv, TypeOK
    <3>3. i \notin Stored
      BY <3>1, ArrayAssumption DEF Stored
    <3> QED
      BY <1>4, <3>1, <3>2, <3>3, StoreKeeps DEF SetInsert
  <2>2. CASE Store(total, k, v)
    <3>1. total \in Slots /\ total <= total
      BY <1>4, ArrayAssumption DEF SetInsert, IInv, TypeOK, Slots
    <3>2. total \notin Stored
      BY <3>1 DEF IInv, StoredBelowTotal, Slots
    <3> QED
      BY <1>4, <2>2, <3>1, <3>2, StoreKeeps DEF SetInsert
  <2> QED
    BY <1>4, <2>1, <2>2 DEF SetInsert
<1>5. CASE SetNoMemory(k)
  BY <1>0, <1>5, TableKept DEF SetNoMemory, Return, Reply, Replies, Ops
<1> QED
  BY <1>1, <1>2, <1>3, <1>4, <1>5 DEF kvs_array_set

\* The other calls.
LEMMA OtherCallsKeep ==
  ASSUME IInv, NEW k \in Keys, status = "up", status' = status,
         \/ kvs_array_get(k) \/ kvs_array_del(k) \/ kvs_array_exist(k)
         \/ \E v \in Vals : kvs_array_mod(k, v)
  PROVE  IInv'
<1>0. status' \in {"up", "crashed", "destroyed"}
  BY DEF IInv, TypeOK
<1>1. CASE kvs_array_get(k)
  <2>1. \A i \in Scanned : table[i].key = k => table[i].value \in Vals \cup {NULL}
    <3> SUFFICES ASSUME NEW i \in Scanned, table[i].key = k
                 PROVE  table[i].value \in Vals \cup {NULL}
      OBVIOUS
    <3>1. i \in Slots /\ table[i].value \in Vals \cup Words
      BY ScannedSlots
    <3>2. table[i].value # WILD
      BY <3>1 DEF IInv, ValueHasKey, Stored
    <3> QED
      BY <3>1, <3>2 DEF Words
  <2>2. reply' \in Replies
    BY <1>1, <2>1
       DEF kvs_array_get, IsFirst, Matching, Return, Reply, Replies, Ops
  <2> QED
    BY <1>0, <1>1, <2>2, TableKept DEF kvs_array_get
<1>2. CASE DelFound(k)
  BY <1>2, DelFoundKeeps
<1>3. CASE DelMissing(k)
  BY <1>0, <1>3, TableKept DEF DelMissing, Return, Reply, Replies, Ops
<1>4. ASSUME NEW v \in Vals, ModFound(k, v) PROVE IInv'
  BY <1>4, OverwriteKeeps DEF ModFound, IsFirst, Matching, Ops
<1>5. ASSUME NEW v \in Vals, ModMissing(k) PROVE IInv'
  BY <1>0, <1>5, TableKept DEF ModMissing, Return, Reply, Replies, Ops
<1>6. CASE kvs_array_exist(k)
  BY <1>0, <1>6, TableKept DEF kvs_array_exist, Return, Reply, Replies, Ops
<1> QED
  BY <1>1, <1>2, <1>3, <1>4, <1>5, <1>6 DEF kvs_array_del, kvs_array_mod

\* Every step of the engine keeps the invariant.
LEMMA NextIInv == IInv /\ [Next]_vars => IInv'
<1> SUFFICES ASSUME IInv, [Next]_vars PROVE IInv'
  OBVIOUS
<1>1. ASSUME NEW k \in Keys, status = "up", Call(k) PROVE IInv'
  BY <1>1, SetKeeps, OtherCallsKeep DEF Call
<1>2. ASSUME NEW k \in Keys, status = "up", Crash(k) PROVE IInv'
  BY <1>2, TableKept DEF Crash, IInv, TypeOK
<1>3. CASE kvs_array_destory
  BY <1>3, DestoryKeeps
<1>4. CASE UNCHANGED vars
  BY <1>4, TableKept DEF vars, IInv, TypeOK
<1> QED
  BY <1>1, <1>2, <1>3, <1>4 DEF Next

-----------------------------------------------------------------------------
\* The inductive invariant holds in every reachable state.
THEOREM Invariance == Spec => []IInv
BY InitIInv, NextIInv, PTL DEF Spec

\* Slots, counters and replies keep their types; in particular total never
\* leaves 0..SIZE, so no loop of kvs_array.c reads past the table.
THEOREM TypeCorrect == Spec => []TypeOK
<1>1. IInv => TypeOK
  BY DEF IInv
<1> QED
  BY <1>1, Invariance, PTL

\* A key sits in one slot only, and the loops reach it.
THEOREM KeysFound == Spec => [](KeysUnique /\ StoredBelowTotal)
<1>1. IInv => KeysUnique /\ StoredBelowTotal
  BY DEF IInv
<1> QED
  BY <1>1, Invariance, PTL

\* No call on a standing table leaks or double-frees a string: what the engine
\* holds is what the table points to, up to the kvs_array_destory that frees
\* the table and leaks all of it.
THEOREM HeapLedger == Spec => [](ValueHasKey /\ LedgerExact)
<1>1. IInv => ValueHasKey /\ LedgerExact
  BY DEF IInv
<1> QED
  BY <1>1, Invariance, PTL

-----------------------------------------------------------------------------
(* Where the crashes come from.  With a zeroed table and a kvs_malloc that *)
(* does not fail, no slot is ever met that the code must not dereference:  *)
(* the two assumptions are the only causes.                                *)

Healthy == FreshWords = {NULL} /\ ~MallocMayFail

NoBadWord ==
  /\ status = "up" => /\ \A i \in Slots : table[i].key # WILD
                      /\ \A i \in Stored : table[i].value # NULL
  /\ NeverCrashes

\* kvs_array_create leaves no wild word in a zeroed table.
LEMMA InitNoBadWord == Healthy /\ Init => NoBadWord
BY ArrayAssumption
   DEF Healthy, Init, kvs_array_create, NoBadWord, Stored, NeverCrashes

\* No call crashes from a state without bad words.
LEMMA NoCrash ==
  ASSUME IInv, NoBadWord, status = "up", NEW k \in Keys, Crash(k)
  PROVE  FALSE
<1>1. \A i \in Scanned : i \in Slots
  BY ScannedSlots
<1>2. ~ReadsWild(k)
  BY <1>1 DEF ReadsWild, NoBadWord
<1>3. ~SetCrash(k)
  BY <1>1, <1>2 DEF SetCrash, IsFirst, Matching, NoBadWord, Stored
<1> QED
  BY <1>2, <1>3 DEF Crash

\* With memory for every copy an update leaves a value behind.
LEMMA OverwriteNoBadWord ==
  ASSUME Healthy, IInv, NoBadWord, status = "up", NEW op \in Ops, NEW i \in Scanned,
         NEW v \in Vals, NEW failure \in {-4, -2},
         Overwrite(op, i, v, failure), UNCHANGED status
  PROVE  NoBadWord'
<1>1. table' = [table EXCEPT ![i].value = v]
  BY DEF Overwrite, kvs_malloc, Healthy
<1>2. /\ table \in [Slots -> [key : Keys \cup Words, value : Vals \cup Words]]
      /\ i \in Slots
  BY ScannedSlots DEF IInv, TypeOK
<1>3. /\ \A j \in Slots : table'[j].key = table[j].key
      /\ \A j \in Slots \ {i} : table'[j].value = table[j].value
      /\ table'[i].value = v
  BY <1>1, <1>2
<1>4. Stored' = Stored
  BY <1>3 DEF Stored
<1> QED
  BY <1>3, <1>4, ArrayAssumption DEF NoBadWord, NeverCrashes, Stored

\* With memory enough no call brings one in.
LEMMA NextNoBadWord ==
  Healthy /\ IInv /\ NoBadWord /\ [Next]_vars => NoBadWord'
<1> SUFFICES ASSUME Healthy, IInv, NoBadWord, [Next]_vars PROVE NoBadWord'
  OBVIOUS
<1>a. CASE UNCHANGED vars
  BY <1>a DEF vars, NoBadWord, NeverCrashes, Stored
<1>b. CASE kvs_array_destory
  BY <1>b DEF kvs_array_destory, NoBadWord, NeverCrashes
<1> SUFFICES ASSUME status = "up", \E k \in Keys : Call(k) \/ Crash(k) PROVE NoBadWord'
  BY <1>a, <1>b DEF Next
<1>0. ASSUME UNCHANGED table, status' # "crashed" PROVE NoBadWord'
  BY <1>0 DEF NoBadWord, Stored, NeverCrashes
<1>1. ASSUME NEW k \in Keys, NEW v \in Vals, kvs_array_set(k, v), status' = status
      PROVE  NoBadWord'
  <2>1. CASE SetFull(k) \/ SetSame(k, v) \/ SetNoMemory(k)
    BY <1>0, <1>1, <2>1 DEF SetFull, SetSame, SetNoMemory, NoBadWord, NeverCrashes
  <2>2. CASE SetUpdate(k, v)
    BY <1>1, <2>2, OverwriteNoBadWord DEF SetUpdate, Ops
  <2>3. CASE SetInsert(k, v)
    <3>1. PICK i \in Slots : table' = [table EXCEPT ![i] = [key |-> k, value |-> v]]
      <4>1. total # SIZE => total \in Slots
        BY ArrayAssumption DEF IInv, TypeOK, Slots
      <4> QED
        BY <2>3, <4>1, ScannedSlots DEF SetInsert, Store
    <3>2. \A j \in Slots : table'[j] = IF j = i THEN [key |-> k, value |-> v] ELSE table[j]
      BY <3>1 DEF IInv, TypeOK
    <3> QED
      BY <1>1, <3>2, ArrayAssumption DEF NoBadWord, Stored, NeverCrashes
  <2> QED
    BY <1>1, <2>1, <2>2, <2>3 DEF kvs_array_set
<1>2. ASSUME NEW k \in Keys, kvs_array_del(k), status' = status PROVE NoBadWord'
  <2>1. CASE DelMissing(k)
    BY <1>0, <1>2, <2>1 DEF DelMissing, NoBadWord, NeverCrashes
  <2>2. CASE DelFound(k)
    <3>1. PICK i \in Slots : table' = [table EXCEPT ![i] = [key |-> NULL, value |-> NULL]]
      BY <2>2, ScannedSlots DEF DelFound
    <3>2. \A j \in Slots : table'[j] = IF j = i THEN [key |-> NULL, value |-> NULL]
                                                ELSE table[j]
      BY <3>1 DEF IInv, TypeOK
    <3> QED
      BY <1>2, <3>2, ArrayAssumption DEF NoBadWord, Stored, NeverCrashes
  <2> QED
    BY <1>2, <2>1, <2>2 DEF kvs_array_del
<1>3. ASSUME NEW k \in Keys, NEW v \in Vals, kvs_array_mod(k, v), status' = status
      PROVE  NoBadWord'
  <2>1. CASE ModMissing(k)
    BY <1>0, <1>3, <2>1 DEF ModMissing, NoBadWord, NeverCrashes
  <2>2. CASE ModFound(k, v)
    BY <1>3, <2>2, OverwriteNoBadWord DEF ModFound, Ops
  <2> QED
    BY <1>3, <2>1, <2>2 DEF kvs_array_mod
<1>4. ASSUME NEW k \in Keys, Call(k) PROVE NoBadWord'
  <2>1. CASE kvs_array_get(k) \/ kvs_array_exist(k)
    BY <1>0, <1>4, <2>1
       DEF Call, kvs_array_get, kvs_array_exist, NoBadWord, NeverCrashes
  <2> QED
    BY <1>1, <1>2, <1>3, <1>4, <2>1 DEF Call
<1> QED
  BY <1>4, NoCrash

\* A zeroed table and memory enough: no call of the engine crashes.
THEOREM HealthyIsSafe == ASSUME Healthy PROVE Spec => []NeverCrashes
<1>1. Init => NoBadWord
  BY InitNoBadWord
<1>2. IInv /\ NoBadWord /\ [Next]_vars => NoBadWord'
  BY NextNoBadWord
<1>3. NoBadWord => NeverCrashes
  BY DEF NoBadWord
<1> QED
  BY <1>1, <1>2, <1>3, Invariance, PTL DEF Spec

-----------------------------------------------------------------------------
(* The engine implements the map.  A binding is a key with the value its    *)
(* slot points to, or with NULL after an update that found no memory.       *)

Holds(k, x) == \E i \in Stored : table[i].key = k /\ table[i].value = x

Shown(x) == IF x = NULL THEN <<"lost">> ELSE x

ContentsAreBindings ==
  \A k \in Keys :
    /\ status # "destroyed" =>
         \A x : Holds(k, x) => x \in Vals \cup {NULL} /\ Contents[k] = Shown(x)
    /\ status = "destroyed" \/ (\A x : ~Holds(k, x)) => Contents[k] = <<"absent">>

\* A key is in one slot, so what the table binds it to is one value.
LEMMA ContentsHold == IInv => ContentsAreBindings
<1> SUFFICES ASSUME IInv, NEW k \in Keys
             PROVE  /\ status # "destroyed" =>
                         \A x : Holds(k, x) => x \in Vals \cup {NULL} /\ Contents[k] = Shown(x)
                    /\ status = "destroyed" \/ (\A x : ~Holds(k, x)) => Contents[k] = <<"absent">>
  BY DEF ContentsAreBindings
<1> DEFINE at == CHOOSE i \in Stored : table[i].key = k
<1>1. Contents[k] = IF status = "destroyed" \/ \A i \in Stored : table[i].key # k THEN <<"absent">>
                    ELSE IF table[at].value = NULL THEN <<"lost">> ELSE table[at].value
  BY DEF Contents
<1>2. (\E i \in Stored : table[i].key = k) <=> \E x : Holds(k, x)
  BY DEF Holds
<1>3. ASSUME NEW x, Holds(k, x) PROVE x \in Vals \cup {NULL} /\ table[at].value = x
  <2>1. PICK i \in Stored : table[i].key = k /\ table[i].value = x
    BY <1>3 DEF Holds
  <2>2. at \in Stored /\ table[at].key = k
    BY <2>1
  <2>3. at = i
    BY <2>1, <2>2 DEF IInv, KeysUnique
  <2>4. i \in Slots /\ x \in Vals \cup Words /\ x # WILD
    BY <2>1 DEF IInv, TypeOK, ValueHasKey, Stored
  <2> QED
    BY <2>1, <2>3, <2>4 DEF Words
<1> HIDE DEF at
<1> QED
  BY <1>1, <1>2, <1>3 DEF Shown

\* What a step does to the bindings it does to the map.
LEMMA BindingsKept ==
  ASSUME IInv, IInv', NEW k \in Keys, status # "destroyed", status' # "destroyed",
         \A x : Holds(k, x)' <=> Holds(k, x)
  PROVE  Contents'[k] = Contents[k]
<1>1. ContentsAreBindings /\ ContentsAreBindings'
  BY ContentsHold, PTL
<1>2. CASE \E x : Holds(k, x)
  BY <1>1, <1>2 DEF ContentsAreBindings, Shown
<1>3. CASE \A x : ~Holds(k, x)
  BY <1>1, <1>3 DEF ContentsAreBindings
<1> QED
  BY <1>2, <1>3

\* Storing in a free slot binds one key and leaves the others bound.
LEMMA StoreBinds ==
  ASSUME IInv, NEW i \in Slots, i \notin Stored, NEW k \in Keys, NEW v \in Vals,
         table' = [table EXCEPT ![i] = [key |-> k, value |-> v]]
  PROVE  \A k2, x : Holds(k2, x)' <=> Holds(k2, x) \/ (k2 = k /\ x = v)
<1>1. \A j \in Slots : table'[j] = IF j = i THEN [key |-> k, value |-> v] ELSE table[j]
  BY DEF IInv, TypeOK
<1>2. Stored' = Stored \cup {i}
  BY <1>1 DEF Stored
<1>3. \A j \in Stored : j \in Slots /\ j # i
  BY DEF Stored
<1> QED
  BY <1>1, <1>2, <1>3 DEF Holds

\* Overwriting a value (kvs_array_mod) rebinds its key only.
LEMMA OverwriteBinds ==
  ASSUME IInv, NEW i \in Stored, NEW k \in Keys, table[i].key = k, NEW w,
         table' = [table EXCEPT ![i].value = w]
  PROVE  \A k2, x : Holds(k2, x)' <=> IF k2 = k THEN x = w ELSE Holds(k2, x)
<1>1. \A j \in Stored : j \in Slots
  BY DEF Stored
<1>2. /\ \A j \in Slots : table'[j].key = table[j].key
      /\ \A j \in Slots \ {i} : table'[j].value = table[j].value
      /\ table'[i].value = w
  BY <1>1 DEF IInv, TypeOK
<1>3. Stored' = Stored
  BY <1>2 DEF Stored
<1>4. \A j \in Stored : table[j].key = k <=> j = i
  BY DEF IInv, KeysUnique
<1> QED
  BY <1>1, <1>2, <1>3, <1>4 DEF Holds

\* Emptying a slot (kvs_array_del) unbinds its key only.
LEMMA DelUnbinds ==
  ASSUME IInv, NEW i \in Stored, NEW k \in Keys, table[i].key = k,
         table' = [table EXCEPT ![i] = [key |-> NULL, value |-> NULL]]
  PROVE  \A k2, x : Holds(k2, x)' <=> Holds(k2, x) /\ k2 # k
<1>1. \A j \in Stored : j \in Slots
  BY DEF Stored
<1>2. \A j \in Slots : table'[j] = IF j = i THEN [key |-> NULL, value |-> NULL] ELSE table[j]
  BY <1>1 DEF IInv, TypeOK
<1>3. Stored' = Stored \ {i}
  BY <1>2, ArrayAssumption DEF Stored
<1>4. \A j \in Stored : table[j].key = k <=> j = i
  BY DEF IInv, KeysUnique
<1> QED
  BY <1>1, <1>2, <1>3, <1>4 DEF Holds

-----------------------------------------------------------------------------
(* The map changes at one key, or not at all *)

BindsEveryKey == Contents = [k \in Keys |-> Contents[k]]

\* What the table binds is a function on all keys.
LEMMA ContentsIsMap == BindsEveryKey
BY DEF BindsEveryKey, Contents

\* A call that leaves the table alone leaves the map alone.
LEMMA ContentsKept ==
  ASSUME IInv, IInv', UNCHANGED table, status # "destroyed", status' # "destroyed"
  PROVE  Contents' = Contents
<1>1. \A k \in Keys : \A x : Holds(k, x)' <=> Holds(k, x)
  BY DEF Holds, Stored
<1>2. \A k \in Keys : Contents'[k] = Contents[k]
  BY <1>1, BindingsKept
<1>3. BindsEveryKey /\ BindsEveryKey'
  BY ContentsIsMap, PTL
<1> QED
  BY <1>2, <1>3 DEF BindsEveryKey

\* A call that rebinds one key changes the map at that key.
LEMMA OneKeyBound ==
  ASSUME IInv, IInv', status = "up", status' = "up", NEW k \in Keys, NEW w,
         \A k2 \in Keys : \A x : Holds(k2, x)' <=> IF k2 = k THEN x = w ELSE Holds(k2, x)
  PROVE  Contents' = [Contents EXCEPT ![k] = Shown(w)]
<1>1. \A k2 \in Keys \ {k} : Contents'[k2] = Contents[k2]
  BY BindingsKept
<1>2. ContentsAreBindings' /\ BindsEveryKey /\ BindsEveryKey'
  BY ContentsHold, ContentsIsMap, PTL
<1>3. Contents'[k] = Shown(w)
  BY <1>2 DEF ContentsAreBindings, Shown
<1> QED
  BY <1>1, <1>2, <1>3, SameMap DEF BindsEveryKey

\* A call that unbinds one key makes it absent from the map.
LEMMA OneKeyUnbound ==
  ASSUME IInv, IInv', status = "up", status' = "up", NEW k \in Keys,
         \A k2 \in Keys : \A x : Holds(k2, x)' <=> Holds(k2, x) /\ k2 # k
  PROVE  Contents' = [Contents EXCEPT ![k] = <<"absent">>]
<1>1. \A k2 \in Keys \ {k} : Contents'[k2] = Contents[k2]
  BY BindingsKept
<1>2. ContentsAreBindings' /\ BindsEveryKey /\ BindsEveryKey'
  BY ContentsHold, ContentsIsMap, PTL
<1>3. Contents'[k] = <<"absent">>
  BY <1>2 DEF ContentsAreBindings
<1> QED
  BY <1>1, <1>2, <1>3, SameMap DEF BindsEveryKey

\* A scan finds the slot of a key, and a key that it does not find has none.
LEMMA Found ==
  ASSUME IInv, status = "up", NEW k \in Keys, NEW i \in Scanned, table[i].key = k
  PROVE  /\ i \in Stored
         /\ table[i].value \in Vals \cup {NULL}
         /\ Contents[k] = Shown(table[i].value)
<1>1. i \in Stored
  BY ScannedSlots DEF Stored
<1>2. Holds(k, table[i].value)
  BY <1>1 DEF Holds
<1> QED
  BY <1>1, <1>2, ContentsHold DEF ContentsAreBindings

\* A key the loops do not find is absent from the map.
LEMMA NotFound ==
  ASSUME IInv, NEW k \in Keys, Matching(k) = {}
  PROVE  Contents[k] = <<"absent">> /\ \A x : ~Holds(k, x)
<1>1. ASSUME NEW i \in Stored, table[i].key = k PROVE FALSE
  <2>1. i \in Slots /\ i < total
    BY DEF IInv, StoredBelowTotal, Stored
  <2>2. i \in Scanned
    BY <2>1, ArrayAssumption DEF Scanned, Slots, IInv, TypeOK
  <2> QED
    BY <1>1, <2>2 DEF Matching
<1>2. \A x : ~Holds(k, x)
  BY <1>1 DEF Holds
<1> QED
  BY <1>2, ContentsHold DEF ContentsAreBindings

-----------------------------------------------------------------------------
(* Each call is a step of the map *)

\* An update binds the key anew, or loses its value where memory may fail.
LEMMA OverwriteRefines ==
  ASSUME IInv, IInv', status = "up", status' = "up", NEW k \in Keys, NEW v \in Vals,
         NEW op \in {"SET", "MOD"}, NEW failure \in {-4, -2},
         NEW i \in Scanned, table[i].key = k, Overwrite(op, i, v, failure)
  PROVE  \/ /\ Map!Answers(op, k, "ok")
            /\ Contents' = [Contents EXCEPT ![k] = v]
         \/ Map!Refuse(op, k)
<1>1. i \in Stored /\ Contents[k] # <<"absent">>
  BY Found, ArrayAssumption DEF Shown
<1>2. PICK ok \in kvs_malloc :
        /\ table' = [table EXCEPT ![i].value = IF ok THEN v ELSE NULL]
        /\ reply' = Reply(op, k, IF ok THEN 0 ELSE failure, NULL)
  BY DEF Overwrite, Return
<1>3. Contents' = [Contents EXCEPT ![k] = Shown(IF ok THEN v ELSE NULL)]
  <2> DEFINE w == IF ok THEN v ELSE NULL
  <2>1. table' = [table EXCEPT ![i].value = w]
    BY <1>2
  <2> HIDE DEF w
  <2>2. \A k2 \in Keys : \A x : Holds(k2, x)' <=> IF k2 = k THEN x = w ELSE Holds(k2, x)
    BY ZenonT(60), <1>1, <2>1, OverwriteBinds
  <2>3. Contents' = [Contents EXCEPT ![k] = Shown(w)]
    BY <2>2, OneKeyBound
  <2> QED
    BY <2>3 DEF w
<1>4. CASE ok
  <2>1. OutcomeOf(reply') = <<op, k, "ok">>
    BY <1>2, <1>4, Outcomes DEF Ops
  <2>2. Contents' = [Contents EXCEPT ![k] = v]
    BY <1>3, <1>4, ArrayAssumption DEF Shown
  <2> QED
    BY <2>1, <2>2 DEF Map!Answers
<1>5. CASE ~ok
  <2>1. OutcomeOf(reply') = <<op, k, "error">>
    BY <1>2, <1>5, Outcomes DEF Ops
  <2>2. Contents' = [Contents EXCEPT ![k] = <<"lost">>]
    BY <1>3, <1>5 DEF Shown
  <2>3. MallocMayFail
    BY <1>2, <1>5 DEF kvs_malloc
  <2> QED
    BY <1>1, <2>1, <2>2, <2>3 DEF Map!Refuse, Map!Answers
<1> QED
  BY <1>4, <1>5

\* Both places where kvs_array_set stores are a Set of the map.
LEMMA StoreRefines ==
  ASSUME IInv, IInv', status = "up", status' = "up", NEW k \in Keys, NEW v \in Vals,
         NEW i \in Slots, i \notin Stored, Matching(k) = {}, Store(i, k, v)
  PROVE  Map!Set(k, v)
<1>1. OutcomeOf(reply') = <<"SET", k, "ok">>
  BY Outcomes DEF Store, Return, Ops
<1>2. \A x : ~Holds(k, x)
  BY NotFound
<1>3. \A k2 \in Keys : \A x : Holds(k2, x)' <=> IF k2 = k THEN x = v ELSE Holds(k2, x)
  <2>1. table' = [table EXCEPT ![i] = [key |-> k, value |-> v]]
    BY DEF Store
  <2>2. \A k2, x : Holds(k2, x)' <=> Holds(k2, x) \/ (k2 = k /\ x = v)
    BY <2>1, StoreBinds
  <2> QED
    BY <1>2, <2>2
<1>4. Contents' = [Contents EXCEPT ![k] = v]
  <2>1. Contents' = [Contents EXCEPT ![k] = Shown(v)]
    BY <1>3, OneKeyBound
  <2> QED
    BY <2>1, ArrayAssumption DEF Shown
<1>5. Contents[k] # v
  BY NotFound, ArrayAssumption
<1> QED
  BY <1>1, <1>4, <1>5 DEF Map!Set, Map!Answers

\* Each way out of kvs_array_set is a Set of the map.
LEMMA SetRefines ==
  ASSUME IInv, IInv', status = "up", status' = "up", NEW k \in Keys, NEW v \in Vals,
         kvs_array_set(k, v)
  PROVE  Map!Set(k, v)
<1>1. CASE SetFull(k) \/ SetNoMemory(k)
  <2>1. PICK ret \in {-2, -3, -4} : reply' = Reply("SET", k, ret, NULL)
    BY <1>1 DEF SetFull, SetNoMemory, Return
  <2>2. OutcomeOf(reply') = <<"SET", k, "error">>
    BY <2>1, Outcomes DEF Ops
  <2>3. Contents' = Contents
    BY <1>1, ContentsKept DEF SetFull, SetNoMemory
  <2> QED
    BY <2>2, <2>3 DEF Map!Set, Map!Refuse, Map!Answers
<1>2. CASE SetSame(k, v)
  <2>1. OutcomeOf(reply') = <<"SET", k, "same">>
    BY <1>2, Outcomes DEF SetSame, Return, Ops
  <2>2. PICK i \in Scanned : table[i].key = k /\ table[i].value = v
    BY <1>2 DEF SetSame, IsFirst, Matching
  <2>3. Contents' = Contents
    BY <1>2, ContentsKept DEF SetSame
  <2>4. Contents[k] = v
    BY <2>2, Found, ArrayAssumption DEF Shown
  <2> QED
    BY <2>1, <2>3, <2>4 DEF Map!Set, Map!Answers
<1>3. CASE SetUpdate(k, v)
  <2>1. PICK i \in Scanned : /\ table[i].key = k
                             /\ table[i].value \notin {v, NULL}
                             /\ Overwrite("SET", i, v, -4)
    BY <1>3 DEF SetUpdate, IsFirst, Matching
  <2>2. Contents[k] # v
    BY <2>1, Found DEF Shown
  <2> QED
    BY <2>1, <2>2, OverwriteRefines DEF Map!Set
<1>4. CASE SetInsert(k, v)
  <2>1. CASE \E i \in Scanned : IsFirst(i, Holes) /\ Store(i, k, v)
    <3>1. PICK i \in Scanned : table[i].key = NULL /\ Store(i, k, v)
      BY <2>1 DEF IsFirst, Holes
    <3>2. i \in Slots /\ i \notin Stored
      BY <3>1, ScannedSlots, ArrayAssumption DEF Stored
    <3> QED
      BY <1>4, <3>1, <3>2, StoreRefines DEF SetInsert
  <2>2. CASE Store(total, k, v)
    <3>1. total \in Slots
      BY <1>4, ArrayAssumption DEF SetInsert, IInv, TypeOK, Slots
    <3>2. total \notin Stored
      BY <3>1 DEF IInv, StoredBelowTotal, Slots
    <3> QED
      BY <1>4, <2>2, <3>1, <3>2, StoreRefines DEF SetInsert
  <2> QED
    BY <1>4, <2>1, <2>2 DEF SetInsert
<1> QED
  BY <1>1, <1>2, <1>3, <1>4 DEF kvs_array_set

\* kvs_array_mod is a Mod of the map.
LEMMA ModRefines ==
  ASSUME IInv, IInv', status = "up", status' = "up", NEW k \in Keys, NEW v \in Vals,
         kvs_array_mod(k, v)
  PROVE  Map!Mod(k, v)
<1>1. CASE ModFound(k, v)
  <2>1. PICK i \in Scanned : table[i].key = k /\ Overwrite("MOD", i, v, -2)
    BY <1>1 DEF ModFound, IsFirst, Matching
  <2>2. Contents[k] # <<"absent">>
    BY <2>1, Found, ArrayAssumption DEF Shown
  <2> QED
    BY <2>1, <2>2, OverwriteRefines DEF Map!Mod
<1>2. CASE ModMissing(k)
  <2>1. OutcomeOf(reply') = <<"MOD", k, "nokey">>
    BY <1>2, Outcomes DEF ModMissing, Return, Ops
  <2>2. Contents' = Contents /\ Contents[k] = <<"absent">>
    BY <1>2, ContentsKept, NotFound DEF ModMissing
  <2> QED
    BY <2>1, <2>2 DEF Map!Mod, Map!Answers
<1> QED
  BY <1>1, <1>2 DEF kvs_array_mod

\* kvs_array_get is a Get of the map.
LEMMA GetRefines ==
  ASSUME IInv, IInv', status = "up", status' = "up", NEW k \in Keys, kvs_array_get(k)
  PROVE  Map!Get(k)
<1>1. Contents' = Contents
  BY ContentsKept DEF kvs_array_get
<1>2. CASE Matching(k) = {} /\ Return("GET", k, 0, NULL)
  <2>1. OutcomeOf(reply') = <<"GET", k, "nokey">>
    BY <1>2, Outcomes DEF Return, Ops
  <2>2. Contents[k] = <<"absent">>
    BY <1>2, NotFound
  <2> QED
    BY <1>1, <2>1, <2>2, ArrayAssumption DEF Map!Get, Map!Answers
<1>3. ASSUME NEW i \in Scanned, IsFirst(i, Matching(k)), Return("GET", k, 0, table[i].value)
      PROVE  Map!Get(k)
  <2>1. /\ table[i].value \in Vals \cup {NULL}
        /\ Contents[k] = Shown(table[i].value)
    BY <1>3, Found DEF IsFirst, Matching
  <2>2. OutcomeOf(reply') =
          <<"GET", k, IF table[i].value = NULL THEN "nokey" ELSE table[i].value>>
    BY <1>3, Outcomes DEF Return, Ops
  <2>3. OutcomeOf(reply') = <<"GET", k, IF Contents[k] \in Vals THEN Contents[k] ELSE "nokey">>
    BY <2>1, <2>2, ArrayAssumption DEF Shown
  <2> QED
    BY <1>1, <2>3 DEF Map!Get, Map!Answers
<1> QED
  BY <1>2, <1>3 DEF kvs_array_get

\* Each way out of kvs_array_del is a Del of the map.
LEMMA DelRefines ==
  ASSUME IInv, IInv', status = "up", status' = "up", NEW k \in Keys, kvs_array_del(k)
  PROVE  Map!Del(k)
<1>1. CASE DelMissing(k)
  <2>1. OutcomeOf(reply') = <<"DEL", k, "nokey">>
    BY <1>1, Outcomes DEF DelMissing, Return, Ops
  <2>2. Contents' = Contents /\ Contents[k] = <<"absent">>
    BY <1>1, ContentsKept, NotFound DEF DelMissing
  <2> QED
    BY <2>1, <2>2 DEF Map!Del, Map!Answers
<1>2. CASE DelFound(k)
  <2>1. PICK i \in Scanned : /\ table[i].key = k
                             /\ table' = [table EXCEPT ![i] = [key |-> NULL, value |-> NULL]]
    BY <1>2 DEF DelFound, IsFirst, Matching
  <2>2. OutcomeOf(reply') = <<"DEL", k, "ok">>
    BY <1>2, Outcomes DEF DelFound, Return, Ops
  <2>3. i \in Stored /\ Contents[k] # <<"absent">>
    BY <2>1, Found, ArrayAssumption DEF Shown
  <2>4. Contents' = [Contents EXCEPT ![k] = <<"absent">>]
    BY <2>1, <2>3, DelUnbinds, OneKeyUnbound
  <2> QED
    BY <2>2, <2>3, <2>4 DEF Map!Del, Map!Answers
<1> QED
  BY <1>1, <1>2 DEF kvs_array_del

\* A scan that has something to find finds a first slot.
LEMMA FirstExists ==
  ASSUME IInv, NEW k \in Keys, Matching(k) # {}
  PROVE  \E i \in Scanned : IsFirst(i, Matching(k))
<1>1. PICK i \in Scanned : table[i].key = k
  BY DEF Matching
<1>2. ASSUME NEW j \in Scanned, table[j].key = k PROVE j = i
  <2>1. i \in Stored /\ j \in Stored
    BY <1>1, <1>2, ScannedSlots DEF Stored
  <2> QED
    BY <1>1, <1>2, <2>1 DEF IInv, KeysUnique
<1>3. i \in Int
  BY ScannedSlots
<1> QED
  BY <1>1, <1>2, <1>3 DEF IsFirst, Matching

\* kvs_array_exist is an Exist of the map.
LEMMA ExistRefines ==
  ASSUME IInv, IInv', status = "up", status' = "up", NEW k \in Keys, kvs_array_exist(k)
  PROVE  Map!Exist(k)
<1>1. Contents' = Contents
  BY ContentsKept DEF kvs_array_exist
<1> DEFINE found == \E i \in Scanned : IsFirst(i, Matching(k)) /\ table[i].value # NULL
<1>2. CASE found
  <2>1. OutcomeOf(reply') = <<"EXIST", k, "ok">>
    BY <1>2, Outcomes DEF kvs_array_exist, Return, Ops
  <2>2. Contents[k] # <<"absent">>
    BY <1>2, Found, ArrayAssumption DEF IsFirst, Matching, Shown
  <2> QED
    BY <1>1, <2>1, <2>2 DEF Map!Exist, Map!Answers
<1>3. CASE ~found
  <2>1. OutcomeOf(reply') = <<"EXIST", k, "nokey">>
    BY <1>3, Outcomes DEF kvs_array_exist, Return, Ops
  <2>2. Contents[k] \notin Vals
    <3>1. CASE Matching(k) = {}
      BY <3>1, NotFound, ArrayAssumption
    <3>2. CASE Matching(k) # {}
      <4>1. PICK i \in Scanned : IsFirst(i, Matching(k))
        BY <3>2, FirstExists
      <4> QED
        BY <1>3, <4>1, Found, ArrayAssumption DEF IsFirst, Matching, Shown
    <3> QED
      BY <3>1, <3>2
  <2> QED
    BY <1>1, <2>1, <2>2 DEF Map!Exist, Map!Answers
<1> QED
  BY <1>2, <1>3

\* The engine starts as the map does.
LEMMA InitRefines == Init => Map!Init
<1> SUFFICES ASSUME Init PROVE Map!Init
  OBVIOUS
<1>1. Stored = {}
  BY ArrayAssumption DEF Init, kvs_array_create, Stored
<1>2. Contents = [k \in Keys |-> <<"absent">>]
  BY <1>1 DEF Contents
<1>3. OutcomeOf(reply) = <<>>
  BY DEF Init, kvs_array_create, NoReply, Reply, OutcomeOf
<1> QED
  BY <1>2, <1>3 DEF Map!Init

\* Each call of the engine is a call of the map, or is not seen there.
LEMMA NextRefines == IInv /\ IInv' /\ [Next]_vars => [Map!Next]_(Map!vars)
<1> SUFFICES ASSUME IInv, IInv', [Next]_vars PROVE [Map!Next]_(Map!vars)
  OBVIOUS
<1>1. ASSUME status = "up", NEW k \in Keys, Call(k) PROVE Map!Next
  <2>1. status' = "up"
    BY <1>1 DEF Call
  <2> QED
    BY <1>1, <2>1, SetRefines, ModRefines, GetRefines, DelRefines, ExistRefines
       DEF Call, Map!Next
<1>2. ASSUME status = "up", NEW k \in Keys, Crash(k) PROVE UNCHANGED Map!vars
  BY <1>2, ContentsKept DEF Crash, Map!vars
<1>3. CASE kvs_array_destory
  <2>1. Contents' = [k \in Keys |-> <<"absent">>] /\ UNCHANGED reply
    BY <1>3 DEF kvs_array_destory, Contents
  <2> QED
    BY <2>1 DEF Map!Next, Map!Clear
<1>4. CASE UNCHANGED vars
  BY <1>4 DEF vars, Map!vars, Contents, Stored
<1> QED
  BY <1>1, <1>2, <1>3, <1>4 DEF Next

\* Every behaviour of the engine is one of the map, whatever the fresh table
\* held: replies and contents agree, a call that fails otherwise than by an update
\* without memory changes nothing, and with memory enough no value is ever lost.
THEOREM ArrayImplementsMap == Spec => ImplementsMap
BY InitRefines, NextRefines, Invariance, PTL DEF Spec, ImplementsMap, Map!Spec
=============================================================================
