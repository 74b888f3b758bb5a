------------------------------ MODULE KvsHash ------------------------------
(***************************************************************************)
(* The hash engine of zzx_kvstore (kvs_hash.c): SLOTS chains of nodes, each *)
(* node with two strings of its own, and a count of the nodes.  A chain is *)
(* the sequence of its nodes from the head.  The table of 102400 pointers  *)
(* is never cleared; a block of that size comes from malloc as fresh pages, *)
(* so it starts out zero all the same.                                     *)
(***************************************************************************)
EXTENDS KVReply, FiniteSets, SequencesExt

CONSTANTS
  SLOTS,          \* MAX_TABLE_SIZE, which is also the limit on count
  CharSum,        \* key -> sum of its bytes as signed chars
  MallocMayFail,  \* TRUE: kvs_malloc may return NULL
  MaxBlocks       \* bound of the model: blocks the heap may hold

ASSUME HashAssumption ==
  /\ SLOTS \in Nat \ {0}
  /\ CharSum \in [Keys -> Int]
  /\ MallocMayFail \in BOOLEAN
  /\ MaxBlocks \in Nat
  /\ NULL \notin Keys \cup Vals
  /\ <<"absent">> \notin Vals   \* what Contents says of a key without a node

VARIABLES
  nodes,     \* hash->nodes: bucket -> chain of [key, value]
  count,     \* hash->count
  blocks,    \* heap blocks taken for nodes, keys and values and not freed
  status,    \* "up", "crashed", "destroyed"
  reply      \* what the last call returned

vars == <<nodes, count, blocks, status, reply>>

Buckets == 0..(SLOTS - 1)
Node(k, v) == [key |-> k, value |-> v]

Return(op, k, ret, val) == reply' = Reply(op, k, ret, val)

\* C's % truncates towards zero: a key whose bytes sum to a negative number
\* (UTF-8 text, where char is signed) has a hash in -(SLOTS-1)..0.
hash_mod(sum, size) == IF sum >= 0 THEN sum % size ELSE -((-sum) % size)
hash(k) == hash_mod(CharSum[k], SLOTS)

kvs_malloc == IF MallocMayFail THEN BOOLEAN ELSE {TRUE}
Room(n)    == blocks + n <= MaxBlocks

Chain(k)     == nodes[hash(k)]
IsAt(i, k)   == i \in DOMAIN Chain(k) /\ Chain(k)[i].key = k
InChain(k)   == \E i \in DOMAIN Chain(k) : Chain(k)[i].key = k

kvs_hash_create ==
  /\ nodes = [b \in Buckets |-> <<>>]
  /\ count = 0
  /\ blocks = 0
  /\ status = "up"
  /\ reply = NoReply

\* The calls that find the hash negative and give up.
Reject(op, k, ret) ==
  /\ hash(k) < 0
  /\ Return(op, k, ret, NULL)
  /\ UNCHANGED <<nodes, count, blocks>>

Missing(op, k, ret) ==
  /\ hash(k) >= 0
  /\ ~InChain(k)
  /\ Return(op, k, ret, NULL)
  /\ UNCHANGED <<nodes, count, blocks>>

\* The new value is allocated before the old one is freed.
Replace(op, k, v) ==
  \/ /\ \E i \in DOMAIN Chain(k) :
          IsAt(i, k) /\ nodes' = [nodes EXCEPT ![hash(k)][i].value = v]
     /\ Return(op, k, 0, NULL)
     /\ UNCHANGED <<count, blocks>>
  \/ /\ FALSE \in kvs_malloc
     /\ InChain(k)
     /\ Return(op, k, -4, NULL)
     /\ UNCHANGED <<nodes, count, blocks>>

-----------------------------------------------------------------------------
(* kvs_hash_set *)

SetFull(k) ==
  /\ count >= SLOTS
  /\ Return("SET", k, -2, NULL)
  /\ UNCHANGED <<nodes, count, blocks>>

SetSame(k, v) ==
  /\ count < SLOTS /\ hash(k) >= 0
  /\ \E i \in DOMAIN Chain(k) : IsAt(i, k) /\ Chain(k)[i].value = v
  /\ Return("SET", k, 1, NULL)
  /\ UNCHANGED <<nodes, count, blocks>>

SetUpdate(k, v) ==
  /\ count < SLOTS /\ hash(k) >= 0
  /\ \E i \in DOMAIN Chain(k) : IsAt(i, k) /\ Chain(k)[i].value # v
  /\ Replace("SET", k, v)

SetInsert(k, v) ==
  /\ count < SLOTS /\ hash(k) >= 0
  /\ ~InChain(k)
  /\ Room(3)
  /\ nodes' = [nodes EXCEPT ![hash(k)] = <<Node(k, v)>> \o @]
  /\ count' = count + 1
  /\ blocks' = blocks + 3
  /\ Return("SET", k, 0, NULL)

\* _create_node fails: 0 blocks stay behind when the node itself got no
\* memory, the node when its key got none, node and key when its value did.
SetNoMemory(k) ==
  /\ count < SLOTS /\ hash(k) >= 0
  /\ ~InChain(k)
  /\ FALSE \in kvs_malloc
  /\ \E stranded \in 0..2 : Room(stranded) /\ blocks' = blocks + stranded
  /\ Return("SET", k, -3, NULL)
  /\ UNCHANGED <<nodes, count>>

kvs_hash_set(k, v) ==
  \/ SetFull(k)
  \/ count < SLOTS /\ Reject("SET", k, -1)
  \/ SetSame(k, v) \/ SetUpdate(k, v) \/ SetInsert(k, v) \/ SetNoMemory(k)

-----------------------------------------------------------------------------
kvs_hash_get(k) ==
  \/ Reject("GET", k, 0)
  \/ Missing("GET", k, 0)
  \/ /\ hash(k) >= 0
     /\ \E i \in DOMAIN Chain(k) :
          IsAt(i, k) /\ Return("GET", k, 0, Chain(k)[i].value)
     /\ UNCHANGED <<nodes, count, blocks>>

kvs_hash_mod(k, v) ==
  \/ Reject("MOD", k, -1)
  \/ Missing("MOD", k, 1)
  \/ hash(k) >= 0 /\ Replace("MOD", k, v)

\* Mutant: the count is lowered for a node inside the chain only.
DelFound_HeadUncounted(k) ==
  /\ hash(k) >= 0
  /\ \E i \in DOMAIN Chain(k) :
       /\ IsAt(i, k)
       /\ nodes' = [nodes EXCEPT ![hash(k)] = RemoveAt(@, i)]
       /\ blocks' = blocks - (IF i = 1 THEN 1 ELSE 3)
       /\ count' = IF i = 1 THEN count ELSE count - 1
  /\ Return("DEL", k, 0, NULL)

\* Mutant: the head takes the rest of its chain with it.
DelFound_DropsChain(k) ==
  /\ hash(k) >= 0
  /\ \E i \in DOMAIN Chain(k) :
       /\ IsAt(i, k)
       /\ nodes' = [nodes EXCEPT ![hash(k)] = IF i = 1 THEN <<>> ELSE RemoveAt(@, i)]
       /\ blocks' = blocks - (IF i = 1 THEN 1 ELSE 3)
       /\ count' = count - 1
  /\ Return("DEL", k, 0, NULL)

\* The head of a chain is freed without its two strings; a node further down
\* is freed with them.
DelFound(k) ==
  /\ hash(k) >= 0
  /\ \E i \in DOMAIN Chain(k) :
       /\ IsAt(i, k)
       /\ nodes' = [nodes EXCEPT ![hash(k)] = RemoveAt(@, i)]
       /\ blocks' = blocks - (IF i = 1 THEN 1 ELSE 3)
       /\ count' = count - 1
  /\ Return("DEL", k, 0, NULL)

\* kvs_hash_del does not test its index: nodes[-n] is a word before the
\* table.  The word may be zero (the key is reported missing) or garbage.
DelOutside(k) ==
  /\ hash(k) < 0
  /\ Return("DEL", k, 1, NULL)
  /\ UNCHANGED <<nodes, count, blocks>>

kvs_hash_del(k) == DelFound(k) \/ Missing("DEL", k, 1) \/ DelOutside(k)

DelCrash(k) ==
  /\ hash(k) < 0
  /\ status' = "crashed"
  /\ UNCHANGED <<nodes, count, blocks, reply>>

kvs_hash_exist(k) ==
  /\ Return("EXIST", k, IF hash(k) >= 0 /\ InChain(k) THEN 0 ELSE 1, NULL)
  /\ UNCHANGED <<nodes, count, blocks>>

Nodes == UNION {{<<b, i>> : i \in DOMAIN nodes[b]} : b \in Buckets}

\* Every node is freed and none of the strings; count keeps its value.
kvs_hash_destory ==
  /\ nodes' = [b \in Buckets |-> <<>>]
  /\ blocks' = blocks - Cardinality(Nodes)
  /\ status' = "destroyed"
  /\ UNCHANGED <<count, reply>>

Call(k) ==
  /\ \/ \E v \in Vals : kvs_hash_set(k, v) \/ kvs_hash_mod(k, v)
     \/ kvs_hash_get(k) \/ kvs_hash_del(k) \/ kvs_hash_exist(k)
  /\ UNCHANGED status

Next ==
  /\ status = "up"
  /\ (\E k \in Keys : Call(k) \/ DelCrash(k)) \/ kvs_hash_destory

Init == kvs_hash_create

Spec == Init /\ [][Next]_vars

-----------------------------------------------------------------------------
\* Chains, count, ledger and reply keep their types.
TypeOK ==
  /\ \A b \in Buckets : nodes[b] \in Seq([key : Keys, value : Vals])
  /\ count \in 0..SLOTS
  /\ blocks \in 0..MaxBlocks
  /\ status \in {"up", "crashed", "destroyed"}
  /\ reply \in Replies

\* Every node hangs in the chain its key hashes to, at most once, so that a
\* search that follows one chain is a search of the table.
InItsChain ==
  \A b \in Buckets : \A i, j \in DOMAIN nodes[b] :
    /\ hash(nodes[b][i].key) = b
    /\ nodes[b][i].key = nodes[b][j].key => i = j

\* count, on which kvs_hash_set decides that the table is full, is the number
\* of nodes.
CountExact == status = "up" => count = Cardinality(Nodes)

\* No block that a chain still reaches has been freed.
NothingFreedEarly == blocks >= 3 * Cardinality(Nodes)

\* kvs_hash.c:333 - kvs_hash_del answers 1 for a key that is not in the table.
DelAnswers == status # "crashed"

\* Whatever the order of insertions, deletions and failed allocations: every key is in
\* its own chain and once, count is what the chains hold, and no block that can still
\* be reached was freed (kvs_hash.c:28-62, 208-222, 336-392).
ChainsSound == TypeOK /\ InItsChain /\ CountExact /\ NothingFreedEarly

-----------------------------------------------------------------------------
(* The map the engine stands for; it is strict: a refused call changes nothing *)

Bound(k)  == hash(k) >= 0 /\ InChain(k)
Contents ==
  [k \in Keys |-> IF status = "destroyed" \/ ~Bound(k) THEN <<"absent">>
                  ELSE Chain(k)[CHOOSE i \in DOMAIN Chain(k) : IsAt(i, k)].value]

Map == INSTANCE KVMap WITH
  dict <- Contents, answer <- OutcomeOf(reply),
  Absent <- <<"absent">>, Lost <- <<"lost">>, LossyFailure <- FALSE

\* While it is up the engine implements the strict map, with allocation
\* failures and unhashable keys included.
ImplementsMap == Map!Spec
=============================================================================
