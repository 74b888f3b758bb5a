--------------------------- MODULE KvsHash_proofs ---------------------------
(***************************************************************************)
(* Proofs about the hash engine, for every number of buckets, every set of *)
(* keys and values, every hash of the keys, negative ones included, and    *)
(* with or without failing allocations: the chains are sound, and the      *)
(* engine implements the strict map KVMap.                                 *)
(***************************************************************************)
EXTENDS KvsHash, FiniteSetTheorems, SequenceTheorems, TLAPS

NodeType == [key : Keys, value : Vals]

\* What ChainsSound needs to be inductive: the table is a function from its
\* buckets, and it has finitely many nodes, so that they can be counted.
IInv ==
  /\ ChainsSound
  /\ nodes \in [Buckets -> Seq(NodeType)]
  /\ IsFiniteSet(Nodes)

-----------------------------------------------------------------------------
(* Replies and maps *)

\* What kvs_protocol_filter makes of a reply.
LEMMA Outcomes ==
  ASSUME NEW op \in Ops, NEW k, NEW val
  PROVE  /\ \A ret \in -4..-1 : OutcomeOf(Reply(op, k, ret, val)) = <<op, k, "error">>
         /\ OutcomeOf(Reply(op, k, 1, val)) = <<op, k, IF op = "SET" THEN "same" ELSE "nokey">>
         /\ OutcomeOf(Reply(op, k, 0, val)) =
              <<op, k, IF op = "GET" THEN IF val = NULL THEN "nokey" ELSE val ELSE "ok">>
<1>1. op # "NONE"
  BY DEF Ops
<1>2. ASSUME NEW r, r.op = op, r.key = k, r.val = val
      PROVE  /\ r.ret \in -4..-1 => OutcomeOf(r) = <<op, k, "error">>
             /\ r.ret = 1 => OutcomeOf(r) = <<op, k, IF op = "SET" THEN "same" ELSE "nokey">>
             /\ r.ret = 0 => OutcomeOf(r) =
                  <<op, k, IF op = "GET" THEN IF val = NULL THEN "nokey" ELSE val ELSE "ok">>
  <2>1. CASE r.ret \in -4..-1
    BY <1>1, <1>2, <2>1 DEF OutcomeOf
  <2>2. CASE r.ret = 1
    BY <1>1, <1>2, <2>2 DEF OutcomeOf
  <2>3. CASE r.ret = 0
    BY <1>1, <1>2, <2>3 DEF OutcomeOf
  <2> QED
    BY <2>1, <2>2, <2>3
<1>3. \A ret : LET r == Reply(op, k, ret, val)
              IN  r.op = op /\ r.key = k /\ r.ret = ret /\ r.val = val
  BY DEF Reply
<1> QED
  BY <1>2, <1>3

\* Two maps are equal when they bind every key alike.
LEMMA SameMap ==
  ASSUME NEW f, NEW g, f = [k \in Keys |-> f[k]], g = [k \in Keys |-> g[k]],
         NEW k \in Keys, NEW x, f[k] = x, \A k2 \in Keys \ {k} : f[k2] = g[k2]
  PROVE  f = [g EXCEPT ![k] = x]
OBVIOUS

-----------------------------------------------------------------------------
(* Sequences and the hash *)

\* An index that is not negative is an index of the table.
LEMMA HashInTable ==
  ASSUME NEW k \in Keys, hash(k) >= 0
  PROVE  hash(k) \in Buckets
BY HashAssumption DEF hash, hash_mod, Buckets

\* Removing the i-th element moves those behind it one place forward.
LEMMA RemoveAtProperties ==
  ASSUME NEW S, NEW s \in Seq(S), NEW i \in 1..Len(s)
  PROVE  /\ RemoveAt(s, i) \in Seq(S)
         /\ Len(RemoveAt(s, i)) = Len(s) - 1
         /\ \A j \in 1..(Len(s) - 1) :
              RemoveAt(s, i)[j] = IF j < i THEN s[j] ELSE s[j + 1]
<1> DEFINE before == SubSeq(s, 1, i - 1)
           after  == SubSeq(s, i + 1, Len(s))
<1>1. Len(s) \in Nat /\ \A j \in 1..Len(s) : s[j] \in S
  BY ElementOfSeq
<1>2. /\ before \in Seq(S) /\ Len(before) = i - 1
      /\ \A j \in 1..(i - 1) : before[j] = s[j]
  <2>1. /\ before \in Seq(S)
        /\ Len(before) = IF 1 <= i - 1 THEN (i - 1) - 1 + 1 ELSE 0
        /\ \A j \in 1..((i - 1) - 1 + 1) : before[j] = s[1 + j - 1]
    BY <1>1, SubSeqProperties
  <2> QED
    BY <1>1, <2>1
<1>3. /\ after \in Seq(S) /\ Len(after) = Len(s) - i
      /\ \A j \in 1..(Len(s) - i) : after[j] = s[i + j]
  <2>1. /\ after \in Seq(S)
        /\ Len(after) = IF i + 1 <= Len(s) THEN Len(s) - (i + 1) + 1 ELSE 0
        /\ \A j \in 1..(Len(s) - (i + 1) + 1) : after[j] = s[i + 1 + j - 1]
    BY <1>1, SubSeqProperties
  <2> QED
    BY <1>1, <2>1
<1>4. RemoveAt(s, i) = before \o after
  BY DEF RemoveAt
<1> HIDE DEF before, after
<1>5. /\ before \o after \in Seq(S)
      /\ Len(before \o after) = Len(before) + Len(after)
      /\ \A j \in 1..(Len(before) + Len(after)) :
           (before \o after)[j] =
             IF j <= Len(before) THEN before[j] ELSE after[j - Len(before)]
  BY <1>2, <1>3, ConcatProperties
<1>6. Len(before) + Len(after) = Len(s) - 1
  BY <1>1, <1>2, <1>3
<1>7. ASSUME NEW j \in 1..(Len(s) - 1)
      PROVE  (before \o after)[j] = IF j < i THEN s[j] ELSE s[j + 1]
  <2>1. CASE j < i
    BY <1>1, <1>2, <1>5, <1>6, <2>1
  <2>2. CASE ~(j < i)
    <3>1. j - (i - 1) \in 1..(Len(s) - i) /\ i + (j - (i - 1)) = j + 1
      BY <1>1, <2>2
    <3>2. after[j - (i - 1)] = s[j + 1]
      BY <1>3, <3>1
    <3>3. (before \o after)[j] = after[j - (i - 1)]
      BY <1>1, <1>2, <1>5, <1>6, <2>2
    <3> QED
      BY <2>2, <3>2, <3>3
  <2> QED
    BY <2>1, <2>2
<1> QED
  BY <1>4, <1>5, <1>6, <1>7

\* A new head moves the whole chain one place back.
LEMMA ConsProperties ==
  ASSUME NEW S, NEW s \in Seq(S), NEW e \in S
  PROVE  /\ <<e>> \o s \in Seq(S)
         /\ Len(<<e>> \o s) = Len(s) + 1
         /\ \A j \in 1..(Len(s) + 1) :
              (<<e>> \o s)[j] = IF j = 1 THEN e ELSE s[j - 1]
<1>1. <<e>> \in Seq(S) /\ Len(<<e>>) = 1 /\ <<e>>[1] = e
  OBVIOUS
<1>2. /\ <<e>> \o s \in Seq(S)
      /\ Len(<<e>> \o s) = 1 + Len(s)
      /\ \A j \in 1..(1 + Len(s)) :
           (<<e>> \o s)[j] = IF j <= 1 THEN <<e>>[j] ELSE s[j - 1]
  BY <1>1, ConcatProperties
<1>3. Len(s) \in Nat
  BY LenProperties
<1> QED
  BY <1>1, <1>2, <1>3

-----------------------------------------------------------------------------
(* What a changed chain does to the set of nodes *)

\* A node is named by its bucket and its place in the chain.
LEMMA NodesAre ==
  ASSUME nodes \in [Buckets -> Seq(NodeType)]
  PROVE  \A b, i : <<b, i>> \in Nodes <=> b \in Buckets /\ i \in 1..Len(nodes[b])
<1>1. \A b \in Buckets : DOMAIN nodes[b] = 1..Len(nodes[b])
  OBVIOUS
<1> QED
  BY <1>1 DEF Nodes

\* One chain gets one node more, or one less, and so does the table.
LEMMA OneNodeMore ==
  ASSUME IInv, NEW h \in Buckets, NEW c \in Seq(NodeType),
         Len(c) = Len(nodes[h]) + 1, nodes' = [nodes EXCEPT ![h] = c]
  PROVE  /\ nodes' \in [Buckets -> Seq(NodeType)]
         /\ IsFiniteSet(Nodes')
         /\ Cardinality(Nodes') = Cardinality(Nodes) + 1
         /\ Cardinality(Nodes) \in Nat
<1>0. nodes \in [Buckets -> Seq(NodeType)] /\ IsFiniteSet(Nodes)
  BY DEF IInv
<1>1. nodes' \in [Buckets -> Seq(NodeType)]
  BY <1>0
<1>2. \A b, i : <<b, i>> \in Nodes' <=> b \in Buckets /\ i \in 1..Len(nodes'[b])
  BY <1>1 DEF Nodes
<1> DEFINE new == <<h, Len(nodes[h]) + 1>>
<1>3. new \notin Nodes
  BY <1>0, NodesAre
<1>4. Nodes' = Nodes \cup {new}
  <2>1. Len(nodes[h]) \in Nat
    BY <1>0
  <2>2. ASSUME NEW b \in Buckets, NEW i
        PROVE  i \in 1..Len(nodes'[b]) <=>
                 i \in 1..Len(nodes[b]) \/ (b = h /\ i = Len(nodes[h]) + 1)
    BY <1>0, <2>1
  <2>3. \A b, i : <<b, i>> \in Nodes' <=> <<b, i>> \in Nodes \cup {new}
    <3>1. ASSUME NEW b, NEW i, <<b, i>> \in Nodes' PROVE <<b, i>> \in Nodes \cup {new}
      BY <1>0, <1>2, <2>2, <3>1, NodesAre
    <3>2. ASSUME NEW b, NEW i, <<b, i>> \in Nodes PROVE <<b, i>> \in Nodes'
      BY <1>0, <1>2, <2>2, <3>2, NodesAre
    <3>3. new \in Nodes'
      BY <1>2, <2>1, <2>2
    <3> QED
      BY <3>1, <3>2, <3>3
  <2>4. /\ \A x \in Nodes : \E b, i : x = <<b, i>>
        /\ \A x \in Nodes' : \E b, i : x = <<b, i>>
    BY DEF Nodes
  <2> QED
    BY <2>3, <2>4
<1> QED
  BY <1>0, <1>1, <1>3, <1>4, FS_AddElement, FS_CardinalityType

\* A chain that got shorter by one takes one from the number of all nodes.
LEMMA OneNodeLess ==
  ASSUME IInv, NEW h \in Buckets, NEW c \in Seq(NodeType),
         Len(c) = Len(nodes[h]) - 1, nodes' = [nodes EXCEPT ![h] = c]
  PROVE  /\ nodes' \in [Buckets -> Seq(NodeType)]
         /\ IsFiniteSet(Nodes')
         /\ Cardinality(Nodes') = Cardinality(Nodes) - 1
         /\ Cardinality(Nodes') \in Nat
<1>0. nodes \in [Buckets -> Seq(NodeType)] /\ IsFiniteSet(Nodes)
  BY DEF IInv
<1>1. nodes' \in [Buckets -> Seq(NodeType)]
  BY <1>0
<1>2. \A b, i : <<b, i>> \in Nodes' <=> b \in Buckets /\ i \in 1..Len(nodes'[b])
  BY <1>1 DEF Nodes
<1> DEFINE old == <<h, Len(nodes[h])>>
<1>3. Len(nodes[h]) \in Nat /\ Len(c) \in Nat
  BY <1>0
<1>4. old \in Nodes
  BY <1>0, <1>3, NodesAre
<1>5. Nodes' = Nodes \ {old}
  <2>2. ASSUME NEW b \in Buckets, NEW i
        PROVE  i \in 1..Len(nodes'[b]) <=>
                 i \in 1..Len(nodes[b]) /\ ~(b = h /\ i = Len(nodes[h]))
    BY <1>0, <1>3
  <2>3. \A b, i : <<b, i>> \in Nodes' <=> <<b, i>> \in Nodes \ {old}
    BY <1>0, <1>2, <2>2, NodesAre
  <2>4. /\ \A x \in Nodes : \E b, i : x = <<b, i>>
        /\ \A x \in Nodes' : \E b, i : x = <<b, i>>
    BY DEF Nodes
  <2> QED
    BY <2>3, <2>4
<1>6. IsFiniteSet(Nodes \ {old}) /\ Cardinality(Nodes \ {old}) = Cardinality(Nodes) - 1
  BY <1>0, <1>4, FS_RemoveElement
<1> QED
  BY <1>1, <1>5, <1>6, FS_CardinalityType

\* A chain of the same length changes no count.
LEMMA AsManyNodes ==
  ASSUME IInv, NEW h \in Buckets, NEW c \in Seq(NodeType),
         Len(c) = Len(nodes[h]), nodes' = [nodes EXCEPT ![h] = c]
  PROVE  /\ nodes' \in [Buckets -> Seq(NodeType)]
         /\ Nodes' = Nodes
<1>0. nodes \in [Buckets -> Seq(NodeType)]
  BY DEF IInv
<1>1. nodes' \in [Buckets -> Seq(NodeType)]
  BY <1>0
<1>2. \A b \in Buckets : Len(nodes'[b]) = Len(nodes[b])
  BY <1>0
<1>3. \A b \in Buckets : DOMAIN nodes'[b] = DOMAIN nodes[b]
  BY <1>0, <1>1, <1>2, LenProperties
<1> QED
  BY <1>1, <1>3 DEF Nodes

-----------------------------------------------------------------------------
(* The invariant holds initially and after every call *)

\* The invariant holds after kvs_hash_create.
LEMMA InitIInv == Init => IInv
<1> SUFFICES ASSUME Init PROVE IInv
  OBVIOUS
<1> USE DEF Init, kvs_hash_create
<1>1. nodes \in [Buckets -> Seq(NodeType)] /\ \A b \in Buckets : DOMAIN nodes[b] = {}
  OBVIOUS
<1>2. Nodes = {}
  BY <1>1 DEF Nodes
<1>3. IsFiniteSet(Nodes) /\ Cardinality(Nodes) = 0
  BY <1>2, FS_EmptySet
<1>4. TypeOK
  BY <1>1, HashAssumption DEF TypeOK, NodeType, NoReply, Reply, Replies
<1>5. InItsChain /\ CountExact /\ NothingFreedEarly
  BY <1>1, <1>3 DEF InItsChain, CountExact, NothingFreedEarly
<1> QED
  BY <1>1, <1>3, <1>4, <1>5 DEF IInv, ChainsSound

\* What a step has to show of the chains, of the counts and of the reply.
LEMMA Together ==
  ASSUME IInv, nodes' \in [Buckets -> Seq(NodeType)], IsFiniteSet(Nodes'),
         InItsChain', NothingFreedEarly', CountExact',
         count' \in 0..SLOTS, blocks' \in 0..MaxBlocks,
         status' \in {"up", "crashed", "destroyed"}, reply' \in Replies
  PROVE  IInv'
BY DEF IInv, ChainsSound, TypeOK, NodeType

\* Calls that leave the chains alone; a failed insertion takes blocks with it.
LEMMA ChainsKept ==
  ASSUME IInv, UNCHANGED <<nodes, count>>, blocks' \in blocks..MaxBlocks,
         status' \in {"up", "crashed"}, status = "up", reply' \in Replies
  PROVE  IInv'
<1>1. Nodes' = Nodes
  BY DEF Nodes
<1>2. InItsChain'
  BY DEF IInv, ChainsSound, InItsChain
<1>3. Cardinality(Nodes) \in Nat
  BY FS_CardinalityType DEF IInv
<1>4. NothingFreedEarly' /\ CountExact'
  BY <1>1, <1>3 DEF IInv, ChainsSound, NothingFreedEarly, CountExact, TypeOK
<1>5. blocks' \in 0..MaxBlocks /\ count' \in 0..SLOTS
  BY HashAssumption DEF IInv, ChainsSound, TypeOK
<1> QED
  BY <1>1, <1>2, <1>4, <1>5, Together DEF IInv

\* kvs_hash_set of a new key keeps it.
LEMMA InsertKeeps ==
  ASSUME IInv, NEW k \in Keys, NEW v \in Vals, SetInsert(k, v),
         status = "up", status' = "up"
  PROVE  IInv'
<1> DEFINE h == hash(k)
           c == <<Node(k, v)>> \o nodes[h]
<1>1. h \in Buckets /\ Node(k, v) \in NodeType
  BY HashInTable DEF SetInsert, Node, NodeType
<1>2. nodes \in [Buckets -> Seq(NodeType)] /\ nodes[h] \in Seq(NodeType)
  BY <1>1 DEF IInv
<1>3. /\ c \in Seq(NodeType)
      /\ Len(c) = Len(nodes[h]) + 1
      /\ \A j \in 1..(Len(nodes[h]) + 1) : c[j] = IF j = 1 THEN Node(k, v) ELSE nodes[h][j - 1]
  BY <1>1, <1>2, ConsProperties
<1>4. nodes' = [nodes EXCEPT ![h] = c]
  BY <1>2 DEF SetInsert
<1> HIDE DEF c
<1>5. /\ nodes' \in [Buckets -> Seq(NodeType)]
      /\ IsFiniteSet(Nodes')
      /\ Cardinality(Nodes') = Cardinality(Nodes) + 1
      /\ Cardinality(Nodes) \in Nat
  BY <1>1, <1>3, <1>4, OneNodeMore
<1>6. InItsChain'
  <2>1. \A i \in 1..Len(nodes[h]) : nodes[h][i].key # k
    BY <1>2 DEF SetInsert, InChain, Chain
  <2>2. \A b \in Buckets \ {h} : nodes'[b] = nodes[b]
    BY <1>2, <1>4
  <2>3. nodes'[h] = c /\ DOMAIN c = 1..(Len(nodes[h]) + 1) /\ DOMAIN nodes[h] = 1..Len(nodes[h])
    BY <1>1, <1>2, <1>3, <1>4, LenProperties
  <2>4. ASSUME NEW i \in 1..(Len(nodes[h]) + 1), NEW j \in 1..(Len(nodes[h]) + 1)
        PROVE  hash(c[i].key) = h /\ (c[i].key = c[j].key => i = j)
    <3>1. InItsChain /\ Len(nodes[h]) \in Nat
      BY <1>2 DEF IInv, ChainsSound
    <3>2. ASSUME NEW n \in 2..(Len(nodes[h]) + 1)
          PROVE  n - 1 \in DOMAIN nodes[h] /\ c[n] = nodes[h][n - 1]
      BY <1>3, <2>3, <3>1
    <3>3. c[1].key = k
      BY <1>3, <3>1 DEF Node
    <3>4. \A n \in 2..(Len(nodes[h]) + 1) : c[n].key # k /\ hash(c[n].key) = h
      BY <1>1, <2>1, <2>3, <3>1, <3>2 DEF InItsChain
    <3>5. \A m, n \in 2..(Len(nodes[h]) + 1) : c[m].key = c[n].key => m - 1 = n - 1
      BY <1>1, <3>1, <3>2 DEF InItsChain
    <3> QED
      BY <3>1, <3>3, <3>4, <3>5
  <2> QED
    BY <2>2, <2>3, <2>4 DEF IInv, ChainsSound, InItsChain
<1>7. /\ count' \in 0..SLOTS /\ blocks' \in 0..MaxBlocks
      /\ NothingFreedEarly' /\ CountExact'
  BY <1>5, HashAssumption
     DEF SetInsert, Room, IInv, ChainsSound, TypeOK, NothingFreedEarly, CountExact
<1>8. reply' \in Replies
  BY DEF SetInsert, Return, Reply, Replies, Ops
<1> QED
  BY <1>5, <1>6, <1>7, <1>8, Together

\* The node at one place of a chain gets another value.
LEMMA NewValueKeeps ==
  ASSUME IInv, NEW k \in Keys, NEW v \in Vals, hash(k) >= 0,
         NEW i \in DOMAIN Chain(k), IsAt(i, k),
         nodes' = [nodes EXCEPT ![hash(k)][i].value = v],
         UNCHANGED <<count, blocks>>, reply' \in Replies,
         status = "up", status' = "up"
  PROVE  IInv'
<1> DEFINE h == hash(k)
           n == [nodes[h][i] EXCEPT !.value = v]
           c == [nodes[h] EXCEPT ![i] = n]
<1>1. h \in Buckets
  BY HashInTable
<1>2. nodes \in [Buckets -> Seq(NodeType)] /\ nodes[h] \in Seq(NodeType)
  BY <1>1 DEF IInv
<1>3. i \in 1..Len(nodes[h])
  BY <1>2, LenProperties DEF Chain
<1>4. n \in NodeType /\ n.key = nodes[h][i].key
  <2>1. nodes[h][i] \in NodeType
    BY <1>2, <1>3, ElementOfSeq
  <2> QED
    BY <2>1 DEF NodeType
<1> HIDE DEF n
<1>5. /\ c \in Seq(NodeType) /\ Len(c) = Len(nodes[h])
      /\ \A j \in 1..Len(nodes[h]) : c[j] = IF j = i THEN n ELSE nodes[h][j]
  BY <1>2, <1>3, <1>4, ExceptSeq
<1>6. nodes' = [nodes EXCEPT ![h] = c]
  BY <1>1, <1>2 DEF n
<1> HIDE DEF c
<1>7. nodes' \in [Buckets -> Seq(NodeType)] /\ Nodes' = Nodes
  BY <1>1, <1>5, <1>6, AsManyNodes
<1>8. \A b \in Buckets : /\ DOMAIN nodes'[b] = DOMAIN nodes[b]
                         /\ \A j \in DOMAIN nodes[b] : nodes'[b][j].key = nodes[b][j].key
  <2>1. nodes'[h] = c /\ \A b \in Buckets \ {h} : nodes'[b] = nodes[b]
    BY <1>1, <1>2, <1>6
  <2>2. DOMAIN c = 1..Len(nodes[h]) /\ DOMAIN nodes[h] = 1..Len(nodes[h])
    BY <1>2, <1>5, LenProperties
  <2> QED
    BY <1>4, <1>5, <2>1, <2>2
<1>9. InItsChain'
  BY <1>8 DEF IInv, ChainsSound, InItsChain
<1>10. NothingFreedEarly' /\ CountExact'
  BY <1>7 DEF IInv, ChainsSound, NothingFreedEarly, CountExact
<1> QED
  BY <1>7, <1>9, <1>10, Together DEF IInv, ChainsSound, TypeOK

\* Replacing a value, by kvs_hash_set or kvs_hash_mod, keeps it.
LEMMA ReplaceKeeps ==
  ASSUME IInv, NEW k \in Keys, NEW v \in Vals, NEW op \in Ops, hash(k) >= 0,
         Replace(op, k, v), status = "up", status' = "up"
  PROVE  IInv'
<1>0. blocks \in blocks..MaxBlocks
  BY HashAssumption DEF IInv, ChainsSound, TypeOK
<1>1. reply' \in Replies
  <2>1. reply' = Reply(op, k, 0, NULL) \/ reply' = Reply(op, k, -4, NULL)
    BY DEF Replace, Return
  <2>2. 0 \in -4..1 /\ -4 \in -4..1
    OBVIOUS
  <2> QED
    BY <2>1, <2>2 DEF Reply, Replies
<1>2. CASE UNCHANGED <<nodes, count, blocks>>
  BY <1>0, <1>1, <1>2, ChainsKept
<1>3. ASSUME NEW i \in DOMAIN Chain(k), IsAt(i, k), UNCHANGED <<count, blocks>>,
             nodes' = [nodes EXCEPT ![hash(k)][i].value = v]
      PROVE  IInv'
  BY <1>1, <1>3, NewValueKeeps
<1> QED
  BY <1>2, <1>3 DEF Replace

\* The head goes with one block, any other node with three.
LEMMA DelFoundKeeps ==
  ASSUME IInv, NEW k \in Keys, DelFound(k), status = "up", status' = "up"
  PROVE  IInv'
<1> DEFINE h == hash(k)
<1>1. h \in Buckets
  BY HashInTable DEF DelFound
<1>2. nodes \in [Buckets -> Seq(NodeType)] /\ nodes[h] \in Seq(NodeType)
  BY <1>1 DEF IInv
<1>3. PICK i \in 1..Len(nodes[h]) :
        /\ nodes' = [nodes EXCEPT ![h] = RemoveAt(@, i)]
        /\ blocks' = blocks - (IF i = 1 THEN 1 ELSE 3)
        /\ count' = count - 1
  BY <1>2, LenProperties DEF DelFound, Chain
<1> DEFINE c == RemoveAt(nodes[h], i)
<1>4. /\ c \in Seq(NodeType)
      /\ Len(c) = Len(nodes[h]) - 1
      /\ \A j \in 1..(Len(nodes[h]) - 1) :
           c[j] = IF j < i THEN nodes[h][j] ELSE nodes[h][j + 1]
  BY <1>2, RemoveAtProperties
<1>5. nodes' = [nodes EXCEPT ![h] = c]
  BY <1>3
<1> HIDE DEF c
<1>6. /\ nodes' \in [Buckets -> Seq(NodeType)]
      /\ IsFiniteSet(Nodes')
      /\ Cardinality(Nodes') = Cardinality(Nodes) - 1
      /\ Cardinality(Nodes') \in Nat
  BY <1>1, <1>4, <1>5, OneNodeLess
<1>7. InItsChain'
  <2>1. nodes'[h] = c /\ \A b \in Buckets \ {h} : nodes'[b] = nodes[b]
    BY <1>1, <1>2, <1>5
  <2>2. /\ DOMAIN c = 1..(Len(nodes[h]) - 1)
        /\ DOMAIN nodes[h] = 1..Len(nodes[h])
        /\ Len(nodes[h]) \in Nat
    BY <1>2, <1>4, LenProperties
  <2>3. ASSUME NEW m \in DOMAIN c, NEW n \in DOMAIN c
        PROVE  hash(c[m].key) = h /\ (c[m].key = c[n].key => m = n)
    <3> DEFINE from(j) == IF j < i THEN j ELSE j + 1
    <3>0. \A j \in DOMAIN c : from(j) \in DOMAIN nodes[h] /\ c[j] = nodes[h][from(j)]
      <4> TAKE j \in DOMAIN c
      <4>1. j \in 1..(Len(nodes[h]) - 1) /\ from(j) \in 1..Len(nodes[h])
        BY <2>2
      <4>2. c[j] = IF j < i THEN nodes[h][j] ELSE nodes[h][j + 1]
        BY <1>4, <4>1
      <4> QED
        BY <2>2, <4>1, <4>2
    <3>1. /\ from(m) \in DOMAIN nodes[h] /\ c[m] = nodes[h][from(m)]
          /\ from(n) \in DOMAIN nodes[h] /\ c[n] = nodes[h][from(n)]
      BY <3>0
    <3>2. hash(c[m].key) = h /\ (c[m].key = c[n].key => from(m) = from(n))
      BY <1>1, <3>1 DEF IInv, ChainsSound, InItsChain
    <3>3. from(m) = from(n) => m = n
      BY <2>2
    <3> QED
      BY <3>2, <3>3
  <2> QED
    BY <2>1, <2>3 DEF IInv, ChainsSound, InItsChain
<1>8. /\ count' \in 0..SLOTS /\ blocks' \in 0..MaxBlocks
      /\ NothingFreedEarly' /\ CountExact'
  <2>1. /\ count = Cardinality(Nodes) /\ blocks >= 3 * Cardinality(Nodes)
        /\ count \in 0..SLOTS /\ blocks \in 0..MaxBlocks
        /\ Cardinality(Nodes) \in Nat
    BY FS_CardinalityType DEF IInv, ChainsSound, CountExact, NothingFreedEarly, TypeOK
  <2> QED
    BY <1>3, <1>6, <2>1, HashAssumption DEF NothingFreedEarly, CountExact
<1>9. reply' \in Replies
  BY DEF DelFound, Return, Reply, Replies, Ops
<1> QED
  BY <1>6, <1>7, <1>8, <1>9, Together

\* Destroying frees every node; the strings of the nodes stay behind.
LEMMA DestroyKeeps ==
  ASSUME IInv, kvs_hash_destory
  PROVE  IInv'
<1> USE DEF kvs_hash_destory
<1>1. nodes' \in [Buckets -> Seq(NodeType)] /\ \A b \in Buckets : DOMAIN nodes'[b] = {}
  OBVIOUS
<1>2. Nodes' = {}
  BY <1>1 DEF Nodes
<1>3. IsFiniteSet(Nodes') /\ Cardinality(Nodes') = 0
  BY <1>2, FS_EmptySet
<1>4. /\ Cardinality(Nodes) \in Nat /\ blocks >= 3 * Cardinality(Nodes)
      /\ blocks \in 0..MaxBlocks /\ count \in 0..SLOTS /\ reply \in Replies
  BY FS_CardinalityType DEF IInv, ChainsSound, NothingFreedEarly, TypeOK
<1>5. blocks' \in 0..MaxBlocks
  BY <1>4, HashAssumption
<1>6. InItsChain' /\ CountExact' /\ NothingFreedEarly'
  BY <1>1, <1>3, <1>5 DEF InItsChain, CountExact, NothingFreedEarly
<1> QED
  BY <1>1, <1>3, <1>4, <1>5, <1>6, Together

\* Each way out of kvs_hash_set keeps it.
LEMMA SetKeeps ==
  ASSUME IInv, NEW k \in Keys, NEW v \in Vals, kvs_hash_set(k, v),
         status = "up", status' = "up"
  PROVE  IInv'
<1>0. blocks \in blocks..MaxBlocks
  BY HashAssumption DEF IInv, ChainsSound, TypeOK
<1>1. CASE SetFull(k)
  BY <1>0, <1>1, ChainsKept DEF SetFull, Return, Reply, Replies, Ops
<1>2. CASE Reject("SET", k, -1)
  BY <1>0, <1>2, ChainsKept DEF Reject, Return, Reply, Replies, Ops
<1>3. CASE SetSame(k, v)
  BY <1>0, <1>3, ChainsKept DEF SetSame, Return, Reply, Replies, Ops
<1>4. CASE SetUpdate(k, v)
  BY <1>4, ReplaceKeeps DEF SetUpdate, Ops
<1>5. CASE SetInsert(k, v)
  BY <1>5, InsertKeeps
<1>6. CASE SetNoMemory(k)
  <2>1. blocks' \in blocks..MaxBlocks
    BY <1>6, HashAssumption DEF SetNoMemory, Room, IInv, ChainsSound, TypeOK
  <2> QED
    BY <1>6, <2>1, ChainsKept DEF SetNoMemory, Return, Reply, Replies, Ops
<1> QED
  BY <1>1, <1>2, <1>3, <1>4, <1>5, <1>6 DEF kvs_hash_set

\* get, del, exist and mod keep it.
LEMMA OtherCallsKeep ==
  ASSUME IInv, NEW k \in Keys, status = "up", status' = "up",
         \/ kvs_hash_get(k) \/ kvs_hash_del(k) \/ kvs_hash_exist(k)
         \/ \E v \in Vals : kvs_hash_mod(k, v)
  PROVE  IInv'
<1>0. blocks \in blocks..MaxBlocks
  BY HashAssumption DEF IInv, ChainsSound, TypeOK
<1>1. CASE kvs_hash_get(k)
  <2>1. ASSUME hash(k) >= 0, NEW i \in DOMAIN Chain(k)
        PROVE  Chain(k)[i].value \in Vals
    <3>1. Chain(k) \in Seq(NodeType)
      BY <2>1, HashInTable DEF IInv, Chain
    <3>2. Chain(k)[i] \in NodeType
      BY <3>1, LenProperties, ElementOfSeq
    <3> QED
      BY <3>2 DEF NodeType
  <2>2. reply' \in Replies /\ UNCHANGED <<nodes, count, blocks>>
    BY <1>1, <2>1 DEF kvs_hash_get, Reject, Missing, IsAt, Return, Reply, Replies, Ops
  <2> QED
    BY <1>0, <2>2, ChainsKept
<1>2. CASE kvs_hash_exist(k)
  BY <1>0, <1>2, ChainsKept DEF kvs_hash_exist, Return, Reply, Replies, Ops
<1>3. CASE DelFound(k)
  BY <1>3, DelFoundKeeps
<1>4. CASE Missing("DEL", k, 1) \/ DelOutside(k)
  BY <1>0, <1>4, ChainsKept DEF Missing, DelOutside, Return, Reply, Replies, Ops
<1>5. ASSUME NEW v \in Vals, kvs_hash_mod(k, v) PROVE IInv'
  <2>1. CASE Reject("MOD", k, -1) \/ Missing("MOD", k, 1)
    BY <1>0, <2>1, ChainsKept DEF Reject, Missing, Return, Reply, Replies, Ops
  <2>2. CASE hash(k) >= 0 /\ Replace("MOD", k, v)
    BY <2>2, ReplaceKeeps DEF Ops
  <2> QED
    BY <1>5, <2>1, <2>2 DEF kvs_hash_mod
<1> QED
  BY <1>1, <1>2, <1>3, <1>4, <1>5 DEF kvs_hash_del

\* Every step keeps it, destruction and crashes included.
LEMMA NextIInv == IInv /\ [Next]_vars => IInv'
<1> SUFFICES ASSUME IInv, [Next]_vars PROVE IInv'
  OBVIOUS
<1>1. ASSUME status = "up", NEW k \in Keys, Call(k) PROVE IInv'
  BY <1>1, SetKeeps, OtherCallsKeep DEF Call
<1>2. ASSUME status = "up", NEW k \in Keys, DelCrash(k) PROVE IInv'
  <2>1. blocks \in blocks..MaxBlocks /\ reply \in Replies
    BY HashAssumption DEF IInv, ChainsSound, TypeOK
  <2> QED
    BY <1>2, <2>1, ChainsKept DEF DelCrash
<1>3. CASE kvs_hash_destory
  BY <1>3, DestroyKeeps
<1>4. CASE UNCHANGED vars
  <2>1. Nodes' = Nodes /\ \A k : hash(k)' = hash(k)
    BY <1>4 DEF vars, Nodes, hash, hash_mod
  <2> QED
    BY <1>4, <2>1 DEF vars, IInv, ChainsSound, TypeOK, InItsChain, CountExact, NothingFreedEarly
<1> QED
  BY <1>1, <1>2, <1>3, <1>4 DEF Next

\* So it always holds.
LEMMA Invariance == Spec => []IInv
BY InitIInv, NextIInv, PTL DEF Spec

\* After any history of calls, failed allocations and negative hashes included:
\* every node hangs once in the chain of its key, count is the number of nodes,
\* and nothing that can be reached was freed.
THEOREM ChainsAreSound == Spec => []ChainsSound
<1>1. IInv => ChainsSound
  BY DEF IInv
<1> QED
  BY <1>1, Invariance, PTL

-----------------------------------------------------------------------------
(* The engine implements the strict map *)

\* Some node of the chain of k binds it to v.
Holds(k, v) ==
  hash(k) >= 0 /\ \E i \in DOMAIN Chain(k) : Chain(k)[i].key = k /\ Chain(k)[i].value = v

ContentsAreBindings ==
  \A k \in Keys :
    /\ status # "destroyed" => \A v : Holds(k, v) => v \in Vals /\ Contents[k] = v
    /\ status = "destroyed" \/ (\A v : ~Holds(k, v)) => Contents[k] = <<"absent">>
    /\ Contents[k] \in Vals \cup {<<"absent">>}

\* A chain holds a key once, so what it binds the key to is one value.
LEMMA ContentsHold == IInv => ContentsAreBindings
<1> SUFFICES ASSUME IInv, NEW k \in Keys
             PROVE  /\ status # "destroyed" => \A v : Holds(k, v) => v \in Vals /\ Contents[k] = v
                    /\ status = "destroyed" \/ (\A v : ~Holds(k, v)) => Contents[k] = <<"absent">>
                    /\ Contents[k] \in Vals \cup {<<"absent">>}
  BY DEF ContentsAreBindings
<1> DEFINE at == CHOOSE i \in DOMAIN Chain(k) : IsAt(i, k)
<1>1. Contents[k] = IF status = "destroyed" \/ ~Bound(k) THEN <<"absent">>
                    ELSE Chain(k)[at].value
  BY DEF Contents
<1>2. Bound(k) <=> \E v : Holds(k, v)
  BY DEF Bound, Holds, InChain
<1>3. ASSUME NEW v, Holds(k, v) PROVE v \in Vals /\ Chain(k)[at].value = v
  <2>1. PICK i \in DOMAIN Chain(k) : Chain(k)[i].key = k /\ Chain(k)[i].value = v
    BY <1>3 DEF Holds
  <2>2. hash(k) \in Buckets
    BY <1>3, HashInTable DEF Holds
  <2>3. at \in DOMAIN Chain(k) /\ Chain(k)[at].key = k
    BY <2>1 DEF IsAt
  <2>4. at = i
    BY <2>1, <2>2, <2>3 DEF IInv, ChainsSound, InItsChain, Chain
  <2>5. Chain(k) \in Seq(NodeType)
    BY <2>2 DEF IInv, Chain
  <2>6. Chain(k)[i] \in NodeType
    BY <2>1, <2>5, LenProperties, ElementOfSeq
  <2> QED
    BY <2>1, <2>4, <2>6 DEF NodeType
<1> HIDE DEF at
<1> QED
  BY <1>1, <1>2, <1>3

\* What a step does to the bindings it does to the map.
LEMMA BindingsKept ==
  ASSUME IInv, IInv', NEW k \in Keys, status # "destroyed", status' # "destroyed",
         \A v : Holds(k, v)' <=> Holds(k, v)
  PROVE  Contents'[k] = Contents[k]
<1>1. ContentsAreBindings /\ ContentsAreBindings'
  BY ContentsHold, PTL
<1>2. CASE \E v : Holds(k, v)
  BY <1>1, <1>2 DEF ContentsAreBindings
<1>3. CASE \A v : ~Holds(k, v)
  BY <1>1, <1>3 DEF ContentsAreBindings
<1> QED
  BY <1>2, <1>3

\* A node put at the head of its chain binds one key.
LEMMA InsertBinds ==
  ASSUME IInv, NEW k \in Keys, NEW v \in Vals, SetInsert(k, v), NEW k2 \in Keys, NEW v2
  PROVE  Holds(k2, v2)' <=> Holds(k2, v2) \/ (k2 = k /\ v2 = v)
<1> DEFINE h == hash(k)
           c == <<Node(k, v)>> \o nodes[h]
<1>1. h \in Buckets /\ Node(k, v) \in NodeType /\ h >= 0
  BY HashInTable DEF SetInsert, Node, NodeType
<1>2. nodes \in [Buckets -> Seq(NodeType)] /\ nodes[h] \in Seq(NodeType)
  BY <1>1 DEF IInv
<1>3. nodes' = [nodes EXCEPT ![h] = c]
  BY DEF SetInsert
<1>4. /\ c \in Seq(NodeType)
      /\ Len(c) = Len(nodes[h]) + 1
      /\ \A j \in 1..(Len(nodes[h]) + 1) : c[j] = IF j = 1 THEN Node(k, v) ELSE nodes[h][j - 1]
  BY <1>1, <1>2, ConsProperties
<1>5. /\ DOMAIN c = 1..(Len(nodes[h]) + 1) /\ DOMAIN nodes[h] = 1..Len(nodes[h])
      /\ Len(nodes[h]) \in Nat
  BY <1>2, <1>4, LenProperties
<1> HIDE DEF c
<1>6. CASE hash(k2) # h
  <2>1. hash(k2) >= 0 => nodes'[hash(k2)] = nodes[hash(k2)]
    BY <1>2, <1>3, <1>6, HashInTable
  <2> QED
    BY <1>6, <2>1 DEF Holds, Chain, hash, hash_mod
<1>7. CASE hash(k2) = h
  <2>1. nodes'[h] = c
    BY <1>1, <1>2, <1>3
  <2>2. Holds(k2, v2)' <=> \E i \in DOMAIN c : c[i].key = k2 /\ c[i].value = v2
    BY <1>1, <1>7, <2>1 DEF Holds, Chain, hash, hash_mod
  <2>3. Holds(k2, v2) <=> \E i \in DOMAIN nodes[h] : nodes[h][i].key = k2 /\ nodes[h][i].value = v2
    BY <1>1, <1>7 DEF Holds, Chain
  <2>4. c[1].key = k /\ c[1].value = v /\ 1 \in DOMAIN c
    BY <1>4, <1>5 DEF Node
  <2>5. \A i \in DOMAIN c \ {1} : i - 1 \in DOMAIN nodes[h] /\ c[i] = nodes[h][i - 1]
    BY <1>4, <1>5
  <2>6. \A i \in DOMAIN nodes[h] : i + 1 \in DOMAIN c /\ c[i + 1] = nodes[h][i]
    BY <1>4, <1>5
  <2> QED
    BY <2>2, <2>3, <2>4, <2>5, <2>6
<1> QED
  BY <1>6, <1>7

\* Either deletion path unbinds one key.
LEMMA DelFoundUnbinds ==
  ASSUME IInv, NEW k \in Keys, DelFound(k), NEW k2 \in Keys, NEW v2
  PROVE  Holds(k2, v2)' <=> Holds(k2, v2) /\ k2 # k
<1> DEFINE h == hash(k)
<1>1. h \in Buckets /\ h >= 0
  BY HashInTable DEF DelFound
<1>2. nodes \in [Buckets -> Seq(NodeType)] /\ nodes[h] \in Seq(NodeType)
  BY <1>1 DEF IInv
<1>3. PICK i \in 1..Len(nodes[h]) :
        nodes[h][i].key = k /\ nodes' = [nodes EXCEPT ![h] = RemoveAt(@, i)]
  BY <1>2, LenProperties DEF DelFound, Chain, IsAt
<1> DEFINE c == RemoveAt(nodes[h], i)
<1>4. /\ c \in Seq(NodeType)
      /\ Len(c) = Len(nodes[h]) - 1
      /\ \A j \in 1..(Len(nodes[h]) - 1) :
           c[j] = IF j < i THEN nodes[h][j] ELSE nodes[h][j + 1]
  BY <1>2, RemoveAtProperties
<1>5. /\ DOMAIN c = 1..(Len(nodes[h]) - 1) /\ DOMAIN nodes[h] = 1..Len(nodes[h])
      /\ Len(nodes[h]) \in Nat
  BY <1>2, <1>4, LenProperties
<1>6. nodes' = [nodes EXCEPT ![h] = c]
  BY <1>3
<1> HIDE DEF c
<1>7. CASE hash(k2) # h
  <2>1. hash(k2) >= 0 => nodes'[hash(k2)] = nodes[hash(k2)]
    BY <1>2, <1>6, <1>7, HashInTable
  <2> QED
    BY <1>7, <2>1 DEF Holds, Chain, hash, hash_mod
<1>8. CASE hash(k2) = h
  <2>1. nodes'[h] = c
    BY <1>1, <1>2, <1>6
  <2>2. Holds(k2, v2)' <=> \E j \in DOMAIN c : c[j].key = k2 /\ c[j].value = v2
    BY <1>1, <1>8, <2>1 DEF Holds, Chain, hash, hash_mod
  <2>3. Holds(k2, v2) <=> \E j \in DOMAIN nodes[h] : nodes[h][j].key = k2 /\ nodes[h][j].value = v2
    BY <1>1, <1>8 DEF Holds, Chain
  <2>4. \A j \in DOMAIN nodes[h] : nodes[h][j].key = k <=> j = i
    BY <1>1, <1>3, <1>5 DEF IInv, ChainsSound, InItsChain
  <2>5. \A j \in DOMAIN c : \E m \in DOMAIN nodes[h] \ {i} : c[j] = nodes[h][m]
    <3> TAKE j \in DOMAIN c
    <3>1. CASE j < i
      BY <1>4, <1>5, <3>1
    <3>2. CASE ~(j < i)
      <4>1. j + 1 \in DOMAIN nodes[h] \ {i} /\ c[j] = nodes[h][j + 1]
        BY <1>4, <1>5, <3>2
      <4> QED
        BY <4>1
    <3> QED
      BY <3>1, <3>2
  <2>6. \A m \in DOMAIN nodes[h] \ {i} : \E j \in DOMAIN c : c[j] = nodes[h][m]
    <3> TAKE m \in DOMAIN nodes[h] \ {i}
    <3>1. CASE m < i
      <4>1. m \in DOMAIN c /\ c[m] = nodes[h][m]
        BY <1>4, <1>5, <3>1
      <4> QED
        BY <4>1
    <3>2. CASE ~(m < i)
      <4>1. m - 1 \in DOMAIN c /\ c[m - 1] = nodes[h][m]
        BY <1>4, <1>5, <3>2
      <4> QED
        BY <4>1
    <3> QED
      BY <3>1, <3>2
  <2> QED
    BY <2>2, <2>3, <2>4, <2>5, <2>6
<1> QED
  BY <1>7, <1>8

\* A new value in a node rebinds its key only.
LEMMA NewValueBinds ==
  ASSUME IInv, NEW k \in Keys, NEW v \in Vals, hash(k) >= 0,
         NEW i \in DOMAIN Chain(k), IsAt(i, k),
         nodes' = [nodes EXCEPT ![hash(k)][i].value = v],
         NEW k2 \in Keys, NEW v2
  PROVE  Holds(k2, v2)' <=> IF k2 = k THEN v2 = v ELSE Holds(k2, v2)
<1> DEFINE h == hash(k)
           n == [nodes[h][i] EXCEPT !.value = v]
           c == [nodes[h] EXCEPT ![i] = n]
<1>1. h \in Buckets
  BY HashInTable
<1>2. nodes \in [Buckets -> Seq(NodeType)] /\ nodes[h] \in Seq(NodeType)
  BY <1>1 DEF IInv
<1>3. DOMAIN nodes[h] = 1..Len(nodes[h]) /\ i \in 1..Len(nodes[h]) /\ nodes[h][i].key = k
  BY <1>2, LenProperties DEF Chain, IsAt
<1>4. n \in NodeType /\ n.key = k /\ n.value = v
  <2>1. nodes[h][i] \in NodeType
    BY <1>2, <1>3, ElementOfSeq
  <2> QED
    BY <1>3, <2>1 DEF NodeType
<1>5. nodes' = [nodes EXCEPT ![h] = c]
  BY <1>1, <1>2
<1> HIDE DEF n
<1>6. DOMAIN c = DOMAIN nodes[h] /\ \A j \in DOMAIN c : c[j] = IF j = i THEN n ELSE nodes[h][j]
  BY SMTT(30), <1>2, <1>3
<1> HIDE DEF c
<1>7. CASE hash(k2) # h
  <2>1. hash(k2) >= 0 => nodes'[hash(k2)] = nodes[hash(k2)]
    BY <1>2, <1>5, <1>7, HashInTable
  <2> QED
    BY <1>7, <2>1 DEF Holds, Chain, hash, hash_mod
<1>8. CASE hash(k2) = h
  <2>1. nodes'[h] = c
    BY <1>1, <1>2, <1>5
  <2>2. Holds(k2, v2)' <=> \E j \in DOMAIN c : c[j].key = k2 /\ c[j].value = v2
    BY <1>1, <1>8, <2>1 DEF Holds, Chain, hash, hash_mod
  <2>3. Holds(k2, v2) <=> \E j \in DOMAIN nodes[h] : nodes[h][j].key = k2 /\ nodes[h][j].value = v2
    BY <1>1, <1>8 DEF Holds, Chain
  <2>4. \A j \in DOMAIN nodes[h] : nodes[h][j].key = k <=> j = i
    BY <1>1, <1>3 DEF IInv, ChainsSound, InItsChain
  <2> QED
    BY SMTT(30), <1>3, <1>4, <1>6, <2>2, <2>3, <2>4
<1> QED
  BY <1>7, <1>8

BindsEveryKey == Contents = [k \in Keys |-> Contents[k]]

\* What the chains bind is a function on all keys.
LEMMA ContentsIsMap == BindsEveryKey
BY DEF BindsEveryKey, Contents

\* The map changes at one key, or not at all.
LEMMA ContentsKept ==
  ASSUME IInv, IInv', UNCHANGED nodes, status # "destroyed", status' # "destroyed"
  PROVE  Contents' = Contents
<1>1. \A k \in Keys : \A v : Holds(k, v)' <=> Holds(k, v)
  BY DEF Holds, Chain, hash, hash_mod
<1>2. \A k \in Keys : Contents'[k] = Contents[k]
  BY <1>1, BindingsKept
<1> QED
  BY <1>2 DEF Contents

\* A call that rebinds one key changes the map at that key.
LEMMA OneKeyBound ==
  ASSUME IInv, IInv', status = "up", status' = "up", NEW k \in Keys, NEW v \in Vals,
         \A k2 \in Keys : \A v2 : Holds(k2, v2)' <=> IF k2 = k THEN v2 = v ELSE Holds(k2, v2)
  PROVE  Contents' = [Contents EXCEPT ![k] = v]
<1>1. \A k2 \in Keys \ {k} : Contents'[k2] = Contents[k2]
  BY BindingsKept
<1>2. ContentsAreBindings'
  BY ContentsHold, PTL
<1>3. Contents'[k] = v
  BY <1>2 DEF ContentsAreBindings
<1>4. BindsEveryKey /\ BindsEveryKey'
  BY ContentsIsMap, PTL
<1> QED
  BY <1>1, <1>3, <1>4, SameMap DEF BindsEveryKey

\* A call that unbinds one key makes it absent from the map.
LEMMA OneKeyUnbound ==
  ASSUME IInv, IInv', status = "up", status' = "up", NEW k \in Keys,
         \A k2 \in Keys : \A v2 : Holds(k2, v2)' <=> Holds(k2, v2) /\ k2 # k
  PROVE  Contents' = [Contents EXCEPT ![k] = <<"absent">>]
<1>1. \A k2 \in Keys \ {k} : Contents'[k2] = Contents[k2]
  BY BindingsKept
<1>2. ContentsAreBindings'
  BY ContentsHold, PTL
<1>3. Contents'[k] = <<"absent">>
  BY <1>2 DEF ContentsAreBindings
<1>4. BindsEveryKey /\ BindsEveryKey'
  BY ContentsIsMap, PTL
<1> QED
  BY <1>1, <1>3, <1>4, SameMap DEF BindsEveryKey

\* Keys that a search does not find, or whose hash is negative, are not in the map.
LEMMA NotFound ==
  ASSUME IInv, NEW k \in Keys, hash(k) < 0 \/ ~InChain(k)
  PROVE  Contents[k] = <<"absent">>
<1>1. \A v : ~Holds(k, v)
  BY HashAssumption DEF Holds, InChain, hash, hash_mod
<1> QED
  BY <1>1, ContentsHold DEF ContentsAreBindings

\* The node the search stops at holds what the map binds.
LEMMA Found ==
  ASSUME IInv, status = "up", NEW k \in Keys, hash(k) >= 0,
         NEW i \in DOMAIN Chain(k), IsAt(i, k)
  PROVE  Contents[k] = Chain(k)[i].value /\ Contents[k] \in Vals
<1>1. Holds(k, Chain(k)[i].value)
  BY DEF Holds, IsAt
<1> QED
  BY <1>1, ContentsHold DEF ContentsAreBindings

-----------------------------------------------------------------------------

\* Replacing a value is an update of the map, or a call it refuses.
LEMMA ReplaceRefines ==
  ASSUME IInv, IInv', status = "up", status' = "up", NEW k \in Keys, NEW v \in Vals,
         NEW op \in {"SET", "MOD"}, hash(k) >= 0, Replace(op, k, v)
  PROVE  \/ /\ Map!Answers(op, k, "ok")
            /\ Contents[k] \in Vals
            /\ Contents' = [Contents EXCEPT ![k] = v]
         \/ Map!Refuse(op, k)
<1>1. ASSUME FALSE \in kvs_malloc, InChain(k), Return(op, k, -4, NULL),
             UNCHANGED <<nodes, count, blocks>>
      PROVE  Map!Refuse(op, k)
  <2>1. OutcomeOf(reply') = <<op, k, "error">>
    BY <1>1, Outcomes DEF Return, Ops
  <2>2. Contents' = Contents
    BY <1>1, ContentsKept
  <2> QED
    BY <2>1, <2>2 DEF Map!Refuse, Map!Answers
<1>2. ASSUME NEW i \in DOMAIN Chain(k), IsAt(i, k),
             nodes' = [nodes EXCEPT ![hash(k)][i].value = v], Return(op, k, 0, NULL)
      PROVE  /\ Map!Answers(op, k, "ok")
             /\ Contents[k] \in Vals
             /\ Contents' = [Contents EXCEPT ![k] = v]
  <2>1. OutcomeOf(reply') = <<op, k, "ok">>
    BY <1>2, Outcomes DEF Return, Ops
  <2>2. \A k2 \in Keys : \A v2 : Holds(k2, v2)' <=> IF k2 = k THEN v2 = v ELSE Holds(k2, v2)
    BY <1>2, NewValueBinds
  <2>3. Contents' = [Contents EXCEPT ![k] = v]
    BY <2>2, OneKeyBound
  <2> QED
    BY <1>2, <2>1, <2>3, Found DEF Map!Answers
<1> QED
  BY <1>1, <1>2 DEF Replace

\* Each way out of kvs_hash_set is a Set of the map.
LEMMA SetRefines ==
  ASSUME IInv, IInv', status = "up", status' = "up", NEW k \in Keys, NEW v \in Vals,
         kvs_hash_set(k, v)
  PROVE  Map!Set(k, v)
<1>1. CASE SetFull(k) \/ Reject("SET", k, -1) \/ SetNoMemory(k)
  <2>1. PICK ret \in {-2, -1, -3} : reply' = Reply("SET", k, ret, NULL)
    BY <1>1 DEF SetFull, Reject, SetNoMemory, Return
  <2>2. OutcomeOf(reply') = <<"SET", k, "error">>
    BY <2>1, Outcomes DEF Ops
  <2>3. Contents' = Contents
    BY <1>1, ContentsKept DEF SetFull, Reject, SetNoMemory
  <2> QED
    BY <2>2, <2>3 DEF Map!Set, Map!Refuse, Map!Answers
<1>2. CASE SetSame(k, v)
  <2>1. OutcomeOf(reply') = <<"SET", k, "same">>
    BY <1>2, Outcomes DEF SetSame, Return, Ops
  <2>2. Contents' = Contents /\ Contents[k] = v
    BY <1>2, ContentsKept, Found DEF SetSame
  <2> QED
    BY <2>1, <2>2 DEF Map!Set, Map!Answers
<1>3. CASE SetUpdate(k, v)
  <2>1. Contents[k] # v /\ hash(k) >= 0 /\ Replace("SET", k, v)
    BY <1>3, Found DEF SetUpdate
  <2> QED
    BY <2>1, ReplaceRefines DEF Map!Set
<1>4. CASE SetInsert(k, v)
  <2>1. OutcomeOf(reply') = <<"SET", k, "ok">>
    BY <1>4, Outcomes DEF SetInsert, Return, Ops
  <2>2. \A v2 : ~Holds(k, v2)
    BY <1>4 DEF SetInsert, Holds, InChain
  <2>3. \A k2 \in Keys : \A v2 : Holds(k2, v2)' <=> IF k2 = k THEN v2 = v ELSE Holds(k2, v2)
    BY <1>4, <2>2, InsertBinds
  <2>4. Contents' = [Contents EXCEPT ![k] = v]
    BY <2>3, OneKeyBound
  <2>5. Contents[k] # v
    BY <1>4, NotFound, HashAssumption DEF SetInsert
  <2> QED
    BY <2>1, <2>4, <2>5 DEF Map!Set, Map!Answers
<1> QED
  BY <1>1, <1>2, <1>3, <1>4 DEF kvs_hash_set

\* kvs_hash_mod is a Mod of the map.
LEMMA ModRefines ==
  ASSUME IInv, IInv', status = "up", status' = "up", NEW k \in Keys, NEW v \in Vals,
         kvs_hash_mod(k, v)
  PROVE  Map!Mod(k, v)
<1>1. CASE Reject("MOD", k, -1)
  <2>1. OutcomeOf(reply') = <<"MOD", k, "error">>
    BY <1>1, Outcomes DEF Reject, Return, Ops
  <2>2. Contents' = Contents
    BY <1>1, ContentsKept DEF Reject
  <2> QED
    BY <2>1, <2>2 DEF Map!Mod, Map!Refuse, Map!Answers
<1>2. CASE Missing("MOD", k, 1)
  <2>1. OutcomeOf(reply') = <<"MOD", k, "nokey">>
    BY <1>2, Outcomes DEF Missing, Return, Ops
  <2>2. Contents' = Contents /\ Contents[k] = <<"absent">>
    BY <1>2, ContentsKept, NotFound DEF Missing
  <2> QED
    BY <2>1, <2>2 DEF Map!Mod, Map!Answers
<1>3. CASE hash(k) >= 0 /\ Replace("MOD", k, v)
  BY <1>3, ReplaceRefines, HashAssumption DEF Map!Mod
<1> QED
  BY <1>1, <1>2, <1>3 DEF kvs_hash_mod

\* kvs_hash_get is a Get of the map.
LEMMA GetRefines ==
  ASSUME IInv, IInv', status = "up", status' = "up", NEW k \in Keys, kvs_hash_get(k)
  PROVE  Map!Get(k)
<1>1. Contents' = Contents
  BY ContentsKept DEF kvs_hash_get, Reject, Missing
<1>2. CASE Reject("GET", k, 0) \/ Missing("GET", k, 0)
  <2>1. OutcomeOf(reply') = <<"GET", k, "nokey">>
    BY <1>2, Outcomes DEF Reject, Missing, Return, Ops
  <2>2. Contents[k] = <<"absent">>
    BY <1>2, NotFound DEF Reject, Missing
  <2> QED
    BY <1>1, <2>1, <2>2, HashAssumption DEF Map!Get, Map!Answers
<1>3. ASSUME hash(k) >= 0, NEW i \in DOMAIN Chain(k), IsAt(i, k),
             Return("GET", k, 0, Chain(k)[i].value)
      PROVE  Map!Get(k)
  <2>1. Contents[k] = Chain(k)[i].value /\ Contents[k] \in Vals
    BY <1>3, Found
  <2>2. OutcomeOf(reply') = <<"GET", k, Contents[k]>>
    BY <1>3, <2>1, Outcomes, HashAssumption DEF Return, Ops
  <2> QED
    BY <1>1, <2>1, <2>2 DEF Map!Get, Map!Answers
<1> QED
  BY <1>2, <1>3 DEF kvs_hash_get

\* Each way out of kvs_hash_del is a Del of the map.
LEMMA DelRefines ==
  ASSUME IInv, IInv', status = "up", status' = "up", NEW k \in Keys, kvs_hash_del(k)
  PROVE  Map!Del(k)
<1>1. CASE Missing("DEL", k, 1) \/ DelOutside(k)
  <2>1. OutcomeOf(reply') = <<"DEL", k, "nokey">>
    BY <1>1, Outcomes DEF Missing, DelOutside, Return, Ops
  <2>2. Contents' = Contents /\ Contents[k] = <<"absent">>
    BY <1>1, ContentsKept, NotFound DEF Missing, DelOutside
  <2> QED
    BY <2>1, <2>2 DEF Map!Del, Map!Answers
<1>2. CASE DelFound(k)
  <2>1. OutcomeOf(reply') = <<"DEL", k, "ok">>
    BY <1>2, Outcomes DEF DelFound, Return, Ops
  <2>2. \A k2 \in Keys : \A v2 : Holds(k2, v2)' <=> Holds(k2, v2) /\ k2 # k
    BY <1>2, DelFoundUnbinds
  <2>3. Contents' = [Contents EXCEPT ![k] = <<"absent">>]
    BY <2>2, OneKeyUnbound
  <2>4. Contents[k] # <<"absent">>
    BY <1>2, Found, HashAssumption DEF DelFound
  <2> QED
    BY <2>1, <2>3, <2>4 DEF Map!Del, Map!Answers
<1> QED
  BY <1>1, <1>2 DEF kvs_hash_del

\* kvs_hash_exist is an Exist of the map.
LEMMA ExistRefines ==
  ASSUME IInv, IInv', status = "up", status' = "up", NEW k \in Keys, kvs_hash_exist(k)
  PROVE  Map!Exist(k)
<1>1. Contents' = Contents
  BY ContentsKept DEF kvs_hash_exist
<1>2. CASE hash(k) >= 0 /\ InChain(k)
  <2>1. OutcomeOf(reply') = <<"EXIST", k, "ok">>
    BY <1>2, Outcomes DEF kvs_hash_exist, Return, Ops
  <2>2. Contents[k] # <<"absent">>
    BY <1>2, Found, HashAssumption DEF InChain, IsAt
  <2> QED
    BY <1>1, <2>1, <2>2 DEF Map!Exist, Map!Answers
<1>3. CASE ~(hash(k) >= 0 /\ InChain(k))
  <2>1. OutcomeOf(reply') = <<"EXIST", k, "nokey">>
    BY <1>3, Outcomes DEF kvs_hash_exist, Return, Ops
  <2>2. hash(k) \in Int
    BY HashAssumption DEF hash, hash_mod
  <2>3. Contents[k] = <<"absent">>
    BY <1>3, <2>2, NotFound
  <2> QED
    BY <1>1, <2>1, <2>3, HashAssumption DEF Map!Exist, Map!Answers
<1> QED
  BY <1>2, <1>3

\* The engine starts as the map does.
LEMMA InitRefines == Init => Map!Init
<1> SUFFICES ASSUME Init PROVE Map!Init
  OBVIOUS
<1>1. ASSUME NEW k \in Keys, hash(k) >= 0 PROVE ~InChain(k)
  <2>1. Chain(k) = <<>>
    BY <1>1, HashInTable DEF Init, kvs_hash_create, Chain
  <2> QED
    BY <2>1 DEF InChain
<1>2. Contents = [k \in Keys |-> <<"absent">>]
  BY <1>1 DEF Contents, Bound
<1>3. OutcomeOf(reply) = <<>>
  BY DEF Init, kvs_hash_create, NoReply, Reply, OutcomeOf
<1> QED
  BY <1>2, <1>3 DEF Map!Init

\* Each call of the engine is a call of the map, or is not seen there.
LEMMA NextRefines == IInv /\ IInv' /\ [Next]_vars => [Map!Next]_(Map!vars)
<1> SUFFICES ASSUME IInv, IInv', [Next]_vars PROVE [Map!Next]_(Map!vars)
  OBVIOUS
<1>1. ASSUME status = "up", NEW k \in Keys, Call(k) PROVE Map!Next
  <2>1. status' = "up"
    BY <1>1 DEF Call
  <2> QED
    BY <1>1, <2>1, SetRefines, ModRefines, GetRefines, DelRefines, ExistRefines
       DEF Call, Map!Next
<1>2. ASSUME status = "up", NEW k \in Keys, DelCrash(k) PROVE UNCHANGED Map!vars
  BY <1>2, ContentsKept DEF DelCrash, Map!vars
<1>3. CASE kvs_hash_destory
  <2>1. Contents' = [k \in Keys |-> <<"absent">>] /\ UNCHANGED reply
    BY <1>3 DEF kvs_hash_destory, Contents
  <2> QED
    BY <2>1 DEF Map!Next, Map!Clear
<1>4. CASE UNCHANGED vars
  BY <1>4 DEF vars, Map!vars, Contents, Bound, InChain, Chain, IsAt, hash, hash_mod
<1> QED
  BY <1>1, <1>2, <1>3, <1>4 DEF Next

\* Every behaviour of the engine is one of the strict map: replies and contents
\* agree, and a call that is refused, for want of memory, of a free slot or of an
\* index, changes nothing.
THEOREM HashImplementsMap == Spec => ImplementsMap
BY InitRefines, NextRefines, Invariance, PTL DEF Spec, ImplementsMap, Map!Spec
=============================================================================
