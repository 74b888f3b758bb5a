------------------------------ MODULE KvsRbtree ------------------------------
(***************************************************************************)
(* The red-black tree engine of zzx_kvstore (kvs_rbtree.c), pointer by      *)
(* pointer: nodes with colour, children, parent, key and value, the        *)
(* sentinel nil, and the rotations and fix-up loops on them.  Keys are     *)
(* integers in the order strcmp gives the strings.                         *)
(*                                                                         *)
(* A tree h is a record [node, root]; the helper operators take a tree and *)
(* give the tree the C function leaves behind.  The two mirrored branches  *)
(* of each loop are one, with the side d as a parameter.                   *)
(***************************************************************************)
EXTENDS KVReply, FiniteSets, Sequences

CONSTANT
  MallocMayFail    \* TRUE: kvs_malloc may return NULL

ASSUME RbtreeAssumption ==
  /\ Keys \subseteq Nat \ {0} /\ IsFiniteSet(Keys)
  /\ MallocMayFail \in BOOLEAN
  /\ NULL \notin Keys \cup Vals

VARIABLES
  tree,      \* [node |-> id -> record, root |-> id]
  blocks,    \* heap blocks taken for nodes, keys and values and not freed
  status,    \* "up", "crashed", "destroyed"
  reply      \* what the last call returned

vars == <<tree, blocks, status, reply>>

nil    == 0
NodeId == Keys                     \* one node per key is all it ever takes
RED    == "red"
BLACK  == "black"
Sides  == {"left", "right"}
Other(d) == IF d = "left" THEN "right" ELSE "left"

\* A node the allocator holds; also what memset makes of the sentinel, whose
\* children are therefore NULL and not nil.
Blank == [color |-> BLACK, left |-> NULL, right |-> NULL, parent |-> NULL,
          key |-> NULL, value |-> NULL]

Child(h, n, d)       == h.node[n][d]
Parent(h, n)         == h.node[n].parent
IsRed(h, n)          == h.node[n].color = RED
Paint(h, n, c)       == [h EXCEPT !.node[n].color = c]
SetChild(h, p, d, n) == [h EXCEPT !.node[p][d] = n]
SetParent(h, n, p)   == [h EXCEPT !.node[n].parent = p]
SideOf(h, p, n)      == IF n = Child(h, p, "left") THEN "left" ELSE "right"

\* Puts n where old hung: at the root, or on its side of the parent p.
Relink(h, p, old, n) ==
  IF p = nil THEN [h EXCEPT !.root = n] ELSE SetChild(h, p, SideOf(h, p, old), n)

RECURSIVE rbtree_mini(_, _)
rbtree_mini(h, x) ==
  IF Child(h, x, "left") = nil THEN x ELSE rbtree_mini(h, Child(h, x, "left"))

\* rbtree_delete calls it for a node that has a right child: the climb to an
\* ancestor in the second half of the function never runs.
rbtree_successor(h, x) == rbtree_mini(h, Child(h, x, "right"))

\* rbtree_left_rotate for d = "left", rbtree_right_rotate for d = "right":
\* the child y of x on the other side takes the place of x.
Rotate(h, x, d) ==
  LET y  == Child(h, x, Other(d))
      b  == Child(h, y, d)
      h1 == SetChild(h, x, Other(d), b)
      h2 == IF b # nil THEN SetParent(h1, b, x) ELSE h1
      h3 == SetParent(h2, y, Parent(h, x))
      h4 == Relink(h3, Parent(h, x), x, y)
  IN  SetParent(SetChild(h4, y, d, x), x, y)

\* A red uncle passes the problem up; a black one ends it with a rotation.
RECURSIVE rbtree_insert_fixup(_, _)
rbtree_insert_fixup(h, z) ==
  IF ~IsRed(h, Parent(h, z)) THEN Paint(h, h.root, BLACK)
  ELSE
    LET p == Parent(h, z)
        g == Parent(h, p)
        d == SideOf(h, g, p)
        y == Child(h, g, Other(d))
    IN  IF IsRed(h, y)
        THEN rbtree_insert_fixup(
               Paint(Paint(Paint(h, p, BLACK), y, BLACK), g, RED), g)
        ELSE
          LET inner == z = Child(h, p, Other(d))
              z1 == IF inner THEN p ELSE z
              h1 == IF inner THEN Rotate(h, p, d) ELSE h
              p1 == Parent(h1, z1)
              g1 == Parent(h1, p1)
          IN  rbtree_insert_fixup(
                Rotate(Paint(Paint(h1, p1, BLACK), g1, RED), g1, Other(d)), z1)

\* The node under which a search for k ends.
RECURSIVE LeafFor(_, _, _, _)
LeafFor(h, k, x, y) ==
  IF x = nil THEN y
  ELSE LeafFor(h, k, Child(h, x, IF k < h.node[x].key THEN "left" ELSE "right"), x)

\* z carries its key and value already; kvs_rbtree_set has searched for the
\* key before, so the silent return on an equal key is never taken.
rbtree_insert(h, z) ==
  LET k  == h.node[z].key
      y  == LeafFor(h, k, h.root, nil)
      h1 == SetParent(h, z, y)
      h2 == IF y = nil THEN [h1 EXCEPT !.root = z]
            ELSE SetChild(h1, y, IF k < h.node[y].key THEN "left" ELSE "right", z)
      h3 == SetChild(SetChild(h2, z, "left", nil), z, "right", nil)
  IN  rbtree_insert_fixup(Paint(h3, z, RED), z)

\* x carries one black too many; w is its sibling.
RECURSIVE rbtree_delete_fixup(_, _)
rbtree_delete_fixup(h, x) ==
  IF x = h.root \/ IsRed(h, x) THEN Paint(h, x, BLACK)
  ELSE
    LET p  == Parent(h, x)
        d  == SideOf(h, p, x)
        w0 == Child(h, p, Other(d))
        h1 == IF IsRed(h, w0)
              THEN Rotate(Paint(Paint(h, w0, BLACK), p, RED), p, d) ELSE h
        w1 == Child(h1, p, Other(d))
        near == Child(h1, w1, d)
        far  == Child(h1, w1, Other(d))
    IN  IF ~IsRed(h1, near) /\ ~IsRed(h1, far)
        THEN rbtree_delete_fixup(Paint(h1, w1, RED), Parent(h1, x))
        ELSE
          LET h2 == IF ~IsRed(h1, far)
                    THEN Rotate(Paint(Paint(h1, near, BLACK), w1, RED), w1, Other(d))
                    ELSE h1
              w2 == Child(h2, p, Other(d))
              h3 == Paint(Paint(h2, w2, h2.node[p].color), p, BLACK)
              h4 == Rotate(Paint(h3, Child(h3, w2, Other(d)), BLACK), p, d)
          IN  Paint(h4, h4.root, BLACK)

\* The node that leaves the tree when the key of z is deleted.
Victim(h, z) ==
  IF Child(h, z, "left") = nil \/ Child(h, z, "right") = nil
  THEN z ELSE rbtree_successor(h, z)

\* Mutant: the fix-up runs when the victim was red instead of black.
rbtree_delete_WrongColour(h, z) ==
  LET y  == Victim(h, z)
      x  == IF Child(h, y, "left") # nil THEN Child(h, y, "left")
                                          ELSE Child(h, y, "right")
      h1 == Relink(SetParent(h, x, Parent(h, y)), Parent(h, y), y, x)
      h2 == IF y = z THEN h1
            ELSE [h1 EXCEPT !.node[z].key = h.node[y].key,
                            !.node[z].value = h.node[y].value,
                            !.node[y].key = h.node[z].key,
                            !.node[y].value = h.node[z].value]
  IN  IF IsRed(h2, y) THEN rbtree_delete_fixup(h2, x) ELSE h2

\* Mutant: only the keys change places, each node keeps its value.
rbtree_delete_KeyOnly(h, z) ==
  LET y  == Victim(h, z)
      x  == IF Child(h, y, "left") # nil THEN Child(h, y, "left")
                                          ELSE Child(h, y, "right")
      h1 == Relink(SetParent(h, x, Parent(h, y)), Parent(h, y), y, x)
      h2 == IF y = z THEN h1
            ELSE [h1 EXCEPT !.node[z].key = h.node[y].key,
                            !.node[y].key = h.node[z].key]
  IN  IF IsRed(h2, y) THEN h2 ELSE rbtree_delete_fixup(h2, x)

\* The victim y is unlinked; if it is the successor of z, the two swap key
\* and value, so that y carries the strings that are to be freed.
rbtree_delete(h, z) ==
  LET y  == Victim(h, z)
      x  == IF Child(h, y, "left") # nil THEN Child(h, y, "left")
                                          ELSE Child(h, y, "right")
      h1 == Relink(SetParent(h, x, Parent(h, y)), Parent(h, y), y, x)
      h2 == IF y = z THEN h1
            ELSE [h1 EXCEPT !.node[z].key = h.node[y].key,
                            !.node[z].value = h.node[y].value,
                            !.node[y].key = h.node[z].key,
                            !.node[y].value = h.node[z].value]
  IN  IF IsRed(h2, y) THEN h2 ELSE rbtree_delete_fixup(h2, x)

RECURSIVE SearchFrom(_, _, _)
SearchFrom(h, k, x) ==
  IF x = nil \/ h.node[x].key = k THEN x
  ELSE SearchFrom(h, k, Child(h, x, IF k < h.node[x].key THEN "left" ELSE "right"))
rbtree_search(k) == SearchFrom(tree, k, tree.root)

-----------------------------------------------------------------------------
kvs_malloc == IF MallocMayFail THEN BOOLEAN ELSE {TRUE}
Return(op, k, ret, val) == reply' = Reply(op, k, ret, val)

InUse(h, n)  == h.node[n].key # NULL

\* The address malloc picks for a new node does not matter; the model takes
\* the one named after the key when it is free.
FreshNode(k) == IF ~InUse(tree, k) THEN k ELSE CHOOSE n \in NodeId : ~InUse(tree, n)

kvs_rbtree_create ==
  /\ tree = [node |-> [n \in NodeId \cup {nil} |-> Blank], root |-> nil]
  /\ blocks = 0
  /\ status = "up"
  /\ reply = NoReply

Missing(op, k, ret) ==
  /\ rbtree_search(k) = nil
  /\ Return(op, k, ret, NULL)
  /\ UNCHANGED <<tree, blocks>>

\* The old value is freed first; without memory for the new one the node
\* stays in the tree with a NULL value.
Overwrite(op, k, v, failure) ==
  LET n == rbtree_search(k)
  IN  \E ok \in kvs_malloc :
        /\ tree' = [tree EXCEPT !.node[n].value = IF ok THEN v ELSE NULL]
        /\ blocks' = blocks - (IF tree.node[n].value = NULL THEN 0 ELSE 1)
                            + (IF ok THEN 1 ELSE 0)
        /\ Return(op, k, IF ok THEN 0 ELSE failure, NULL)

SetSame(k, v) ==
  /\ rbtree_search(k) # nil
  /\ tree.node[rbtree_search(k)].value = v
  /\ Return("SET", k, 1, NULL)
  /\ UNCHANGED <<tree, blocks>>

SetUpdate(k, v) ==
  /\ rbtree_search(k) # nil
  /\ tree.node[rbtree_search(k)].value \notin {v, NULL}
  /\ Overwrite("SET", k, v, -4)

\* A node with its two strings is put into the tree.
NewNode(k, v) ==
  /\ rbtree_search(k) = nil
  /\ LET z == FreshNode(k)
     IN  tree' = rbtree_insert([tree EXCEPT !.node[z].key = k, !.node[z].value = v], z)
  /\ blocks' = blocks + 3

SetInsert(k, v) == NewNode(k, v) /\ Return("SET", k, 0, NULL)

\* No memory for the node, its key or its value: all is given back.
SetNoMemory(k) ==
  /\ rbtree_search(k) = nil
  /\ FALSE \in kvs_malloc
  /\ \E ret \in {-2, -3, -4} : Return("SET", k, ret, NULL)
  /\ UNCHANGED <<tree, blocks>>

kvs_rbtree_set(k, v) ==
  SetSame(k, v) \/ SetUpdate(k, v) \/ SetInsert(k, v) \/ SetNoMemory(k)

\* strcmp on the NULL value of a key whose update failed.
SetCrash(k) ==
  /\ rbtree_search(k) # nil
  /\ tree.node[rbtree_search(k)].value = NULL
  /\ status' = "crashed"
  /\ UNCHANGED <<tree, blocks, reply>>

kvs_rbtree_get(k) ==
  \/ Missing("GET", k, 0)
  \/ /\ rbtree_search(k) # nil
     /\ Return("GET", k, 0, tree.node[rbtree_search(k)].value)
     /\ UNCHANGED <<tree, blocks>>

\* The node rbtree_delete hands back is freed with its strings.
FreeNode(k) ==
  LET z == rbtree_search(k)
      y == Victim(tree, z)
      h == rbtree_delete(tree, z)
  IN  /\ z # nil
      /\ tree' = [h EXCEPT !.node[y] = Blank]
      /\ blocks' = blocks - (IF h.node[y].value = NULL THEN 2 ELSE 3)

DelFound(k) == FreeNode(k) /\ Return("DEL", k, 0, NULL)

kvs_rbtree_del(k) == DelFound(k) \/ Missing("DEL", k, 1)

kvs_rbtree_mod(k, v) ==
  \/ Missing("MOD", k, 1)
  \/ rbtree_search(k) # nil /\ Overwrite("MOD", k, v, -2)

\* A key without a value exists, unlike in the array engine.
kvs_rbtree_exist(k) ==
  \/ Missing("EXIST", k, 1)
  \/ /\ rbtree_search(k) # nil
     /\ Return("EXIST", k, 0, NULL)
     /\ UNCHANGED <<tree, blocks>>

\* The loop runs while the root is a null pointer, which it never is: the
\* sentinel is freed and every node stays behind.
kvs_rbtree_destory ==
  /\ status' = "destroyed"
  /\ UNCHANGED <<tree, blocks, reply>>

Call(k) ==
  /\ \/ \E v \in Vals : kvs_rbtree_set(k, v) \/ kvs_rbtree_mod(k, v)
     \/ kvs_rbtree_get(k) \/ kvs_rbtree_del(k) \/ kvs_rbtree_exist(k)
  /\ UNCHANGED status

Next ==
  /\ status = "up"
  /\ (\E k \in Keys : Call(k) \/ SetCrash(k)) \/ kvs_rbtree_destory

Init == kvs_rbtree_create

Spec == Init /\ [][Next]_vars

-----------------------------------------------------------------------------
InTree == {n \in NodeId : InUse(tree, n)}
Links  == NodeId \cup {nil, NULL}

NodeRecords ==
  [color : {RED, BLACK}, left : Links, right : Links, parent : Links,
   key : Keys \cup {NULL}, value : Vals \cup {NULL}]
Heaps == [NodeId \cup {nil} -> NodeRecords]

\* Nodes, counter and reply keep their types; the sentinel stays black and
\* childless.
TypeOK ==
  /\ tree.node \in Heaps
  /\ tree.root \in NodeId \cup {nil}
  /\ blocks \in 0..(3 * Cardinality(Keys))
  /\ status \in {"up", "crashed", "destroyed"}
  /\ reply \in Replies
  /\ tree.node[nil] = [Blank EXCEPT !.parent = Parent(tree, nil)]

HangsFrom(n, p) ==
  /\ p \in NodeId /\ InUse(tree, p)
  /\ \E d \in Sides : Child(tree, p, d) = n

\* Parent and child pointers agree, every node in use hangs from one parent
\* or is the root, whose parent is the sentinel.
WellLinked ==
  /\ tree.root # nil => InUse(tree, tree.root) /\ Parent(tree, tree.root) = nil
  /\ \A n \in InTree :
       /\ \A d \in Sides : LET c == Child(tree, n, d) IN
            c # nil => c \in NodeId /\ InUse(tree, c) /\ Parent(tree, c) = n
       /\ n # tree.root => HangsFrom(n, Parent(tree, n))

RECURSIVE KeysUnder(_)
KeysUnder(n) ==
  IF n = nil THEN <<>>
  ELSE KeysUnder(Child(tree, n, "left")) \o <<tree.node[n].key>>
                                         \o KeysUnder(Child(tree, n, "right"))

\* Search order: from left to right the keys grow, and every node in use is met.
SearchOrder ==
  LET keys == KeysUnder(tree.root) IN
    /\ Len(keys) = Cardinality(InTree)
    /\ \A i \in 1..(Len(keys) - 1) : keys[i] < keys[i + 1]

\* The black nodes on any path from n down, or Uneven when two paths differ.
Uneven == -1
RECURSIVE BlackHeight(_)
BlackHeight(n) ==
  IF n = nil THEN 0
  ELSE LET left == BlackHeight(Child(tree, n, "left"))
           right == BlackHeight(Child(tree, n, "right"))
       IN  IF left # right \/ left = Uneven THEN Uneven
           ELSE left + (IF IsRed(tree, n) THEN 0 ELSE 1)

\* The colours balance the tree: the root is black, a red node has black
\* children, and every path from a node down meets as many black nodes.
Balanced ==
  /\ ~IsRed(tree, tree.root)
  /\ \A n \in InTree : IsRed(tree, n) =>
       \A d \in Sides : ~IsRed(tree, Child(tree, n, d))
  /\ BlackHeight(tree.root) # Uneven

\* Every block the engine holds belongs to a node of the tree.
LedgerExact ==
  blocks = 2 * Cardinality(InTree)
           + Cardinality({n \in InTree : tree.node[n].value # NULL})

\* Over every sequence of insertions and deletions the tree stays a red-black tree,
\* linked both ways, ordered and balanced, and holds exactly the blocks the engine
\* was given (kvs_rbtree.c:102-373, 513-649).
RedBlack == TypeOK /\ WellLinked /\ SearchOrder /\ Balanced /\ LedgerExact

\* What a search for k finds, and of every key.
Found(k) ==
  LET n == rbtree_search(k)
  IN  IF status = "destroyed" \/ n = nil THEN <<"absent">>
      ELSE IF tree.node[n].value = NULL THEN <<"lost">> ELSE tree.node[n].value
Contents == [k \in Keys |-> Found(k)]

Map == INSTANCE KVMap WITH
  dict <- Contents, answer <- OutcomeOf(reply),
  Absent <- <<"absent">>, Lost <- <<"lost">>, LossyFailure <- MallocMayFail

\* The tree implements the map: what a search finds in it changes the way the
\* calls say, through every rotation and every swap of a deleted node.
ImplementsMap == Map!Spec
=============================================================================
