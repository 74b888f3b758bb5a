------------------------------- MODULE NtyTree -------------------------------
(***************************************************************************)
(* The trees of NtyCo (nty_tree.h): the red-black tree in which the        *)
(* scheduler keeps sleeping and waiting coroutines, and the splay tree     *)
(* that stands in the same header.  Pointer by pointer; an element is      *)
(* named by its key, the comparison macro being the order of keys, and     *)
(* NULL is 0.                                                              *)
(*                                                                         *)
(* A red-black tree t is [node, root], with no sentinel: NULL has neither  *)
(* parent nor colour, which makes the fix-up after a removal carry the     *)
(* parent along.  Of mirrored branches one is written, with the side d as  *)
(* a parameter.  Functions that only look are operators, asked in every    *)
(* state.  Fields of an element outside the tree are 0: they are written   *)
(* before they are read again.                                             *)
(***************************************************************************)
EXTENDS Integers, FiniteSets

CONSTANTS
    RbKeys,    \* elements of the red-black tree
    SplayKeys  \* elements of the splay tree

ASSUME NtyTreeAssumption ==
    /\ RbKeys \subseteq Nat \ {0} /\ IsFiniteSet(RbKeys)
    /\ SplayKeys \subseteq Nat \ {0} /\ IsFiniteSet(SplayKeys)

VARIABLES
    rbt,    \* the red-black tree
    spl,    \* the splay tree
    held    \* history: [rb, sp], what was inserted and not removed

treeVars == <<rbt, spl, held>>

None == 0
RB_RED == "red"
RB_BLACK == "black"
Opp(d) == IF d = "left" THEN "right" ELSE "left"
Toward(k, n) == IF k < n THEN "left" ELSE "right"

\* RB_INIT
RbLoose == [left |-> None, right |-> None, parent |-> None, color |-> RB_BLACK]
RbEmpty == [node |-> [n \in RbKeys |-> RbLoose], root |-> None]

RbIsRed(t, n) == n # None /\ t.node[n].color = RB_RED
RbColor(t, n, c) == IF n = None THEN t ELSE [t EXCEPT !.node[n].color = c]
RbParent(t, n, p) == IF n = None THEN t ELSE [t EXCEPT !.node[n].parent = p]
RB_SET_BLACKRED(t, black, red) == RbColor(RbColor(t, black, RB_BLACK), red, RB_RED)
RbSide(t, p, n) == IF n = t.node[p].left THEN "left" ELSE "right"

\* What hung from p where old does is now n.
RbHang(t, p, old, n) ==
    IF p = None THEN [t EXCEPT !.root = n] ELSE [t EXCEPT !.node[p][RbSide(t, p, old)] = n]

\* RB_SET: a new element is red and has no children.
RB_SET(t, elm, parent) ==
    [t EXCEPT !.node[elm] = [RbLoose EXCEPT !.parent = parent, !.color = RB_RED]]

\* RB_ROTATE_LEFT for d = "left": the other child of elm takes its place.
RB_ROTATE(t, elm, d) ==
    LET tmp == t.node[elm][Opp(d)]
        inner == t.node[tmp][d]
        p == t.node[elm].parent
        t1 == RbParent([t EXCEPT !.node[elm][Opp(d)] = inner], inner, elm)
        t2 == RbHang(RbParent(t1, tmp, p), p, elm, tmp)
    IN  [t2 EXCEPT !.node[tmp][d] = elm, !.node[elm].parent = tmp]

RECURSIVE RB_INSERT_COLOR(_, _)
RB_INSERT_COLOR(t, elm) ==
    LET parent == t.node[elm].parent
        gparent == t.node[parent].parent
        d == RbSide(t, gparent, parent)
        uncle == t.node[gparent][Opp(d)]
        inner == t.node[parent][Opp(d)] = elm
        turned == IF inner THEN RB_ROTATE(t, parent, d) ELSE t
        top == IF inner THEN elm ELSE parent
    IN  IF ~RbIsRed(t, parent) THEN RbColor(t, t.root, RB_BLACK)
        ELSE IF RbIsRed(t, uncle)
        THEN RB_INSERT_COLOR(RB_SET_BLACKRED(RbColor(t, uncle, RB_BLACK), parent, gparent), gparent)
        ELSE RB_INSERT_COLOR(
               RB_ROTATE(RB_SET_BLACKRED(turned, top, gparent), gparent, Opp(d)),
               IF inner THEN parent ELSE elm)

\* The last element the search for k meets, None in an empty tree.
RECURSIVE RbLast(_, _, _)
RbLast(t, k, n) ==
    IF n = None THEN None
    ELSE LET below == t.node[n][Toward(k, n)]
         IN  IF n = k \/ below = None THEN n ELSE RbLast(t, k, below)

RB_INSERT(t, elm) ==
    LET parent == RbLast(t, elm, t.root)
        set == RB_SET(t, elm, parent)
    IN  IF parent = elm THEN t
        ELSE RB_INSERT_COLOR(
               IF parent = None THEN [set EXCEPT !.root = elm]
               ELSE [set EXCEPT !.node[parent][Toward(elm, parent)] = elm], elm)

\* The side of elm under parent lacks one black element; elm may be NULL.
RECURSIVE RB_REMOVE_COLOR(_, _, _)
RB_REMOVE_COLOR(t, parent, elm) ==
    LET d == RbSide(t, parent, elm)
        red == t.node[parent][Opp(d)]
        t1 == IF RbIsRed(t, red) THEN RB_ROTATE(RB_SET_BLACKRED(t, red, parent), parent, d) ELSE t
        tmp == t1.node[parent][Opp(d)]
        near == t1.node[tmp][d]
        far == t1.node[tmp][Opp(d)]
        t2 == IF RbIsRed(t1, far) THEN t1
              ELSE RB_ROTATE(RB_SET_BLACKRED(t1, near, tmp), tmp, Opp(d))
        top == t2.node[parent][Opp(d)]
        t3 == RbColor(RbColor(t2, top, t2.node[parent].color), parent, RB_BLACK)
        t4 == RB_ROTATE(RbColor(t3, t3.node[top][Opp(d)], RB_BLACK), parent, d)
    IN  IF RbIsRed(t, elm) \/ elm = t.root THEN RbColor(t, elm, RB_BLACK)
        ELSE IF ~RbIsRed(t1, near) /\ ~RbIsRed(t1, far)
        THEN RB_REMOVE_COLOR(RbColor(t1, tmp, RB_RED), t1.node[parent].parent, parent)
        ELSE RbColor(t4, t4.root, RB_BLACK)

RECURSIVE Outermost(_, _, _)
Outermost(t, n, d) == IF t.node[n][d] = None THEN n ELSE Outermost(t, t.node[n][d], d)

\* elm, which has at most one child, gives that child its place.
RbUnlink(t, elm) ==
    LET parent == t.node[elm].parent
        child == IF t.node[elm].left = None THEN t.node[elm].right ELSE t.node[elm].left
    IN  RbHang(RbParent(t, child, parent), parent, elm, child)

\* elm takes over the fields of old, and old's parent and children take elm.
RbReplace(t, old, elm) ==
    LET f == t.node[old]
        t1 == RbHang([t EXCEPT !.node[elm] = f], f.parent, old, elm)
    IN  RbParent(RbParent(t1, f.left, elm), f.right, elm)

RB_REMOVE(t, old) ==
    LET single == t.node[old].left = None \/ t.node[old].right = None
        elm == IF single THEN old ELSE Outermost(t, t.node[old].right, "left")
        child == IF t.node[elm].left = None THEN t.node[elm].right ELSE t.node[elm].left
        parent == IF t.node[elm].parent = old THEN elm ELSE t.node[elm].parent
        out == IF single THEN RbUnlink(t, old) ELSE RbReplace(RbUnlink(t, elm), old, elm)
        done == IF t.node[elm].color = RB_RED THEN out
                ELSE RB_REMOVE_COLOR(out, IF single THEN t.node[old].parent ELSE parent, child)
    IN  [done EXCEPT !.node[old] = RbLoose]

RB_FIND(t, k) == IF RbLast(t, k, t.root) = k THEN k ELSE None

RECURSIVE RbNFind(_, _, _, _)
RbNFind(t, k, n, res) ==
    IF n = None THEN res ELSE IF n = k THEN n
    ELSE RbNFind(t, k, t.node[n][Toward(k, n)], IF k < n THEN n ELSE res)
RB_NFIND(t, k) == RbNFind(t, k, t.root, None)

\* Up from a child on side d to the first ancestor on whose other side it is.
RECURSIVE Climb(_, _, _)
Climb(t, n, d) ==
    LET p == t.node[n].parent IN
    IF p # None /\ n = t.node[p][d] THEN Climb(t, p, d) ELSE p

RB_NEXT(t, n) ==
    IF t.node[n].right # None THEN Outermost(t, t.node[n].right, "left") ELSE Climb(t, n, "right")
RB_PREV(t, n) ==
    IF t.node[n].left # None THEN Outermost(t, t.node[n].left, "right") ELSE Climb(t, n, "left")
RB_MINMAX(t, d) == IF t.root = None THEN None ELSE Outermost(t, t.root, d)

\* RB_FOREACH_SAFE with a body that removes what it visits: the next element is
\* looked up before, in the tree that still has the present one.
RECURSIVE RbDrain(_, _, _)
RbDrain(t, x, seen) ==
    IF x = None THEN [tree |-> t, seen |-> seen]
    ELSE RbDrain(RB_REMOVE(t, x), RB_NEXT(t, x), IF \A n \in seen : n < x THEN seen \cup {x} ELSE {})

-----------------------------------------------------------------------------
\* The splay tree.  Aux is the local __node, from which the two trees hang
\* that SPLAY takes apart.
Aux == -1
SplayLoose == [left |-> None, right |-> None]
SPLAY_INIT == [node |-> [n \in SplayKeys \cup {Aux} |-> SplayLoose], root |-> None]

\* SPLAY_ROTATE_RIGHT for d = "left": tmp is that child of the root.
SPLAY_ROTATE(t, tmp, d) ==
    [t EXCEPT !.node[t.root][d] = t.node[tmp][Opp(d)], !.node[tmp][Opp(d)] = t.root, !.root = tmp]

\* SPLAY_LINKLEFT for d = "left": the root goes below side, and its child on d
\* is the root.
SPLAY_LINK(t, side, d) ==
    [t EXCEPT !.node[side][d] = t.root, !.root = t.node[t.root][d]]

SPLAY_ASSEMBLE(t, left, right) ==
    LET t1 == [t EXCEPT !.node[left].right = t.node[t.root].left]
        t2 == [t1 EXCEPT !.node[right].left = t1.node[t.root].right]
    IN  [t2 EXCEPT !.node[t.root] = [left |-> t2.node[Aux].right, right |-> t2.node[Aux].left],
                   !.node[Aux] = SplayLoose]

RECURSIVE SplayLoop(_, _, _, _)
SplayLoop(t, k, left, right) ==
    LET d == Toward(k, t.root)
        tmp == t.node[t.root][d]
        zigzig == Toward(k, tmp) = d /\ k # tmp
        t1 == IF zigzig THEN SPLAY_ROTATE(t, tmp, d) ELSE t
    IN  IF k = t.root \/ tmp = None THEN SPLAY_ASSEMBLE(t, left, right)
        ELSE IF zigzig /\ t1.node[t1.root][d] = None THEN SPLAY_ASSEMBLE(t1, left, right)
        ELSE IF d = "left"
        THEN SplayLoop(SPLAY_LINK(t1, right, d), k, left, t1.root)
        ELSE SplayLoop(SPLAY_LINK(t1, left, d), k, t1.root, right)

SPLAY(t, k) == SplayLoop(t, k, Aux, Aux)

\* SPLAY_MINMAX runs the loop of SPLAY with the comparison always the same, as
\* a key below or above all others makes it.
SPLAY_MINMAX(t, d) ==
    SPLAY(t, IF d = "left" THEN None ELSE 1 + CHOOSE m \in SplayKeys : \A n \in SplayKeys : n <= m)

SPLAY_INSERT(t, elm) ==
    LET s == SPLAY(t, elm)
        d == Toward(elm, s.root)
    IN  IF t.root = None THEN [t EXCEPT !.node[elm] = SplayLoose, !.root = elm]
        ELSE IF elm = s.root THEN s
        ELSE [s EXCEPT !.node[elm] = [SplayLoose EXCEPT ![d] = s.node[s.root][d], ![Opp(d)] = s.root],
                       !.node[s.root][d] = None, !.root = elm]

SPLAY_REMOVE(t, elm) ==
    LET s == SPLAY(t, elm)
        f == s.node[elm]
        joined == SPLAY([s EXCEPT !.root = f.left], elm)
    IN  IF t.root = None THEN t ELSE IF s.root # elm THEN s
        ELSE [(IF f.left = None THEN [s EXCEPT !.root = f.right]
               ELSE [joined EXCEPT !.node[joined.root].right = f.right])
              EXCEPT !.node[elm] = SplayLoose]

SPLAY_FIND(t, k) == IF t.root = None THEN t ELSE SPLAY(t, k)

\* SPLAY_NEXT, of an element that is in the tree.
SPLAY_NEXT(t, elm) ==
    LET s == SPLAY(t, elm)
        r == s.node[elm].right
    IN  IF r = None THEN None ELSE Outermost(s, r, "left")

-----------------------------------------------------------------------------
TreeInit == rbt = RbEmpty /\ spl = SPLAY_INIT /\ held = [rb |-> {}, sp |-> {}]

RbInserts(k) == rbt' = RB_INSERT(rbt, k) /\ held' = [held EXCEPT !.rb = @ \cup {k}] /\ UNCHANGED spl

RbRemoves(k) ==
    /\ RB_FIND(rbt, k) # None
    /\ rbt' = RB_REMOVE(rbt, k) /\ held' = [held EXCEPT !.rb = @ \ {k}] /\ UNCHANGED spl

SplayInserts(k) ==
    spl' = SPLAY_INSERT(spl, k) /\ held' = [held EXCEPT !.sp = @ \cup {k}] /\ UNCHANGED rbt
SplayRemoves(k) ==
    spl' = SPLAY_REMOVE(spl, k) /\ held' = [held EXCEPT !.sp = @ \ {k}] /\ UNCHANGED rbt
SplayFinds(k) == spl' = SPLAY_FIND(spl, k) /\ UNCHANGED <<rbt, held>>
SplayEnds(d) == spl.root # None /\ spl' = SPLAY_MINMAX(spl, d) /\ UNCHANGED <<rbt, held>>

RbStep == \E k \in RbKeys : RbInserts(k) \/ RbRemoves(k)
SplayStep ==
    \/ \E k \in SplayKeys : SplayInserts(k) \/ SplayRemoves(k) \/ SplayFinds(k)
    \/ \E d \in {"left", "right"} : SplayEnds(d)

TreeNext == RbStep \/ SplayStep

-----------------------------------------------------------------------------
Above(S, k) == {n \in S : n > k}
Below(S, k) == {n \in S : n < k}
\* The least of the elements S, the greatest, None if there is none.
First(S) == IF S = {} THEN None ELSE CHOOSE n \in S : \A x \in S : n <= x
Final(S) == IF S = {} THEN None ELSE CHOOSE n \in S : \A x \in S : x <= n

RECURSIVE Elements(_, _)
Elements(t, n) ==
    IF n = None THEN {} ELSE {n} \cup Elements(t, t.node[n].left) \cup Elements(t, t.node[n].right)

SearchTree(t) ==
    \A n \in Elements(t, t.root) : /\ Elements(t, t.node[n].left) \subseteq 1..(n - 1)
                                   /\ \A x \in Elements(t, t.node[n].right) : n < x

RECURSIVE RbHeights(_, _)
RbHeights(t, n) ==
    IF n = None THEN {0}
    ELSE {h + (IF RbIsRed(t, n) THEN 0 ELSE 1) :
            h \in RbHeights(t, t.node[n].left) \cup RbHeights(t, t.node[n].right)}

\* t is a red-black tree of S.
RbTreeOf(t, S) ==
    /\ Elements(t, t.root) = S /\ SearchTree(t)
    /\ ~RbIsRed(t, t.root) /\ (S # {} => t.node[t.root].parent = None)
    /\ \A n \in S : \A d \in {"left", "right"} :
         LET c == t.node[n][d] IN
         c # None => t.node[c].parent = n /\ ~(RbIsRed(t, n) /\ RbIsRed(t, c))
    /\ Cardinality(RbHeights(t, t.root)) = 1

\* The looks find what a set would: itself or the next above, the neighbours, the ends.
RbLooks(t, S) ==
    /\ \A k \in RbKeys : /\ RB_FIND(t, k) = IF k \in S THEN k ELSE None
                         /\ RB_NFIND(t, k) = First({n \in S : n >= k})
    /\ \A k \in S : RB_NEXT(t, k) = First(Above(S, k)) /\ RB_PREV(t, k) = Final(Below(S, k))
    /\ RB_MINMAX(t, "left") = First(S) /\ RB_MINMAX(t, "right") = Final(S)

\* A splay keeps the elements, and brings the key to the root, or a neighbour of it.
Splayed(t, S, k) ==
    LET s == SPLAY(t, k) IN
    /\ Elements(s, s.root) = S /\ SearchTree(s)
    /\ s.root \in IF k \in S THEN {k} ELSE {Final(Below(S, k)), First(Above(S, k))}

\* Through all insertions and removals the red-black tree of nty_tree.h holds what was
\* inserted and not removed, ordered, balanced and with parents that agree, although
\* it has no sentinel; its searches and walks say what a set would, also a walk whose
\* body removes what it visits (389-690, 717-745).  The splay tree keeps its elements
\* through every look, which rebuilds it, and has what was asked for at the root
\* (113-254).
TreesSound ==
    /\ RbTreeOf(rbt, held.rb) /\ RbLooks(rbt, held.rb)
    /\ LET end == RbDrain(rbt, RB_MINMAX(rbt, "left"), {})
       IN  end.tree = RbEmpty /\ end.seen = held.rb
    /\ Elements(spl, spl.root) = held.sp /\ SearchTree(spl)
    /\ spl.root # None =>
         /\ \A k \in SplayKeys : Splayed(spl, held.sp, k)
         /\ \A k \in held.sp : SPLAY_NEXT(spl, k) = First(Above(held.sp, k))
         /\ SPLAY_MINMAX(spl, "left").root = First(held.sp)
         /\ SPLAY_MINMAX(spl, "right").root = Final(held.sp)
=============================================================================
