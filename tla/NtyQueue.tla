------------------------------ MODULE NtyQueue ------------------------------
(***************************************************************************)
(* The four kinds of list of NtyCo (nty_queue.h): the ready and defer      *)
(* queues of the scheduler are tail queues, its busy list is a LIST.       *)
(*                                                                         *)
(* Two heads of one kind share the elements.  next[x] is what the pointer  *)
(* named x holds: that of an element, or the first of a head.  An address  *)
(* of a pointer (le_prev, tqe_prev, stqh_last, tqh_last) is the name of    *)
(* its owner, so that writing through it writes next[owner].  A queue q is *)
(* the record of these; every operator is the macro of its name.  Only     *)
(* calls that the macros allow are made: an element to insert is in        *)
(* neither list, one to remove is in the list named.                       *)
(***************************************************************************)
EXTENDS Integers, Sequences, SequencesExt

CONSTANTS
    Elms,         \* elements
    Head1, Head2  \* the two heads

Heads == {Head1, Head2}
Kinds == {"SLIST", "STAILQ", "LIST", "TAILQ"}

VARIABLES
    kind,   \* one of Kinds, never changes
    que,    \* [next, prev, last], the memory
    list    \* history: list[h], the sequence that h is to hold

queueVars == <<kind, que, list>>

Nil == "NULL"

\* SLIST_INIT of both heads and its likes; what an element holds before it is
\* inserted does not matter.
QueueInit ==
    /\ kind \in Kinds
    /\ que = [next |-> [x \in Heads \cup Elms |-> Nil], prev |-> [e \in Elms |-> Nil],
              last |-> [h \in Heads |-> h]]
    /\ list = [h \in Heads |-> <<>>]

-----------------------------------------------------------------------------
\* The element in front of elm, by the loop of SLIST_REMOVE and STAILQ_REMOVE.
CurElm(q, h, elm) ==
    LET walk[x \in Elms] == IF q.next[x] = elm THEN x ELSE walk[q.next[x]] IN walk[q.next[h]]

SLIST_INSERT_AFTER(q, x, elm) == [q EXCEPT !.next[elm] = q.next[x], !.next[x] = elm]
SLIST_INSERT_HEAD(q, h, elm) == [q EXCEPT !.next[elm] = q.next[h], !.next[h] = elm]
SLIST_REMOVE_HEAD(q, h) == [q EXCEPT !.next[h] = q.next[q.next[h]]]
SLIST_REMOVE_AFTER(q, x) == [q EXCEPT !.next[x] = q.next[q.next[x]]]
SLIST_REMOVE(q, h, elm) ==
    IF q.next[h] = elm THEN SLIST_REMOVE_HEAD(q, h) ELSE SLIST_REMOVE_AFTER(q, CurElm(q, h, elm))

\* The last pointer of h is that of x, if nothing follows x.
Ends(q, h, x) == IF q.next[x] = Nil THEN [q EXCEPT !.last[h] = x] ELSE q

STAILQ_INIT(q, h) == [q EXCEPT !.next[h] = Nil, !.last[h] = h]
STAILQ_INSERT_AFTER(q, h, x, elm) == Ends(SLIST_INSERT_AFTER(q, x, elm), h, elm)
STAILQ_INSERT_HEAD(q, h, elm) == Ends(SLIST_INSERT_HEAD(q, h, elm), h, elm)
STAILQ_INSERT_TAIL(q, h, elm) ==
    [q EXCEPT !.next[elm] = Nil, !.next[q.last[h]] = elm, !.last[h] = elm]
STAILQ_REMOVE_HEAD(q, h) == Ends(SLIST_REMOVE_HEAD(q, h), h, h)
STAILQ_REMOVE_AFTER(q, h, x) == Ends(SLIST_REMOVE_AFTER(q, x), h, x)
STAILQ_REMOVE(q, h, elm) ==
    IF q.next[h] = elm THEN STAILQ_REMOVE_HEAD(q, h)
    ELSE STAILQ_REMOVE_AFTER(q, h, CurElm(q, h, elm))
STAILQ_CONCAT(q, h, g) ==
    IF q.next[g] = Nil THEN q
    ELSE STAILQ_INIT([q EXCEPT !.next[q.last[h]] = q.next[g], !.last[h] = q.last[g]], g)
STAILQ_SWAP(q, h, g) ==
    LET s == [q EXCEPT !.next[h] = q.next[g], !.last[h] = q.last[g],
                       !.next[g] = q.next[h], !.last[g] = q.last[h]]
    IN  Ends(Ends(s, h, h), g, g)
\* The address of the last pointer, taken for that of the element around it.
STAILQ_LAST(q, h) == IF q.next[h] = Nil THEN Nil ELSE q.last[h]

-----------------------------------------------------------------------------
\* What follows x knows the pointer of x as its previous one.
Back(q, x) == IF q.next[x] = Nil THEN q ELSE [q EXCEPT !.prev[q.next[x]] = x]

LIST_INSERT_AFTER(q, x, elm) ==
    [Back(SLIST_INSERT_AFTER(q, x, elm), elm) EXCEPT !.prev[elm] = x]
LIST_INSERT_BEFORE(q, x, elm) ==
    [q EXCEPT !.prev[elm] = q.prev[x], !.next[elm] = x, !.next[q.prev[x]] = elm, !.prev[x] = elm]
LIST_INSERT_HEAD(q, h, elm) ==
    [Back(SLIST_INSERT_HEAD(q, h, elm), elm) EXCEPT !.prev[elm] = h]
\* LIST_REMOVE
LIST_UNLINK(q, elm) ==
    LET p == q.prev[elm] IN Back([q EXCEPT !.next[p] = q.next[elm]], p)
LIST_SWAP(q, h, g) ==
    Back(Back([q EXCEPT !.next[h] = q.next[g], !.next[g] = q.next[h]], h), g)

TAILQ_INIT(q, h) == [q EXCEPT !.next[h] = Nil, !.last[h] = h]
TAILQ_INSERT_AFTER(q, h, x, elm) == Ends(LIST_INSERT_AFTER(q, x, elm), h, elm)
TAILQ_INSERT_BEFORE(q, x, elm) ==
    [q EXCEPT !.prev[elm] = q.prev[x], !.next[elm] = x, !.next[q.prev[x]] = elm, !.prev[x] = elm]
TAILQ_INSERT_HEAD(q, h, elm) == Ends(LIST_INSERT_HEAD(q, h, elm), h, elm)
TAILQ_INSERT_TAIL(q, h, elm) ==
    [q EXCEPT !.next[elm] = Nil, !.prev[elm] = q.last[h], !.next[q.last[h]] = elm, !.last[h] = elm]

\* Mutant: the last pointer stays with the element that leaves.
TAILQ_REMOVE_Last(q, h, elm) == LIST_UNLINK(q, elm)

TAILQ_REMOVE(q, h, elm) == LET p == q.prev[elm] IN Ends(LIST_UNLINK(q, elm), h, p)
TAILQ_CONCAT(q, h, g) ==
    IF q.next[g] = Nil THEN q
    ELSE TAILQ_INIT([q EXCEPT !.next[q.last[h]] = q.next[g], !.prev[q.next[g]] = q.last[h],
                              !.last[h] = q.last[g]], g)
TAILQ_SWAP(q, h, g) ==
    LET s == [q EXCEPT !.next[h] = q.next[g], !.last[h] = q.last[g],
                       !.next[g] = q.next[h], !.last[g] = q.last[h]]
    IN  Ends(Ends(Back(Back(s, h), g), h, h), g, g)

\* A head and the entry of an element look alike: after the pointer comes the
\* address of another.  TAILQ_LAST and TAILQ_PREV read that one.
Second(q, x) == IF x \in Heads THEN q.last[x] ELSE q.prev[x]
TAILQ_LAST(q, h) == q.next[Second(q, q.last[h])]
TAILQ_PREV(q, elm) == q.next[Second(q, q.prev[elm])]

\* SLIST_FOREACH and its likes, from x on.
Foreach(q, x) ==
    LET walk[n \in 0..Cardinality(Elms)] ==
          IF n = 0 THEN <<q.next[x]>>
          ELSE LET w == walk[n - 1] IN IF Last(w) = Nil THEN w ELSE Append(w, q.next[Last(w)])
    IN  walk[Cardinality(Elms)]

-----------------------------------------------------------------------------
Linked(e) == \E h \in Heads : e \in ToSet(list[h])

\* An element that left keeps nothing that is read again.
Forget(q, elm) == [q EXCEPT !.next[elm] = Nil, !.prev[elm] = Nil]

HeadInserts(h, elm) ==
    /\ que' = CASE kind = "SLIST" -> SLIST_INSERT_HEAD(que, h, elm)
                [] kind = "STAILQ" -> STAILQ_INSERT_HEAD(que, h, elm)
                [] kind = "LIST" -> LIST_INSERT_HEAD(que, h, elm)
                [] kind = "TAILQ" -> TAILQ_INSERT_HEAD(que, h, elm)
    /\ list' = [list EXCEPT ![h] = <<elm>> \o @]

TailInserts(h, elm) ==
    /\ \/ kind = "STAILQ" /\ que' = STAILQ_INSERT_TAIL(que, h, elm)
       \/ kind = "TAILQ" /\ que' = TAILQ_INSERT_TAIL(que, h, elm)
    /\ list' = [list EXCEPT ![h] = Append(@, elm)]

AfterInserts(h, i, elm) ==
    LET x == list[h][i] IN
    /\ que' = CASE kind = "SLIST" -> SLIST_INSERT_AFTER(que, x, elm)
                [] kind = "STAILQ" -> STAILQ_INSERT_AFTER(que, h, x, elm)
                [] kind = "LIST" -> LIST_INSERT_AFTER(que, x, elm)
                [] kind = "TAILQ" -> TAILQ_INSERT_AFTER(que, h, x, elm)
    /\ list' = [list EXCEPT ![h] = InsertAt(@, i + 1, elm)]

BeforeInserts(h, i, elm) ==
    /\ \/ kind = "LIST" /\ que' = LIST_INSERT_BEFORE(que, list[h][i], elm)
       \/ kind = "TAILQ" /\ que' = TAILQ_INSERT_BEFORE(que, list[h][i], elm)
    /\ list' = [list EXCEPT ![h] = InsertAt(@, i, elm)]

Removes(h, i) ==
    LET elm == list[h][i] IN
    /\ que' = Forget(CASE kind = "SLIST" -> SLIST_REMOVE(que, h, elm)
                       [] kind = "STAILQ" -> STAILQ_REMOVE(que, h, elm)
                       [] kind = "LIST" -> LIST_UNLINK(que, elm)
                       [] kind = "TAILQ" -> TAILQ_REMOVE(que, h, elm), elm)
    /\ list' = [list EXCEPT ![h] = RemoveAt(@, i)]

Concats ==
    /\ \/ kind = "STAILQ" /\ que' = STAILQ_CONCAT(que, Head1, Head2)
       \/ kind = "TAILQ" /\ que' = TAILQ_CONCAT(que, Head1, Head2)
    /\ list' = [list EXCEPT ![Head1] = @ \o list[Head2], ![Head2] = <<>>]

Swaps ==
    /\ \/ kind = "STAILQ" /\ que' = STAILQ_SWAP(que, Head1, Head2)
       \/ kind = "LIST" /\ que' = LIST_SWAP(que, Head1, Head2)
       \/ kind = "TAILQ" /\ que' = TAILQ_SWAP(que, Head1, Head2)
    /\ list' = [list EXCEPT ![Head1] = list[Head2], ![Head2] = list[Head1]]

QueueNext ==
    /\ \/ \E h \in Heads, elm \in Elms :
            /\ ~Linked(elm)
            /\ \/ HeadInserts(h, elm) \/ TailInserts(h, elm)
               \/ \E i \in DOMAIN list[h] : AfterInserts(h, i, elm) \/ BeforeInserts(h, i, elm)
       \/ \E h \in Heads : \E i \in DOMAIN list[h] : Removes(h, i)
       \/ Concats \/ Swaps
    /\ UNCHANGED kind

-----------------------------------------------------------------------------
InFront(h, i) == IF i = 1 THEN h ELSE list[h][i - 1]

\* Whatever is inserted, removed, joined and swapped, each list is the sequence it is
\* to be: forward by the links, backward by addresses taken for heads, and with a last
\* pointer that an insertion at the tail may write through
\* (nty_queue.h:88-159, 186-273, 326-390, 451-579).
QueuesSound ==
    \A h \in Heads :
        /\ Foreach(que, h) = Append(list[h], Nil)
        /\ kind \in {"LIST", "TAILQ"} =>
              \A i \in DOMAIN list[h] : que.prev[list[h][i]] = InFront(h, i)
        /\ kind \in {"STAILQ", "TAILQ"} =>
              que.last[h] = InFront(h, Len(list[h]) + 1)
        /\ kind = "STAILQ" =>
              STAILQ_LAST(que, h) = IF list[h] = <<>> THEN Nil ELSE Last(list[h])
        /\ kind = "TAILQ" =>
              /\ TAILQ_LAST(que, h) = IF list[h] = <<>> THEN Nil ELSE Last(list[h])
              /\ \A i \in DOMAIN list[h] :
                    TAILQ_PREV(que, list[h][i]) = IF i = 1 THEN Nil ELSE list[h][i - 1]
=============================================================================
