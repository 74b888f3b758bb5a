------------------------------ MODULE Contacts ------------------------------
(***************************************************************************)
(* The address book of Contacts.c: a doubly linked list of persons, kept   *)
(* in the order of their initials, a count, and a file the list is saved   *)
(* to and loaded from.                                                     *)
(*                                                                         *)
(* A line of the file is a person; reading it back cuts the name at its    *)
(* first comma.  The zeros that parser_token writes past the end of phone  *)
(* fall into buffer, which gcc puts behind it, and change nothing.         *)
(***************************************************************************)
EXTENDS Integers, Sequences, FiniteSets, SequencesExt

CONSTANTS
    Names,      \* names a user may type
    Initial,    \* Initial[n]: the first letter of n, as a number
    CutName,    \* CutName[n]: n up to its first comma
    MaxPeople,  \* bound on the persons in memory
    MaxLines    \* bound on the lines of the file

VARIABLES
    people,   \* the head of the list, Nobody if empty
    count,
    heap,     \* heap[p]: [name, prev, next] of the persons allocated
    lines     \* the names in the file, one per line

bookVars == <<people, count, heap, lines>>

Nobody == 0
Persons == 1..MaxPeople

BookInit == people = Nobody /\ count = 0 /\ heap = <<>> /\ lines = <<>>

-----------------------------------------------------------------------------
(* The list, as a pair [head, at] of its head and its persons.            *)

LIST_INSERT(l, p, name) ==
    [head |-> p,
     at |-> [x \in DOMAIN l.at \cup {p} |->
                IF x = p THEN [name |-> name, prev |-> Nobody, next |-> l.head]
                ELSE IF x = l.head THEN [l.at[x] EXCEPT !.prev = p] ELSE l.at[x]]]

\* LIST_REMOVE and free
LIST_REMOVE(l, p) ==
    [head |-> IF l.head = p THEN l.at[p].next ELSE l.head,
     at |-> [x \in DOMAIN l.at \ {p} |->
                CASE x = l.at[p].prev -> [l.at[x] EXCEPT !.next = l.at[p].next]
                  [] x = l.at[p].next -> [l.at[x] EXCEPT !.prev = l.at[p].prev]
                  [] OTHER -> l.at[x]]]

\* The persons from p on, in the order of next.
From(l, p) ==
    LET follow[n \in 0..Cardinality(DOMAIN l.at)] ==
            IF n = 0 THEN <<>>
            ELSE LET s == follow[n - 1]
                     q == IF s = <<>> THEN p ELSE l.at[Last(s)].next
                 IN  IF q = Nobody THEN s ELSE Append(s, q)
    IN  follow[Cardinality(DOMAIN l.at)]

\* person_search: the first with that name.
person_search(l, name) ==
    LET hits == SelectSeq(From(l, l.head), LAMBDA p : l.at[p].name = name)
    IN  IF hits = <<>> THEN Nobody ELSE hits[1]

\* Mutant: a person goes before those with the same initial.
Sink_Before(l, c) ==
    LET before == SelectSeq(From(l, l.head),
                      LAMBDA p : Initial[l.at[p].name] < Initial[l.at[c].name])
        prev == IF before = <<>> THEN Nobody ELSE Last(before)
        next == IF prev = Nobody THEN l.head ELSE l.at[prev].next
    IN  [head |-> IF prev = Nobody THEN c ELSE l.head,
         at |-> [x \in DOMAIN l.at |->
             CASE x = c    -> [l.at[x] EXCEPT !.prev = prev, !.next = next]
               [] x = prev -> [l.at[x] EXCEPT !.next = c]
               [] x = next -> [l.at[x] EXCEPT !.prev = c]
               [] OTHER    -> l.at[x]]]

\* sort_list_by_initial, one turn: c goes behind the last of the sorted list
\* whose initial is not greater than its own.
Sink(l, c) ==
    LET before == SelectSeq(From(l, l.head),
                      LAMBDA p : Initial[l.at[p].name] <= Initial[l.at[c].name])
        prev == IF before = <<>> THEN Nobody ELSE Last(before)
        next == IF prev = Nobody THEN l.head ELSE l.at[prev].next
    IN  [head |-> IF prev = Nobody THEN c ELSE l.head,
         at |-> [x \in DOMAIN l.at |->
             CASE x = c    -> [l.at[x] EXCEPT !.prev = prev, !.next = next]
               [] x = prev -> [l.at[x] EXCEPT !.next = c]
               [] x = next -> [l.at[x] EXCEPT !.prev = c]
               [] OTHER    -> l.at[x]]]

\* sort_list_by_initial: every person of the list, in its order, into a new one.
Sorted(l) == FoldLeft(Sink, [head |-> Nobody, at |-> l.at], From(l, l.head))

Unused(l) == CHOOSE p \in Persons \ DOMAIN l.at : \A q \in Persons \ DOMAIN l.at : p <= q

Book == [head |-> people, at |-> heap]
Becomes(l) == people' = l.head /\ heap' = l.at

-----------------------------------------------------------------------------
(* The menu *)

\* insert_entry; without memory nothing happens.
insert_entry(name) ==
    /\ DOMAIN heap # Persons
    /\ Becomes(Sorted(LIST_INSERT(Book, Unused(Book), name)))
    /\ count' = count + 1
    /\ UNCHANGED lines

\* delete_entry
delete_entry(name) ==
    LET p == person_search(Book, name) IN
    /\ p # Nobody
    /\ Becomes(LIST_REMOVE(Book, p))
    /\ count' = count - 1
    /\ UNCHANGED lines

\* save_file, or the beginning of it: n lines.
Written(n) == [i \in 1..n |-> heap[From(Book, people)[i]].name]

\* save_entry: the file is emptied and written line by line.
save_entry ==
    /\ count <= MaxLines
    /\ lines' = Written(count)
    /\ UNCHANGED <<people, count, heap>>

\* The program is killed while it saves: some of the lines are there.
KilledInSave ==
    /\ \E n \in 0..count :
         /\ n <= MaxLines
         /\ lines' = Written(n)
    /\ people' = Nobody /\ count' = 0 /\ heap' = <<>>

\* exit of the menu, and a new start.
LeaveBook ==
    /\ people' = Nobody /\ count' = 0 /\ heap' = <<>>
    /\ UNCHANGED lines

\* parser_token: of a line "Name: b,c,Phone: 1" the name is b.
parser_token(name) == CutName[name]

\* load_file and the sorting of load_entry.
Loaded(l, read) ==
    Sorted(FoldLeft(LAMBDA b, name : LIST_INSERT(b, Unused(b), parser_token(name)), l, read))

\* load_entry: the lines up to the first for which there is no memory.
load_entry ==
    \E n \in 0..Len(lines) :
        /\ count + n <= MaxPeople
        /\ Becomes(Loaded(Book, SubSeq(lines, 1, n)))
        /\ count' = count + n
        /\ UNCHANGED lines

BookNext ==
    \/ \E name \in Names : insert_entry(name) \/ delete_entry(name)
    \/ save_entry \/ KilledInSave \/ LeaveBook \/ load_entry

-----------------------------------------------------------------------------
Chain == From(Book, people)
Listed == LET chain == Chain IN [i \in DOMAIN chain |-> heap[chain[i]].name]

\* The list holds every person allocated, once, forwards and backwards alike, and
\* count is its length: nobody is lost by sorting, deleting or loading
\* (Contacts.c:14-35, 263).
BookLinked ==
    LET chain == Chain
    IN  /\ count = Len(chain) /\ count = Cardinality(DOMAIN heap)
        /\ Range(chain) = DOMAIN heap
        /\ \A i \in DOMAIN chain :
             heap[chain[i]].prev = IF i = 1 THEN Nobody ELSE chain[i - 1]

\* The reference for the sorting: the names of one initial after the other,
\* those of one initial as they stand.
LastInitial == CHOOSE m \in Range(Initial) : \A x \in Range(Initial) : x <= m
InOrder(names) ==
    LET from[i \in 0..(LastInitial + 1)] == IF i > LastInitial THEN <<>>
            ELSE SelectSeq(names, LAMBDA n : Initial[n] = i) \o from[i + 1]
    IN  from[0]

\* What the list may become: empty, as the program ends; with one more name, without
\* the first of a name, or with some of the lines of the file read into it.
Successors(names) ==
    {<<>>} \cup {InOrder(<<n>> \o names) : n \in Names}
    \cup {RemoveAt(names, i) : i \in {j \in DOMAIN names :
                                       \A first \in 1..(j - 1) : names[first] # names[j]}}
    \cup {InOrder(Reverse([i \in 1..n |-> CutName[lines[i]]]) \o names) : n \in 0..Len(lines)}

\* The linked list, sound in both directions, is a sequence of names in order: an entry
\* goes in front of those with its initial, the first of a name goes out, and what is
\* loaded stands in the reverse order of the file in front of what was there
\* (Contacts.c:228, 263).
BookIsSequence ==
    [][BookLinked' /\ \E names \in {Listed} : Listed' \in Successors(names)]_bookVars
=============================================================================
