------------------------------ MODULE SkipList ------------------------------
(***************************************************************************)
(* The skip list of kvs_skiptable.c, meant to become an engine of the      *)
(* store: insert and search over a header and nodes with one pointer for   *)
(* each of their levels.  A node is named by its key, keys being unique;   *)
(* the header is 0.  A new node gets any level, as rand() decides.         *)
(***************************************************************************)
EXTENDS Integers

CONSTANTS
    SkipKeys,      \* keys, positive numbers
    MaxLevel   \* MAX_LEVEL

ASSUME SkipAssumption == SkipKeys \subseteq Nat \ {0} /\ MaxLevel \in Nat

VARIABLES
    level,     \* skipList->level
    forward,   \* forward[n][i]: what node n points at on level i
    found      \* found[k]: what the last search for k answered, "" if none

skipVars == <<level, forward, found>>

Header == 0
Null == -1
Nodes == DOMAIN forward

\* createSkipList: all the levels of the header point nowhere.
SkipInit ==
    /\ level = 0
    /\ forward = [n \in {Header} |-> [i \in 0..MaxLevel |-> Null]]
    /\ found = [k \in SkipKeys |-> ""]

\* The test of the inner loop of insert and search.
Precedes(n, key) == n # Null /\ n < key

\* One level of the descent, from node n.
Step(n, i, key) ==
    LET walk[m \in Nodes] ==
            IF Precedes(forward[m][i], key) THEN walk[forward[m][i]] ELSE m
    IN  walk[n]

\* update[]: the last node before the key on each level, top level first.
Update(key) ==
    LET update[i \in 0..level] ==
            Step(IF i = level THEN Header ELSE update[i + 1], i, key)
    IN  update

\* Levels the list did not have so far start at the header.
Raised(update, height) ==
    [i \in 0..height |-> IF i <= level THEN update[i] ELSE Header]

\* Mutant: the predecessor is turned to the new node first.
Spliced_First(update, key) ==
    [n \in Nodes \cup {key} |->
        IF n = key THEN [i \in DOMAIN update |-> key]
        ELSE [i \in DOMAIN forward[n] |->
                 IF i \in DOMAIN update /\ update[i] = n THEN key ELSE forward[n][i]]]

\* The new node behind update[i] on each of its levels.
Spliced(update, key) ==
    [n \in Nodes \cup {key} |->
        IF n = key THEN [i \in DOMAIN update |-> forward[update[i]][i]]
        ELSE [i \in DOMAIN forward[n] |->
                 IF i \in DOMAIN update /\ update[i] = n THEN key ELSE forward[n][i]]]

\* insert, with the level randomLevel gave; a key that is there stays as it is.
SkipInsert(key, height) ==
    LET update == Update(key) IN
    /\ forward[update[0]][0] # key
    /\ forward' = Spliced(Raised(update, height), key)
    /\ level' = IF height > level THEN height ELSE level
    /\ UNCHANGED found

\* search
Search(key) ==
    /\ found' = [found EXCEPT ![key] =
          IF forward[Update(key)[0]][0] = key THEN "yes" ELSE "no"]
    /\ UNCHANGED <<level, forward>>

SkipNext ==
    \E key \in SkipKeys : Search(key) \/ \E height \in 0..MaxLevel : SkipInsert(key, height)

-----------------------------------------------------------------------------
\* The nodes of level i: those behind the header, reached on that level.
OnLevel(i) == { n \in Nodes : i \in DOMAIN forward[n] }

\* The pointers of a level lead through all nodes that are that tall, upwards, and
\* nowhere else: no walk reads a pointer a node has no room for
\* (kvs_skiptable.c:54-72).
Threaded ==
    /\ level \in 0..MaxLevel
    /\ \A i \in 0..MaxLevel : \A n \in OnLevel(i) :
         LET later == { x \in OnLevel(i) : n < x } IN
         IF later = {} THEN forward[n][i] = Null
         ELSE forward[n][i] \in later /\ \A x \in later : forward[n][i] <= x

\* The levels above skipList->level are empty and level itself is not, unless it is
\* 0: a search that starts at level misses nobody.
LevelIsHighest ==
    /\ \A i \in (level + 1)..MaxLevel : OnLevel(i) = {Header}
    /\ level > 0 => OnLevel(level) # {Header}

\* What search says is what was inserted; a key once found is found again.
SearchIsExact ==
    \A k \in SkipKeys : /\ found[k] = "yes" => k \in Nodes
                    /\ (forward[Update(k)[0]][0] = k) <=> (k \in Nodes)
\* The levels are threads through the same keys, the highest is not empty, and what
\* was inserted is found, whatever heights the nodes were given
\* (kvs_skiptable.c:42-120).
SkipSound == Threaded /\ LevelIsHighest /\ SearchIsExact
=============================================================================
