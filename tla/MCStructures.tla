---------------------------- MODULE MCStructures ----------------------------
(***************************************************************************)
(* Data structures side by side: the red-black tree engine, the skip list, *)
(* the address book, of the user-space stack the event poll and the UDP    *)
(* half, of NtyCo the trees and the queues.  They share nothing, so a      *)
(* behaviour is one of one of them.                                        *)
(*                                                                         *)
(* The tree comes twice: for its shape nine keys with one value reach every *)
(* branch of the fix-up loops, for its contents three keys with two values *)
(* and allocations that fail.                                              *)
(***************************************************************************)
EXTENDS KvsRbtree, SkipList, Contacts, UEventPoll, UStackUdp, NtyTree, NtyQueue

CONSTANTS c1, c2, c3, v1, v2

VARIABLE focus

ntyStructs == <<treeVars, queueVars>>
restVars == <<skipVars, bookVars, pollVars, udpVars, ntyStructs>>
structVars == <<vars, restVars, focus>>

ManyKeys == 1..9
FewKeys  == 1..3
TwoVals  == {v1, v2}
FourKeys == 1..4
FiveKeys == 1..5
SevenKeys == 1..7
MCTraffic == (c1 :> 2) @@ (c2 :> 1)
MCFragments == (c1 :> 2) @@ (c2 :> 1) @@ (c3 :> 1)

\* Names with the initials a and b; one of them holds a comma.
MCNames == {"ab", "ac", "b,c", "b"}
MCInitial == [n \in MCNames |-> IF n \in {"ab", "ac"} THEN 0 ELSE 1]
MCCut == [n \in MCNames |-> IF n = "b,c" THEN "b" ELSE n]

StructInit ==
  /\ focus \in {"shape", "contents", "skip list", "book", "poll", "udp", "rb", "splay", "queue"}
  /\ Init /\ SkipInit /\ BookInit /\ PollInit /\ UdpInit
  /\ TreeInit /\ QueueInit /\ (focus # "queue" => kind = "TAILQ")
  /\ focus # "poll" => ~srv.forever

\* What changes the shape, whatever the calls answer.
ShapePart ==
  /\ focus = "shape"
  /\ \E k \in Keys : NewNode(k, v1) \/ FreeNode(k)
  /\ UNCHANGED <<reply, status, restVars, focus>>
ContentsPart ==
  /\ focus = "contents" /\ status = "up"
  /\ (\E k \in FewKeys : Call(k) \/ SetCrash(k)) \/ kvs_rbtree_destory
  /\ UNCHANGED <<restVars, focus>>
SkipPart == focus = "skip list" /\ SkipNext /\ UNCHANGED <<vars, bookVars, pollVars, udpVars, ntyStructs, focus>>
BookPart == focus = "book" /\ BookNext /\ UNCHANGED <<vars, skipVars, pollVars, udpVars, ntyStructs, focus>>
PollPart == focus = "poll" /\ PollNext /\ UNCHANGED <<vars, skipVars, bookVars, udpVars, ntyStructs, focus>>
UdpPart  == focus = "udp" /\ UdpNext /\ UNCHANGED <<vars, skipVars, bookVars, pollVars, ntyStructs, focus>>
OtherVars == <<vars, skipVars, bookVars, pollVars, udpVars, focus>>
RbPart    == focus = "rb" /\ RbStep /\ UNCHANGED <<OtherVars, queueVars>>
SplayPart == focus = "splay" /\ SplayStep /\ UNCHANGED <<OtherVars, queueVars>>
QueuePart == focus = "queue" /\ QueueNext /\ UNCHANGED <<OtherVars, treeVars>>

StructNext ==
  \/ ShapePart \/ ContentsPart \/ SkipPart \/ BookPart \/ PollPart \/ UdpPart
  \/ RbPart \/ SplayPart \/ QueuePart
StructSpec == StructInit /\ [][StructNext]_structVars

\* The tree with every node named after its key: addresses tell nothing, and the
\* parent of the sentinel is written before it is read.
NameOf(n)   == IF n \in NodeId THEN tree.node[n].key ELSE n
NamedNode(n) == [f \in {"left", "right", "parent"} |-> NameOf(tree.node[n][f])]
TreeView ==
  <<{<<NameOf(n), tree.node[n].color, tree.node[n].value, NamedNode(n)>> : n \in InTree},
    NameOf(tree.root), tree.node[nil].color>>
StructView == <<TreeView, blocks, status, reply, restVars, focus>>

\* What is found by its links is what was put in: a search of the skip list finds
\* exactly that on every level (kvs_skiptable.c:42-120), the trees of NtyCo hold it
\* ordered and balanced, and every list of NtyCo is the sequence it is to be, by its
\* links and by the addresses of its links (nty_tree.h:113-690, nty_queue.h:88-579).
\* Each is asked of its own behaviours.
LinksSound ==
  /\ focus = "skip list" => SkipSound
  /\ focus \in {"rb", "splay"} => TreesSound
  /\ focus = "queue" => QueuesSound

\* The tree implements the map, as ImplementsMap of KvsRbtree says: what a search
\* finds in it changes the way the calls say, through every rotation and every swap
\* of a deleted node (kvs_rbtree.c:311-373).  Asked of the contents only.
OnContents(x, initial) == IF focus = "contents" THEN x ELSE initial
ContentsMap == INSTANCE KVMap WITH
  Keys <- FewKeys, dict <- [k \in FewKeys |-> OnContents(Found(k), <<"absent">>)],
  answer <- OnContents(OutcomeOf(reply), OutcomeOf(NoReply)),
  Absent <- <<"absent">>, Lost <- <<"lost">>, LossyFailure <- MallocMayFail
ContentsImplementMap == ContentsMap!Spec
=============================================================================
