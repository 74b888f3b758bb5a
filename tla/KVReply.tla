------------------------------ MODULE KVReply ------------------------------
(***************************************************************************)
(* The replies of the three engines: the name of the call, its key, the    *)
(* integer it returns (or 0) and the string it returns (or NULL), and how  *)
(* kvs_protocol_filter tells their outcomes apart.                         *)
(***************************************************************************)
EXTENDS Integers
CONSTANTS Keys, Vals, NULL

Ops == {"SET", "GET", "DEL", "MOD", "EXIST"}

Reply(op, k, ret, val) == [op |-> op, key |-> k, ret |-> ret, val |-> val]
NoReply == Reply("NONE", NULL, 0, NULL)

Replies == [op : Ops \cup {"NONE"}, key : Keys \cup {NULL},
            ret : -4..1, val : Vals \cup {NULL}]

OutcomeOf(r) ==
  IF r.op = "NONE" THEN <<>>
  ELSE <<r.op, r.key,
         CASE r.ret < 0 -> "error"
           [] r.ret = 1 /\ r.op = "SET" -> "same"
           [] r.ret = 1 /\ r.op # "SET" -> "nokey"
           [] r.ret = 0 /\ r.op = "GET" -> (IF r.val = NULL THEN "nokey" ELSE r.val)
           [] OTHER -> "ok">>
=============================================================================
