------------------------------- MODULE KVMap -------------------------------
(***************************************************************************)
(* What a storage engine of zzx_kvstore promises to the protocol layer: a  *)
(* map from keys to values under set, get, del, mod and exist, as the     *)
(* comments above the kvs_array_*, kvs_rbtree_* and kvs_hash_* functions   *)
(* put it.  Each detailed engine (KvsArray, KvsHash, KvsRbtree) is shown   *)
(* to implement this specification through an INSTANCE of it.              *)
(*                                                                         *)
(* An engine may refuse a set or a mod (no memory, table full).  A strict  *)
(* engine then changes nothing; an engine that frees the old value before  *)
(* it allocates the new one (LossyFailure) may leave the key bound to      *)
(* nothing, written Lost here.                                             *)
(***************************************************************************)
CONSTANTS
  Keys, Vals,
  Absent,         \* the key is not in the map
  Lost,           \* the key is there, its value was freed by a failed update
  LossyFailure    \* TRUE: a refused update may lose the old value

VARIABLES
  dict,           \* the map
  answer          \* outcome of the last call: <<operation, key, outcome>>

vars == <<dict, answer>>

Answers(op, k, out) == answer' = <<op, k, out>>

Init ==
  /\ dict = [k \in Keys |-> Absent]
  /\ answer = <<>>

\* A call that is turned down: nothing changes, or a bound key loses its value.
Refuse(op, k) ==
  /\ Answers(op, k, "error")
  /\ \/ UNCHANGED dict
     \/ /\ LossyFailure
        /\ dict[k] # Absent
        /\ dict' = [dict EXCEPT ![k] = Lost]

Set(k, v) ==
  \/ /\ Answers("SET", k, "same")
     /\ dict[k] = v
     /\ UNCHANGED dict
  \/ /\ Answers("SET", k, "ok")
     /\ dict[k] # v
     /\ dict' = [dict EXCEPT ![k] = v]
  \/ Refuse("SET", k)

Get(k) ==
  /\ Answers("GET", k, IF dict[k] \in Vals THEN dict[k] ELSE "nokey")
  /\ UNCHANGED dict

Del(k) ==
  \/ /\ Answers("DEL", k, "ok")
     /\ dict[k] # Absent
     /\ dict' = [dict EXCEPT ![k] = Absent]
  \/ /\ Answers("DEL", k, "nokey")
     /\ dict[k] = Absent
     /\ UNCHANGED dict

Mod(k, v) ==
  \/ /\ Answers("MOD", k, "ok")
     /\ dict[k] # Absent
     /\ dict' = [dict EXCEPT ![k] = v]
  \/ /\ Answers("MOD", k, "nokey")
     /\ dict[k] = Absent
     /\ UNCHANGED dict
  \/ Refuse("MOD", k)

\* Whether a key without a value "exists" is answered differently by the
\* engines: the array says no (it asks for the value), the tree says yes.
Exist(k) ==
  /\ \/ Answers("EXIST", k, "ok") /\ dict[k] # Absent
     \/ Answers("EXIST", k, "nokey") /\ dict[k] \notin Vals
  /\ UNCHANGED dict

\* The engine is destroyed.
Clear ==
  /\ UNCHANGED answer
  /\ dict' = [k \in Keys |-> Absent]

Next ==
  \/ Clear
  \/ \E k \in Keys :
       \/ \E v \in Vals : Set(k, v) \/ Mod(k, v)
       \/ Get(k) \/ Del(k) \/ Exist(k)

Spec == Init /\ [][Next]_vars
=============================================================================
