----------------------------- MODULE MCKvsHash -----------------------------
(* Three slots.  a and d collide in bucket 0 (d with a negative sum that   *)
(* SLOTS divides), c is in bucket 1, and n has the hash -1.                *)
EXTENDS KvsHash
CONSTANTS a, c, d, n, v1, v2
MCKeys == {a, c, d, n}
MCVals == {v1, v2}
MCCharSum == a :> 3 @@ c :> 4 @@ d :> -3 @@ n :> -4
=============================================================================
