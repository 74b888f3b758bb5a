----------------------------- MODULE MCKvsArray -----------------------------
(***************************************************************************)
(* Three keys and two values in a table of three slots: enough for a hole  *)
(* between stored keys, for a hole that is filled and for a full table.    *)
(*                                                                         *)
(* Two engines, one of them in use: one whose table holds any words and    *)
(* whose kvs_malloc may fail, and H, healthy, with a zeroed table and a    *)
(* kvs_malloc that does not fail.                                          *)
(***************************************************************************)
EXTENDS KvsArray
CONSTANTS k1, k2, k3, v1, v2

VARIABLES healthy, htable, htotal, hblocks, hstatus, hreply

H == INSTANCE KvsArray WITH
  FreshWords <- {NULL}, MallocMayFail <- FALSE,
  table <- htable, total <- htotal, blocks <- hblocks, status <- hstatus, reply <- hreply

hvars == <<htable, htotal, hblocks, hstatus, hreply>>
arrayVars == <<vars, hvars, healthy>>

MCKeys == {k1, k2, k3}
MCVals == {v1, v2}
AnyWords == {NULL, WILD}

ArrayInit ==
  /\ healthy \in BOOLEAN
  /\ Init /\ H!Init
  /\ healthy => \A i \in Slots : table[i].key = NULL /\ table[i].value = NULL
ArrayNext ==
  \/ ~healthy /\ Next /\ UNCHANGED <<hvars, healthy>>
  \/ healthy /\ H!Next /\ UNCHANGED <<vars, healthy>>
ArraySpec == ArrayInit /\ [][ArrayNext]_arrayVars

-----------------------------------------------------------------------------
(* What is asked of the healthy engine, each property as KvsArray states it. *)

\* No call dereferences a slot that it must not (kvs_array.c:115-121).
HealthyNeverCrashes == H!NeverCrashes

\* The engine implements the map, and no value is ever lost (kvs_array.c:106-255).
HealthyImplementsMap == H!ImplementsMap

\* kvs_array.c:102 - "-2 is returned when the array is full".
HealthyFullMeansFull == H!FullMeansFull
=============================================================================
