------------------------------ MODULE KVService ------------------------------
(***************************************************************************)
(* What a network layer of zzx_kvstore promises its clients: a request is  *)
(* carried out once and at one instant between its sending and its answer, *)
(* and the answer a client reads is the answer to the request it sent.     *)
(* A malformed request is never answered and does nothing.  A client that  *)
(* closes its connection leaves a request behind that may be carried out   *)
(* or not.  KvsReactor and KvsIoUring are compared with it.                *)
(***************************************************************************)
EXTENDS KvsProtocol

VARIABLES
  dict,     \* the three engines
  call,     \* client -> <<stage>>, <<stage, request>> or <<"done", text>>
  seen      \* client -> the answer it read, until it sends the next request

vars == <<dict, call, seen>>

Idle == <<"idle">>

Init ==
  /\ dict = EmptyStore
  /\ call = [c \in Clients |-> Idle]
  /\ seen = [c \in Clients |-> Absent]

Invoke(c, r) ==
  /\ call[c] = Idle
  /\ call' = [call EXCEPT ![c] = <<"sent", r>>]
  /\ seen' = [seen EXCEPT ![c] = Absent]
  /\ UNCHANGED dict

\* The instant at which the request takes effect; nobody reads the answer to
\* the request of a client that has gone.
Apply(c, r) ==
  /\ WellFormed(r)
  /\ LET out == kvs_protocol(dict, <<r>>)
     IN  /\ dict' = out.dict
         /\ \/ call[c] = <<"sent", r>> /\ call' = [call EXCEPT ![c] = <<"done", out.text>>]
            \/ call[c] = <<"orphan", r>> /\ call' = [call EXCEPT ![c] = Idle]
  /\ UNCHANGED seen

Answer(c, text) ==
  /\ call[c] = <<"done", text>>
  /\ call' = [call EXCEPT ![c] = Idle]
  /\ seen' = [seen EXCEPT ![c] = text]
  /\ UNCHANGED dict

\* The client stops waiting for an answer to a malformed request.
GiveUp(c, r) ==
  /\ call[c] = <<"sent", r>> /\ ~WellFormed(r)
  /\ call' = [call EXCEPT ![c] = Idle]
  /\ UNCHANGED <<dict, seen>>

\* Closing the connection, and the server finding out.
Leave(c, r) ==
  /\ seen' = [seen EXCEPT ![c] = Absent]
  /\ \/ /\ call[c] = <<"sent", r>>
        /\ \/ call' = [call EXCEPT ![c] = <<"orphan", r>>]
           \/ call' = [call EXCEPT ![c] = Idle]
     \/ call[c][1] = "done" /\ call' = [call EXCEPT ![c] = Idle]
     \/ call[c] = <<"orphan", r>> /\ call' = [call EXCEPT ![c] = Idle]
     \/ call[c] = Idle /\ UNCHANGED call
  /\ UNCHANGED dict

Next ==
  \E c \in Clients :
    \/ \E r \in Requests : Invoke(c, r) \/ Apply(c, r) \/ GiveUp(c, r) \/ Leave(c, r)
    \/ call[c][1] = "done" /\ Answer(c, call[c][2])

Spec == Init /\ [][Next]_vars
=============================================================================
