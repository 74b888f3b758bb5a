----------------------------- MODULE KvsProtocol -----------------------------
(***************************************************************************)
(* The command layer of zzx_kvstore (kvstore.c): what kvs_protocol does to *)
(* the three engines and what it leaves in the response buffer, as pure    *)
(* operators.  The engines are the maps KvsArray, KvsRbtree and KvsHash     *)
(* implement, with enough memory and room: dict[e][k] is the value of k in *)
(* engine e.                                                               *)
(*                                                                         *)
(* A request is [engine, op, args]: the command word split into its family *)
(* ("array" SET, "rbtree" RSET, "hash" HSET) and operation, and the tokens *)
(* after it.  The bytes of one recv are a sequence of requests: the        *)
(* protocol has no delimiter, so two requests in one buffer melt into one  *)
(* line whose middle token is the end of the first and the start of the    *)
(* second.                                                                 *)
(***************************************************************************)
EXTENDS Integers, Sequences

CONSTANTS
  Keys, Vals,
  Absent,         \* not a value: the key is not in the engine
  \* of the network layers
  Clients, Requests,
  MaxFd,          \* bound on the descriptors of the process
  NONE            \* no client, no request

Fds    == 1..MaxFd
LISTEN == 0       \* the listening socket

Engines == {"array", "rbtree", "hash"}
Texts   == Vals \cup {"OK", "EXIST", "NOT FOUND", "NOT EXIST"}   \* what is answered
Arity   == [SET |-> 3, GET |-> 2, DEL |-> 2, MOD |-> 3, EXIST |-> 2]

EmptyStore == [e \in Engines |-> [k \in Keys |-> Absent]]

Request(e, op, args) == [engine |-> e, op |-> op, args |-> args]
BOGUS == Request("none", "BOGUS", <<>>)     \* a command word not in command[]

Tokens(r) == 1 + Len(r.args)
WellFormed(r) == r.op \in DOMAIN Arity /\ Tokens(r) = Arity[r.op]

\* A request has words, and one with as many as its command takes names an
\* engine, a key and, where the command takes one, a value.
RequestTyped(r) ==
  /\ r.args \in Seq(Keys \cup Vals)
  /\ WellFormed(r) =>
       /\ r.engine \in Engines /\ r.args[1] \in Keys
       /\ Arity[r.op] = 3 => r.args[2] \in Vals

\* kvs_split_token: the first word of the line and how many words there are.
\* Where two requests meet, two words become one; the words after the first
\* are those of the first request only if it is alone.
kvs_split_token(msg) ==
  LET words[i \in 0..Len(msg)] == IF i = 0 THEN 1 ELSE words[i - 1] + Tokens(msg[i]) - 1
  IN  [first |-> msg[1], count |-> words[Len(msg)]]

\* What the engine answers, and what it becomes.
Engine(d, r) ==
  LET e == r.engine
      k == r.args[1]
      old == d[e][k]
      Put(v) == [d EXCEPT ![e][k] = v]
  IN  CASE r.op = "SET" /\ old = r.args[2] -> [text |-> "EXIST", dict |-> d]
        [] r.op = "SET" /\ old # r.args[2] -> [text |-> "OK", dict |-> Put(r.args[2])]
        [] r.op = "GET"   -> [text |-> IF old = Absent THEN "NOT FOUND" ELSE old, dict |-> d]
        [] r.op = "EXIST" -> [text |-> IF old = Absent THEN "NOT EXIST" ELSE "EXIST",
                              dict |-> d]
        [] r.op \in {"DEL", "MOD"} /\ old = Absent -> [text |-> "NOT FOUND", dict |-> d]
        [] r.op = "DEL" /\ old # Absent -> [text |-> "OK", dict |-> Put(Absent)]
        [] r.op = "MOD" /\ old # Absent -> [text |-> "OK", dict |-> Put(r.args[2])]

\* Mutant: the number of words is not checked.
kvs_protocol_filter_NoCount(d, tok) ==
  IF ~WellFormed(tok.first) THEN [length |-> 0, text |-> Absent, dict |-> d]
  ELSE LET r == Engine(d, tok.first) IN [length |-> 1, text |-> r.text, dict |-> r.dict]

\* An unknown command has an empty response, a wrong number of words is an
\* error; neither touches an engine or the response buffer.
kvs_protocol_filter(d, tok) ==
  IF tok.first.op \notin DOMAIN Arity THEN [length |-> 0, text |-> Absent, dict |-> d]
  ELSE IF tok.count # Arity[tok.first.op] THEN [length |-> -2, text |-> Absent, dict |-> d]
  ELSE LET r == Engine(d, tok.first) IN [length |-> 1, text |-> r.text, dict |-> r.dict]

\* The handler of the network layers.  An empty buffer has no token (-1 of the
\* filter); every negative result of the filter becomes -3.
kvs_protocol(d, msg) ==
  IF msg = <<>> THEN [length |-> -3, text |-> Absent, dict |-> d]
  ELSE LET r == kvs_protocol_filter(d, kvs_split_token(msg))
       IN  [r EXCEPT !.length = IF @ < 0 THEN -3 ELSE @]

-----------------------------------------------------------------------------
(* Facts that the proofs of the network layers share. *)

\* A line that is one request has as many words as the request.
LEMMA Words ==
  ASSUME NEW r, Tokens(r) \in Nat
  PROVE  LET words[i \in 0..Len(<<r>>)] ==
               IF i = 0 THEN 1 ELSE words[i - 1] + Tokens(<<r>>[i]) - 1
         IN  words[Len(<<r>>)] = Tokens(r)
<1> DEFINE G(w) == [i \in 0..Len(<<r>>) |-> IF i = 0 THEN 1 ELSE w[i - 1] + Tokens(<<r>>[i]) - 1]
           W == CHOOSE w : w = G(w)
           V == [i \in 0..1 |-> IF i = 0 THEN 1 ELSE Tokens(r)]
<1>1. Len(<<r>>) = 1 /\ <<r>>[1] = r
  OBVIOUS
<1>2. V = G(V)
  <2>1. V[0] = 1 /\ V[1] = Tokens(r)
    OBVIOUS
  <2>2. \A i \in 0..1 : V[i] = IF i = 0 THEN 1 ELSE V[i - 1] + Tokens(<<r>>[i]) - 1
    BY <2>1
  <2>3. V = [i \in 0..1 |-> V[i]]
    OBVIOUS
  <2> HIDE DEF V
  <2> QED
    BY <1>1, <2>2, <2>3
<1>3. W = G(W)
  <2>1. \E w : w = G(w)
    BY <1>2
  <2> HIDE DEF G
  <2> QED
    BY <2>1
<1>4. W[1] = Tokens(r)
  <2> HIDE DEF W
  <2>1. W[0] = 1 /\ W[1] = W[0] + Tokens(r) - 1
    BY <1>1, <1>3
  <2> QED
    BY <2>1
<1> QED
  BY <1>1, <1>4

\* What an engine answers to a well-formed request, and what it becomes.
LEMMA EngineTyped ==
  ASSUME NEW d \in [Engines -> [Keys -> Vals \cup {Absent}]],
         NEW r, RequestTyped(r), WellFormed(r)
  PROVE  /\ Engine(d, r).text \in Texts
         /\ Engine(d, r).dict \in [Engines -> [Keys -> Vals \cup {Absent}]]
<1>1. /\ r.engine \in Engines /\ r.args[1] \in Keys
      /\ r.op \in {"SET", "MOD"} => r.args[2] \in Vals
      /\ r.op \in {"SET", "GET", "DEL", "MOD", "EXIST"}
  BY DEF RequestTyped, WellFormed, Arity
<1>2. d[r.engine][r.args[1]] \in Vals \cup {Absent}
  BY <1>1
<1>3. CASE r.op = "SET"
  BY <1>1, <1>2, <1>3 DEF Engine, Texts
<1>4. CASE r.op = "GET"
  BY <1>1, <1>2, <1>4 DEF Engine, Texts
<1>5. CASE r.op = "DEL"
  BY <1>1, <1>2, <1>5 DEF Engine, Texts
<1>6. CASE r.op = "MOD"
  BY <1>1, <1>2, <1>6 DEF Engine, Texts
<1>7. CASE r.op = "EXIST"
  BY <1>1, <1>2, <1>7 DEF Engine, Texts
<1> QED
  BY <1>1, <1>3, <1>4, <1>5, <1>6, <1>7

\* One request: it is carried out and answered, or does nothing and is not answered.
LEMMA OneRequest ==
  ASSUME NEW d, NEW r, Tokens(r) \in Nat
  PROVE  LET out == kvs_protocol(d, <<r>>)
         IN  IF WellFormed(r)
             THEN out = [length |-> 1, text |-> Engine(d, r).text, dict |-> Engine(d, r).dict]
             ELSE out.length \in {-3, 0} /\ out.dict = d
<1>1. kvs_split_token(<<r>>) = [first |-> r, count |-> Tokens(r)]
  BY Words DEF kvs_split_token
<1>2. <<r>> # <<>>
  OBVIOUS
<1>3. CASE WellFormed(r)
  BY <1>1, <1>2, <1>3 DEF kvs_protocol, kvs_protocol_filter, WellFormed
<1>4. CASE ~WellFormed(r)
  BY <1>1, <1>2, <1>4 DEF kvs_protocol, kvs_protocol_filter, WellFormed
<1> QED
  BY <1>3, <1>4

\* Whatever one recv takes: the result is one of three, an answer is a text, and the
\* engines keep holding values.
LEMMA Handled ==
  ASSUME NEW R, \A r \in R : RequestTyped(r),
         NEW d \in [Engines -> [Keys -> Vals \cup {Absent}]],
         NEW msg \in Seq(R), msg # <<>>,
         \A i \in 1..Len(msg) : ~WellFormed(msg[i]) => Len(msg) = 1
  PROVE  LET out == kvs_protocol(d, msg)
         IN  /\ out.length \in {-3, 0, 1}
             /\ out.length > 0 => out.text \in Texts
             /\ out.dict \in [Engines -> [Keys -> Vals \cup {Absent}]]
<1>1. msg[1] \in R /\ 1 \in 1..Len(msg)
  OBVIOUS
<1>2. Tokens(msg[1]) \in Nat
  BY <1>1 DEF RequestTyped, Tokens
<1>3. CASE ~WellFormed(msg[1])
  <2>1. msg = <<msg[1]>>
    BY <1>1, <1>3
  <2>2. LET out == kvs_protocol(d, <<msg[1]>>) IN out.length \in {-3, 0} /\ out.dict = d
    BY <1>2, <1>3, OneRequest
  <2> QED
    BY <2>1, <2>2
<1>4. CASE WellFormed(msg[1])
  <2> DEFINE e == Engine(d, msg[1])
             tok == kvs_split_token(msg)
  <2>1. e.text \in Texts /\ e.dict \in [Engines -> [Keys -> Vals \cup {Absent}]]
    BY <1>1, <1>4, EngineTyped
  <2>2. tok.first = msg[1]
    BY DEF kvs_split_token
  <2> HIDE DEF tok
  <2>3. kvs_protocol_filter(d, tok) \in
          { [length |-> -2, text |-> Absent, dict |-> d],
            [length |-> 1, text |-> e.text, dict |-> e.dict] }
    BY <1>4, <2>2 DEF kvs_protocol_filter, WellFormed
  <2>4. kvs_protocol(d, msg) = [kvs_protocol_filter(d, tok) EXCEPT !.length = IF @ < 0 THEN -3 ELSE @]
    BY DEF kvs_protocol, tok
  <2> HIDE DEF e
  <2> QED
    BY <2>1, <2>3, <2>4
<1> QED
  BY <1>3, <1>4
=============================================================================
