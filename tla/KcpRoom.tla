------------------------------ MODULE KcpRoom ------------------------------
(***************************************************************************)
(* The chat room over KCP: the sessions of kcp_server.cc, the keep-alive   *)
(* of kcp_session.cc and the users of chat_server.cc.                      *)
(*                                                                         *)
(* The server keeps one session for each conversation number.  The thread  *)
(* of KcpServer::Run makes it when a datagram of an unknown conversation   *)
(* arrives, the thread of KcpServer::Update closes it when no keep-alive   *)
(* has come through it for keep_alive_timeout.  Each holds the server's    *)
(* mutex for a whole turn, so a turn is one step here.                     *)
(*                                                                         *)
(* KCP itself is the module Kcp.  What matters of it here: a session gives *)
(* its application only what follows number 0 without a gap, so a session  *)
(* made in the middle of a conversation is deaf; it acknowledges all the   *)
(* same, and its client goes on sending.                                   *)
(***************************************************************************)
EXTENDS Naturals, FiniteSets

CONSTANTS
    Convs,        \* conversations, one per client
    Addrs,        \* addresses a client may have
    KeepAlive,    \* keep_alive_timeout of the server, in ticks of the clock
    MaxSessions,  \* bound on the sessions made
    MaxRoams      \* bound on changes of address

ASSUME RoomAssumption == KeepAlive \in Nat /\ MaxSessions \in Nat /\ MaxRoams \in Nat

VARIABLES
    sessions,  \* sessions[c]: the session of c, NoSession if none
    users,     \* users_ of the chat server: numbers of sessions
    seen,      \* seen[n]: the addresses session n was told are in the room
    clients,   \* clients[c]: [up, fresh (number 0 not accepted yet), addr]
    made,      \* sessions made so far
    roams      \* changes of address so far

roomVars == <<sessions, users, seen, clients, made, roams>>

NoSession == [n |-> 0]
Live == { c \in Convs : sessions[c] # NoSession }

RoomInit ==
    /\ sessions = [c \in Convs |-> NoSession]
    /\ users = {}
    /\ seen = [n \in 1..MaxSessions |-> {}]
    /\ clients \in [Convs -> [up : {TRUE}, fresh : {TRUE}, addr : Addrs]]
    /\ \A c, d \in Convs : clients[c].addr = clients[d].addr => c = d
    /\ made = 0 /\ roams = 0

\* ChatServer::Notify after HandleConnection: the newcomer is a user already.
Joined(view, room, addr) ==
    [n \in DOMAIN view |-> IF n \in room THEN view[n] \cup {addr} ELSE view[n]]

\* ChatServer::Notify after HandleClose: the one that left is no user now.
Departed(view, room, addr) ==
    [n \in DOMAIN view |-> IF n \in room THEN view[n] \ {addr} ELSE view[n]]

\* Mutant: the newcomer is no user.
NewSession_Alone(c, first) ==
    LET n == made + 1 IN
    /\ made < MaxSessions
    /\ made' = n
    /\ sessions' = [sessions EXCEPT ![c] =
          [n |-> n, addr |-> clients[c].addr, hears |-> first, idle |-> 0]]
    /\ users' = users
    /\ seen' = Joined(seen, users', clients[c].addr)

\* KcpServer::NewSession, with ChatServer::HandleConnection: the session hears
\* if number 0 of the conversation is still to come.
NewSession(c, first) ==
    LET n == made + 1 IN
    /\ made < MaxSessions
    /\ made' = n
    /\ sessions' = [sessions EXCEPT ![c] =
          [n |-> n, addr |-> clients[c].addr, hears |-> first, idle |-> 0]]
    /\ users' = users \cup {n}
    /\ seen' = Joined(seen, users', clients[c].addr)

\* KcpServer::HandleSession of a session that is there: the address follows
\* the client, a keep-alive that is heard restarts the clock.
OldSession(c, alive) ==
    /\ sessions' = [sessions EXCEPT
          ![c].addr = clients[c].addr,
          ![c].idle = IF alive /\ sessions[c].hears THEN 0 ELSE @]
    /\ UNCHANGED <<users, seen, made>>

\* KcpServer::Run, one datagram of c: with its number 0 or not, with a
\* keep-alive message or not.
Datagram(c, zero, alive) ==
    /\ clients[c].up
    /\ clients' = [clients EXCEPT ![c].fresh = @ /\ ~zero]
    /\ IF sessions[c] = NoSession THEN NewSession(c, clients[c].fresh)
       ELSE OldSession(c, alive)
    /\ UNCHANGED roams

\* The clock: every session has been idle for one tick more.  A client that
\* is up sends its keep-alive (KcpSession::Update) before the time is over,
\* unless it was stopped in between.
Elapse ==
    /\ \E c \in Live : sessions[c].idle <= KeepAlive
    /\ sessions' = [c \in Convs |->
          IF c \in Live /\ sessions[c].idle <= KeepAlive
          THEN [sessions[c] EXCEPT !.idle = @ + 1] ELSE sessions[c]]
    /\ UNCHANGED <<users, seen, clients, made, roams>>

\* KcpServer::Update: the session that timed out leaves users_ and the map.
CloseSession(c) ==
    /\ c \in Live /\ sessions[c].idle > KeepAlive
    /\ sessions' = [sessions EXCEPT ![c] = NoSession]
    /\ users' = users \ {sessions[c].n}
    /\ seen' = Departed(seen, users', sessions[c].addr)
    /\ UNCHANGED <<clients, made, roams>>

\* The client's process ends; another one takes another conversation number.
Die(c) ==
    /\ clients[c].up
    /\ clients' = [clients EXCEPT ![c].up = FALSE]
    /\ UNCHANGED <<sessions, users, seen, made, roams>>

\* The client gets another address that nobody has.
Roam(c) ==
    /\ clients[c].up /\ roams < MaxRoams /\ roams' = roams + 1
    /\ \E a \in Addrs :
          /\ \A d \in Convs : clients[d].addr # a
          /\ \A d \in Live : sessions[d].addr # a
          /\ clients' = [clients EXCEPT ![c].addr = a]
    /\ UNCHANGED <<sessions, users, seen, made>>

RoomNext ==
    \/ Elapse
    \/ \E c \in Convs : CloseSession(c) \/ Die(c) \/ Roam(c)
                         \/ \E zero, alive \in BOOLEAN : Datagram(c, zero, alive)

RoomSpec == RoomInit /\ [][RoomNext]_roomVars

-----------------------------------------------------------------------------
RoomTypeOK ==
    /\ users \subseteq 1..made /\ made \in 0..MaxSessions
    /\ \A c \in Live : sessions[c].idle \in 0..(KeepAlive + 1)
    /\ \A n \in DOMAIN seen : seen[n] \subseteq Addrs

\* The room and the session table never disagree: a message is offered to
\* every live session and to no closed one.
RoomIsSessions ==
    /\ users = { sessions[c].n : c \in Live }
    /\ \A c, d \in Live : sessions[c].n = sessions[d].n => c = d

\* As long as nobody changes address, what a user was told of who came and
\* who left is who is there, of those who came after him.  (A notice names
\* an address: after a change the notice of leaving names another one than
\* the notice of joining did.)
NoticesAgree ==
    roams = 0 =>
        \A c \in Live :
            seen[sessions[c].n] =
                { sessions[d].addr : d \in { x \in Live :
                                        sessions[x].n >= sessions[c].n } }

\* The chat room: users, sessions and what users were told agree, through timeouts and
\* sessions that are made again (kcp_server.cc:34-80).
RoomSound == RoomTypeOK /\ RoomIsSessions /\ NoticesAgree

\* Sessions that are to be closed in the end: that of a client whose process ended;
\* and one made after number 0 of its conversation was acknowledged by an earlier
\* one, although its client is up, sends keep-alive messages in time and sees all of
\* them acknowledged.
RoomOwes(c) == c \in Live /\ (~sessions[c].hears \/ ~clients[c].up)
RoomGives(c) == c \notin Live
=============================================================================
