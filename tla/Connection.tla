------------------------------ MODULE Connection -------------------------------
(***************************************************************************)
(* The connection of an AMQPClient or an AMQPWebSocketClient as the caller *)
(* of connect knows it, and what it may rely on.  Sockets is how the       *)
(* client goes about it.                                                   *)
(***************************************************************************)
EXTENDS Naturals

CONSTANTS
    MaxSocket, \* bound: calls of connect
    None

ASSUME SocketsAssumption == MaxSocket \in Nat /\ None \notin 1 .. MaxSocket

\* Each call of connect makes a socket, numbered as the attempt.
Socket == 1 .. MaxSocket

VARIABLES
    socket,         \* AMQPBaseClient.socket
    closed,         \* AMQPBaseClient.closed
    promise,        \* of each attempt
    life,           \* of each socket
    phase,          \* of each socket: how far the handshake is
    abandoned,      \* history: sockets whose attempt timed out
    meddled         \* history: a socket that was given up has had its say

(* An attempt that times out leaves its socket to have its say later: from then on,  *)
(* nothing of this holds.                                                            *)

\* connect resolves when the handshake is done on the socket it made, and closed is false
\* only on a socket whose handshake is done.
OpenIsUsable ==
    ~meddled =>
        /\ \A s \in Socket : promise[s] = "resolved" => phase[s] = "open"
        /\ ~closed => socket # None /\ phase[socket] = "open" /\ life[socket] \in {"up", "ending"}

\* The client keeps no socket open but its own and the ones whose attempts timed out.
NothingLeaks == \A s \in Socket : life[s] = "up" /\ ~meddled => s = socket \/ s \in abandoned
=============================================================================
