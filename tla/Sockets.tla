------------------------------- MODULE Sockets -------------------------------
(***************************************************************************)
(* The connection of an AMQPClient or an AMQPWebSocketClient: connect and  *)
(* its handshake, the events of the sockets, close and updateSecret.       *)
(*                                                                         *)
(* Each call of connect makes a socket, numbered as the attempt.  The      *)
(* handlers of all of them act on one client: what a socket's data makes   *)
(* the client write goes to this.socket, which may be a later one.         *)
(*                                                                         *)
(* connect is called after the attempt before was rejected, or its         *)
(* connection has ended.                                                   *)
(***************************************************************************)
EXTENDS Connection

VARIABLES
    transport,      \* "tcp" or "ws"
    attempts,       \* how often connect was called
    connectPromise, \* the attempt connectPromise would settle
    armed,          \* sockets with the heartbeat's timeout handler
    confused,       \* sockets on which a frame was written out of turn
    closeCall,      \* the promise of close; "awaiting": it is in closePromise
    secretCall,     \* the promise of updateSecret
    cutShort        \* history: a connection ended under close or updateSecret

client == <<socket, closed, connectPromise, promise, armed>>
net == <<life, phase, confused>>
calls == <<closeCall, secretCall>>
history == <<abandoned, meddled, cutShort>>
vars == <<transport, attempts, client, net, calls, history>>

\* ending: ended by the peer or destroyed, the close event is to come
\* failing: a WebSocket closed before it was open, the events are to come
Life == {"unused", "dialing", "failing", "up", "ending", "gone"}
\* greeted: the protocol header is sent; started: Start-Ok; tuned: Tune-Ok and Open;
\* open: Open-Ok was received; mute: what the broker awaits was written elsewhere
Phase == {"none", "greeted", "started", "tuned", "open", "mute"}

TypeOK ==
    /\ transport \in {"tcp", "ws"} /\ attempts \in 0 .. MaxSocket
    /\ socket \in Socket \cup {None} /\ closed \in BOOLEAN
    /\ connectPromise \in Socket \cup {None}
    /\ promise \in [Socket -> {"none", "pending", "resolved", "rejected"}]
    /\ armed \in SUBSET Socket /\ life \in [Socket -> Life] /\ phase \in [Socket -> Phase]
    /\ confused \in SUBSET Socket /\ abandoned \in SUBSET Socket
    /\ closeCall \in {"none", "awaiting", "resolved", "rejected"}
    /\ secretCall \in {"none", "awaiting", "resolved", "rejected"}
    /\ meddled \in BOOLEAN /\ cutShort \in BOOLEAN

Init ==
    /\ transport \in {"tcp", "ws"} /\ attempts = 0
    /\ socket = None /\ closed = TRUE /\ connectPromise = None
    /\ promise = [s \in Socket |-> "none"] /\ armed = {}
    /\ life = [s \in Socket |-> "unused"] /\ phase = [s \in Socket |-> "none"] /\ confused = {}
    /\ closeCall = "none" /\ secretCall = "none"
    /\ abandoned = {} /\ meddled = FALSE /\ cutShort = FALSE

----------------------------------------------------------------------------
(* Helpers *)

\* An event of s is handled; has s been given up?
Handle(s) == meddled' = (meddled \/ s \in abandoned \/ socket \notin {s, None})

\* resolve and reject of a settled promise do nothing
Settled(p, s, how) == [p EXCEPT ![s] = IF @ = "pending" THEN how ELSE @]

\* The client's next frame of the handshake of s goes to this.socket; without one the
\* write is rejected, and `.catch(this.rejectConnect)` throws, as rejectConnect has no this.
Reply(s, next) ==
    /\ phase' = [phase EXCEPT ![s] = IF socket = s THEN next ELSE "mute"]
    /\ confused' = confused \cup ({socket} \ {s, None})

\* Mutant: closeSocket does not destroy the socket.
Ended_Kept == life
\* socket.end(), socket.destroy(): a TCP socket that was never connected has no handlers
Ended ==
    LET end(l) == IF l = "up" THEN "ending"
                  ELSE IF l # "dialing" THEN l
                  ELSE IF transport = "ws" THEN "failing" ELSE "gone"
    IN  IF socket = None THEN life ELSE [life EXCEPT ![socket] = end(@)]

\* Mutant: closed is left as it is.
ClosedNow_Not == closed
ClosedNow == TRUE

CloseSocket == closed' = ClosedNow /\ life' = Ended /\ socket' = None

\* A call the connection ends under, how it may be left: over TCP its frame may still be
\* in the writing, which then fails; otherwise nobody settles it.
Left(call) == IF call = "awaiting" /\ transport = "tcp" THEN {"awaiting", "rejected"} ELSE {call}
CutShort == cutShort' = (cutShort \/ closeCall = "awaiting" \/ secretCall = "awaiting")
Cut == CutShort /\ closeCall' \in Left(closeCall) /\ secretCall' \in Left(secretCall)

----------------------------------------------------------------------------
(* Calls *)

\* A socket that was destroyed has had its close event before a timer of the
\* application fires; a WebSocket may take its time.
Connect ==
    /\ attempts < MaxSocket
    /\ attempts # 0 => promise[attempts] = "rejected" \/ (promise[attempts] = "resolved" /\ socket = None)
    /\ transport = "tcp" => \A s \in Socket : life[s] # "ending"
    /\ LET s == attempts + 1 IN
          /\ attempts' = s /\ socket' = s /\ connectPromise' = s
          /\ promise' = [promise EXCEPT ![s] = "pending"]
          /\ life' = [life EXCEPT ![s] = "dialing"]
    /\ UNCHANGED <<transport, closed, armed, phase, confused, calls, history>>

\* close: the promise is kept in closePromise once the frame is written.
Close ==
    /\ ~closed /\ closeCall = "none" /\ closed' = TRUE
    /\ closeCall' = IF socket = None THEN "rejected" ELSE "awaiting"
    /\ UNCHANGED <<transport, attempts, socket, connectPromise, promise, armed, net, secretCall,
                   history>>

UpdateSecret ==
    /\ secretCall = "none" /\ (socket # None => phase[socket] = "open")
    /\ secretCall' = IF socket = None THEN "rejected" ELSE "awaiting"
    /\ UNCHANGED <<transport, attempts, client, net, closeCall, history>>

----------------------------------------------------------------------------
(* Events of a socket *)

\* The AMQPClient sends the protocol header to this.socket, the WebSocket client to its own.
Dialed(s) ==
    /\ life[s] = "dialing" /\ life' = [life EXCEPT ![s] = "up"]
    /\ Handle(s)
    /\ \/ transport = "tcp" /\ Reply(s, "greeted")
       \/ transport = "ws" /\ phase' = [phase EXCEPT ![s] = "greeted"] /\ UNCHANGED confused
    /\ UNCHANGED <<transport, attempts, client, calls, abandoned, cutShort>>

DialFails(s) ==
    /\ life[s] \in {"dialing", "failing"} /\ life' = [life EXCEPT ![s] = "gone"]
    /\ promise' = Settled(promise, s, "rejected")
    /\ UNCHANGED <<transport, attempts, socket, closed, connectPromise, armed, phase, confused,
                   calls, history>>

Speaks(s, step) == life[s] = "up" /\ phase[s] = step /\ s \notin confused

GotStart(s) ==
    /\ Speaks(s, "greeted") /\ Handle(s) /\ Reply(s, "started")
    /\ UNCHANGED <<transport, attempts, client, life, calls, abandoned, cutShort>>

GotTune(s) ==
    /\ Speaks(s, "started") /\ Handle(s) /\ Reply(s, "tuned")
    /\ UNCHANGED <<transport, attempts, client, life, calls, abandoned, cutShort>>

\* Connection.OpenOk settles the attempt that is in connectPromise.
GotOpenOk(s) ==
    /\ Speaks(s, "tuned") /\ Handle(s)
    /\ phase' = [phase EXCEPT ![s] = "open"]
    /\ closed' = FALSE /\ connectPromise' = None
    /\ \/ /\ connectPromise # None
          /\ promise' = Settled(promise, connectPromise, "resolved")
          /\ armed' = IF transport = "tcp" THEN armed \cup {connectPromise} ELSE armed
       \/ connectPromise = None /\ UNCHANGED <<promise, armed>>
    /\ UNCHANGED <<transport, attempts, socket, life, confused, calls, abandoned, cutShort>>

\* Connection.Close of the broker, also in the handshake (access refused): ondisconnect,
\* rejectConnect, and onUpdateSecretOk is called as if the secret were updated.
GotClose(s) ==
    /\ life[s] = "up" /\ phase[s] # "none"
    /\ Handle(s)
    /\ promise' = IF connectPromise = None THEN promise
                  ELSE Settled(promise, connectPromise, "rejected")
    /\ connectPromise' = None
    /\ CloseSocket
    /\ CutShort /\ closeCall' \in Left(closeCall)
    /\ secretCall' \in IF secretCall = "awaiting" THEN (Left(secretCall) \ {"awaiting"}) \cup {"resolved"}
                       ELSE {secretCall}
    /\ UNCHANGED <<transport, attempts, armed, phase, confused, abandoned>>

\* Connection.CloseOk
GotCloseOk(s) ==
    /\ Speaks(s, "open") /\ s = socket /\ closeCall = "awaiting" /\ closed
    /\ closeCall' = "resolved" /\ CloseSocket
    /\ cutShort' = (cutShort \/ secretCall = "awaiting") /\ secretCall' \in Left(secretCall)
    /\ UNCHANGED <<transport, attempts, connectPromise, promise, armed, phase, confused,
                   abandoned, meddled>>

GotUpdateSecretOk(s) ==
    /\ Speaks(s, "open") /\ s = socket /\ secretCall = "awaiting"
    /\ secretCall' = "resolved"
    /\ UNCHANGED <<transport, attempts, client, net, closeCall, history>>

\* The peer ends the connection, or an error does.  A TCP socket says so with "end" or
\* "error", which reject the attempt; a WebSocket only with "close".
PeerEnds(s) ==
    /\ life[s] = "up" /\ life' = [life EXCEPT ![s] = "ending"]
    /\ promise' = IF transport = "tcp" THEN Settled(promise, s, "rejected") ELSE promise
    /\ UNCHANGED <<transport, attempts, socket, closed, connectPromise, armed, phase, confused,
                   calls, history>>

\* The error event of a WebSocket, before its close event
WebSocketFails(s) ==
    /\ transport = "ws" /\ life[s] = "up" /\ life' = [life EXCEPT ![s] = "ending"]
    /\ Handle(s)
    /\ promise' = Settled(promise, s, "rejected")
    /\ \/ closed /\ UNCHANGED <<closed, socket, calls, cutShort>>
       \/ ~closed /\ closed' = TRUE /\ socket' = None /\ Cut
    /\ UNCHANGED <<transport, attempts, connectPromise, armed, phase, confused, abandoned>>

\* The close event: whichever socket the client has, it has none now.
SocketClosed(s) ==
    /\ life[s] = "ending" /\ life' = [life EXCEPT ![s] = "gone"]
    /\ Handle(s)
    /\ closed' = TRUE /\ socket' = None
    /\ promise' = IF transport = "ws" THEN Settled(promise, s, "rejected") ELSE promise
    /\ Cut
    /\ UNCHANGED <<transport, attempts, connectPromise, armed, phase, confused, abandoned>>

\* Mutant: the time limit of the socket does not reject.
GivenUp_Silently(s) == promise
GivenUp(s) == Settled(promise, s, "rejected")

\* The socket is idle before the connection is open: the attempt is rejected, no more.
ConnectTimesOut(s) ==
    /\ transport = "tcp" /\ life[s] \in {"dialing", "up"} /\ promise[s] = "pending"
    /\ promise' = GivenUp(s)
    /\ abandoned' = abandoned \cup {s}
    /\ UNCHANGED <<transport, attempts, socket, closed, connectPromise, armed, net, calls, meddled,
                   cutShort>>

HeartbeatTimesOut(s) ==
    /\ s \in armed /\ life[s] = "up"
    /\ Handle(s) /\ CloseSocket /\ Cut
    /\ UNCHANGED <<transport, attempts, connectPromise, promise, armed, phase, confused, abandoned>>

----------------------------------------------------------------------------
Events(s) ==
    \/ Dialed(s) \/ DialFails(s) \/ GotStart(s) \/ GotTune(s) \/ GotOpenOk(s) \/ GotClose(s)
    \/ PeerEnds(s) \/ WebSocketFails(s) \/ SocketClosed(s) \/ HeartbeatTimesOut(s)
Answers(s) == GotCloseOk(s) \/ GotUpdateSecretOk(s)
TimesOut == \E s \in Socket : ConnectTimesOut(s)
Closings == \E s \in Socket : SocketClosed(s)

Next ==
    \/ Connect \/ Close \/ UpdateSecret \/ TimesOut
    \/ \E s \in Socket : Events(s) \/ Answers(s)

\* Timers fire, a socket that has ended says so, and the broker answers close.
Spec ==
    /\ Init /\ [][Next]_vars
    /\ WF_vars(TimesOut) /\ WF_vars(Closings) /\ WF_vars(\E s \in Socket : Answers(s))

----------------------------------------------------------------------------
(* What the caller may rely on, besides what Connection says *)

\* Every call settles, as long as no socket was given up: an attempt over TCP, as its
\* socket's time limit sees to it; close and updateSecret, unless the connection ends
\* first, for then nobody settles them.
Attempting == \E s \in Socket : promise[s] = "pending"
Awaiting == closeCall = "awaiting" \/ secretCall = "awaiting"
CallsSettle ==
    /\ transport = "tcp" /\ Attempting ~> ~Attempting \/ meddled
    /\ Awaiting ~> ~Awaiting \/ cutShort \/ meddled
=============================================================================
