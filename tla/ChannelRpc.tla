----------------------------- MODULE ChannelRpc -----------------------------
(***************************************************************************)
(* Synchronous RPCs of an AMQPChannel over one connection.                  *)
(*                                                                         *)
(* A method that needs an answer (open, queueDeclare, close, ...) calls    *)
(* sendRpc: the call waits in rpcQueue, a chain of promises, until every   *)
(* earlier frame of the channel is written; its step then pushes the       *)
(* promise's callbacks on rpcCallbacks and writes the frame.  An answer    *)
(* carries no correlation: it settles the FIRST callbacks of the channel   *)
(* object found in the connection's table under the frame's number.        *)
(*                                                                         *)
(* The server and the socket are the environment.  AMQP orders the frames  *)
(* of one channel, so the wire is one queue per channel number and         *)
(* direction; the frames of channel 0 are the variable bye.                *)
(***************************************************************************)
EXTENDS Naturals, Sequences

CONSTANTS
    Call,       \* invocations of channel methods that wait for an answer
    Chan,       \* AMQPChannel objects
    Number,     \* channel numbers, 1 .. channelMax
    None        \* undefined

ASSUME NoneAssumption == None \notin Call \cup Chan \cup Number

VARIABLES
    connClosed,   \* AMQPBaseClient.closed
    bye,          \* channel 0: what is under way to close the connection
    sock,         \* "up", "broken" (no 'close' event yet) or "gone" (undefined)
    parsing,      \* between two frames of one socket read
    slot,         \* AMQPBaseClient.channels
    number,       \* AMQPChannel.id; None: the object does not exist yet
    closed,       \* AMQPChannel.closed
    rpcQueue,     \* calls whose step of the promise chain has not run
    sending,      \* the call whose write the promise chain is waiting for
    rpcCallbacks, \* AMQPChannel.rpcCallbacks
    owner, kind,  \* the channel object and the method of a call
    promise,      \* the promise a call returned
    answer,       \* history: the request whose answer fulfilled the call
    toServer, toClient, server,  \* the wire and the server's channel states
    crossed       \* history: numbers on which a frame of a replaced object is
                  \* under way (see Step and ServerClosedChannel)

chanVars == <<slot, number, closed>>
rpcVars  == <<rpcQueue, sending, rpcCallbacks>>
callVars == <<owner, kind, promise, answer>>
wireVars == <<toServer, toClient, server>>
connVars == <<connClosed, bye, sock, parsing>>
vars == <<connVars, chanVars, rpcVars, callVars, wireVars, crossed>>

\* A frame and the call it asks or answers for; the call is not on the wire, it
\* tells whose request an answer is meant for.
Frame == [method : {"Request", "Ok", "Close", "CloseOk"}, call : Call \cup {None}]
Request(c)  == [method |-> "Request", call |-> c]
Ok(c)       == [method |-> "Ok",      call |-> c]
CloseOk(c)  == [method |-> "CloseOk", call |-> c]
CloseMethod == [method |-> "Close",   call |-> None]

Elems(s) == {s[i] : i \in DOMAIN s}

ConnTypeOK ==
    /\ connClosed \in BOOLEAN
    /\ bye \in {"none", "asked", "Close", "CloseOk"}
    /\ sock \in {"up", "broken", "gone"}
    /\ parsing \in BOOLEAN
ChanTypeOK ==
    /\ slot \in [Number -> Chan \cup {None}]
    /\ number \in [Chan -> Number \cup {None}]
    /\ closed \in [Chan -> BOOLEAN]
RpcTypeOK ==
    /\ rpcQueue \in [Chan -> Seq(Call)]
    /\ sending \in [Chan -> Call \cup {None}]
    /\ rpcCallbacks \in [Chan -> Seq(Call)]
CallTypeOK ==
    /\ owner \in [Call -> Chan \cup {None}]
    /\ kind \in [Call -> {"none", "open", "rpc", "close"}]
    /\ promise \in [Call -> {"none", "pending", "resolved", "rejected"}]
    /\ answer \in [Call -> Call \cup {None}]
WireTypeOK ==
    /\ toServer \in [Number -> Seq(Frame)]
    /\ toClient \in [Number -> Seq(Frame)]
    /\ server \in [Number -> {"closed", "open", "closing"}]
    /\ crossed \in SUBSET Number
TypeOK == ConnTypeOK /\ ChanTypeOK /\ RpcTypeOK /\ CallTypeOK /\ WireTypeOK

Init ==
    /\ connClosed = FALSE /\ bye = "none" /\ sock = "up" /\ parsing = FALSE
    /\ slot = [n \in Number |-> None]
    /\ number = [ch \in Chan |-> None]
    /\ closed = [ch \in Chan |-> FALSE]
    /\ rpcQueue = [ch \in Chan |-> <<>>]
    /\ sending = [ch \in Chan |-> None]
    /\ rpcCallbacks = [ch \in Chan |-> <<>>]
    /\ owner = [c \in Call |-> None] /\ kind = [c \in Call |-> "none"]
    /\ promise = [c \in Call |-> "none"] /\ answer = [c \in Call |-> None]
    /\ toServer = [n \in Number |-> <<>>] /\ toClient = [n \in Number |-> <<>>]
    /\ server = [n \in Number |-> "closed"]
    /\ crossed = {}

----------------------------------------------------------------------------
(* Calls of the application *)


\* Settling a promise that is settled already has no effect.
Settled(C, outcome) ==
    [c \in Call |-> IF c \in C /\ promise[c] = "pending" THEN outcome ELSE promise[c]]

\* `if (this.closed) return this.rejectClosed()`
RejectClosed(c) ==
    /\ promise' = [promise EXCEPT ![c] = "rejected"]
    /\ UNCHANGED <<connVars, chanVars, rpcVars, owner, kind, answer, wireVars, crossed>>

\* Mutant: the call is put in front of the chain.
SendRpcFirst(c, ch, k) ==
    /\ rpcQueue' = [rpcQueue EXCEPT ![ch] = <<c>> \o @]
    /\ owner' = [owner EXCEPT ![c] = ch]
    /\ kind' = [kind EXCEPT ![c] = k]
    /\ promise' = [promise EXCEPT ![c] = "pending"]
    /\ UNCHANGED <<connVars, sending, rpcCallbacks, answer, wireVars, crossed>>

\* sendRpc, up to the step it appends to the promise chain
SendRpc(c, ch, k) ==
    /\ rpcQueue' = [rpcQueue EXCEPT ![ch] = Append(@, c)]
    /\ owner' = [owner EXCEPT ![c] = ch]
    /\ kind' = [kind EXCEPT ![c] = k]
    /\ promise' = [promise EXCEPT ![c] = "pending"]
    /\ UNCHANGED <<connVars, sending, rpcCallbacks, answer, wireVars, crossed>>

\* AMQPBaseClient.channel(id): a fresh object takes a free entry of the table
\* before its open has been answered.
OpenChannel(c, ch, n) ==
    /\ promise[c] = "none" /\ number[ch] = None
    /\ ~connClosed
    /\ slot[n] = None
    /\ slot' = [slot EXCEPT ![n] = ch]
    /\ number' = [number EXCEPT ![ch] = n]
    /\ SendRpc(c, ch, "open")
    /\ UNCHANGED closed

\* queueDeclare, basicQos, txSelect, ...: any method but open and close
Rpc(c, ch) ==
    /\ promise[c] = "none" /\ number[ch] # None
    /\ \/ closed[ch] /\ RejectClosed(c)
       \/ ~closed[ch] /\ SendRpc(c, ch, "rpc") /\ UNCHANGED chanVars

\* AMQPChannel.close marks the channel closed before anything is written.
Close(c, ch) ==
    /\ promise[c] = "none" /\ number[ch] # None
    /\ \/ closed[ch] /\ RejectClosed(c)
       \/ /\ ~closed[ch]
          /\ closed' = [closed EXCEPT ![ch] = TRUE]
          /\ SendRpc(c, ch, "close")
          /\ UNCHANGED <<slot, number>>

----------------------------------------------------------------------------
(* The promise chain of sendRpc *)

\* Run to completion: the steps that can run are microtasks, they run before the
\* event loop takes the next event, but not between the frames of one read.
Drained == \A ch \in Chan : rpcQueue[ch] # <<>> => sending[ch] # None
NextEvent == ~parsing /\ Drained

\* The next step of the chain pushes the callbacks and writes the frame.
Step(ch) ==
    LET c == Head(rpcQueue[ch])
        n == number[ch]
    IN  /\ ~parsing /\ sock # "gone"
        /\ rpcQueue[ch] # <<>> /\ sending[ch] = None
        /\ rpcQueue' = [rpcQueue EXCEPT ![ch] = Tail(@)]
        /\ rpcCallbacks' = [rpcCallbacks EXCEPT ![ch] = Append(@, c)]
        /\ sending' = [sending EXCEPT ![ch] = c]
        /\ toServer' = IF sock = "up" THEN [toServer EXCEPT ![n] = Append(@, Request(c))]
                       ELSE toServer
        /\ crossed' = IF slot[n] = ch THEN crossed ELSE crossed \cup {n}
        /\ UNCHANGED <<connVars, chanVars, callVars, toClient, server>>

\* Without a socket, send rejects at once: the callbacks the step pushed are
\* popped again before anything else runs.
StepRejected(ch) ==
    /\ ~parsing /\ sock = "gone"
    /\ rpcQueue[ch] # <<>> /\ sending[ch] = None
    /\ rpcQueue' = [rpcQueue EXCEPT ![ch] = Tail(@)]
    /\ promise' = Settled({Head(rpcQueue[ch])}, "rejected")
    /\ UNCHANGED <<connVars, chanVars, sending, rpcCallbacks, owner, kind, answer, wireVars, crossed>>

\* The socket took the frame: the next step may run.
Written(ch) ==
    /\ NextEvent /\ sending[ch] # None /\ sock = "up"
    /\ sending' = [sending EXCEPT ![ch] = None]
    /\ UNCHANGED <<connVars, chanVars, rpcQueue, rpcCallbacks, callVars, wireVars, crossed>>

\* Mutant: shift instead of pop.
FirstVictim(ch) == IF rpcCallbacks[ch] = <<>> THEN sending[ch] ELSE Head(rpcCallbacks[ch])

\* A failed write pops the LAST callbacks and rejects them; with none left, the
\* call itself is rejected.
Victim(ch) ==
    IF rpcCallbacks[ch] = <<>> THEN sending[ch] ELSE rpcCallbacks[ch][Len(rpcCallbacks[ch])]
WriteFailed(ch) ==
    /\ NextEvent /\ sending[ch] # None /\ sock # "up"
    /\ promise' = Settled({Victim(ch)}, "rejected")
    /\ rpcCallbacks' = IF rpcCallbacks[ch] = <<>> THEN rpcCallbacks
                       ELSE [rpcCallbacks EXCEPT ![ch] = SubSeq(@, 1, Len(@) - 1)]
    /\ sending' = [sending EXCEPT ![ch] = None]
    /\ UNCHANGED <<connVars, chanVars, rpcQueue, owner, kind, answer, wireVars, crossed>>

----------------------------------------------------------------------------
(* Frames from the server *)

NotYetClosed(C) == {ch \in C : ~closed[ch]}
\* Mutant: the callbacks are dropped, nobody is told.
SetClosedSilently(C) ==
    /\ closed' = [ch \in Chan |-> closed[ch] \/ ch \in C]
    /\ rpcCallbacks' = [ch \in Chan |-> IF ch \in NotYetClosed(C) THEN <<>> ELSE rpcCallbacks[ch]]
    /\ UNCHANGED promise

\* AMQPChannel.setClosed for the objects in C: a no-op on a closed one
SetClosed(C) ==
    /\ closed' = [ch \in Chan |-> closed[ch] \/ ch \in C]
    /\ rpcCallbacks' = [ch \in Chan |-> IF ch \in NotYetClosed(C) THEN <<>> ELSE rpcCallbacks[ch]]
    /\ promise' = Settled(UNION {Elems(rpcCallbacks[ch]) : ch \in NotYetClosed(C)}, "rejected")

\* Mutant: pop instead of shift.
ResolveLast(ch, f) ==
    LET callbacks == rpcCallbacks[ch]
        last == callbacks[Len(callbacks)]
    IN  IF callbacks = <<>> THEN UNCHANGED <<rpcCallbacks, promise, answer>>
        ELSE /\ rpcCallbacks' = [rpcCallbacks EXCEPT ![ch] = SubSeq(@, 1, Len(@) - 1)]
             /\ promise' = Settled({last}, "resolved")
             /\ answer' = [answer EXCEPT ![last] = f.call]
\* Mutant: the callbacks are shifted, but not called.
ResolveNobody(ch, f) ==
    /\ rpcCallbacks' = IF rpcCallbacks[ch] = <<>> THEN rpcCallbacks
                       ELSE [rpcCallbacks EXCEPT ![ch] = Tail(@)]
    /\ UNCHANGED <<promise, answer>>

\* resolveRPC: the first callbacks get the answer, whoever it was meant for.
ResolveRPC(ch, f) ==
    LET first == Head(rpcCallbacks[ch])
    IN  IF rpcCallbacks[ch] = <<>> THEN UNCHANGED <<rpcCallbacks, promise, answer>>
        ELSE /\ rpcCallbacks' = [rpcCallbacks EXCEPT ![ch] = Tail(@)]
             /\ promise' = Settled({first}, "resolved")
             /\ answer' = [answer EXCEPT ![first] = f.call]

\* parseFrames, one frame; the read may hold another one
Read(n) ==
    /\ sock = "up" /\ toClient[n] # <<>>
    /\ parsing \/ Drained
    /\ toClient' = [toClient EXCEPT ![n] = Tail(@)]
    /\ parsing' \in {FALSE, \E m \in Number : toClient'[m] # <<>>}
    /\ UNCHANGED <<connClosed, bye, sock, number, rpcQueue, sending, owner, kind, server>>

\* A frame for a number with no channel object is skipped.
SkipFrame(n) ==
    /\ Read(n) /\ slot[n] = None
    /\ UNCHANGED <<slot, closed, rpcCallbacks, promise, answer, toServer, crossed>>

\* open-ok, declare-ok, ...
GotAnswer(n) ==
    LET ch == slot[n]
        f  == Head(toClient[n])
    IN  /\ Read(n) /\ ch # None
        /\ f.method = "Ok"
        /\ ResolveRPC(ch, f)
        /\ UNCHANGED <<slot, closed, toServer, crossed>>

\* close-ok: setClosed, delete from the table, resolveRPC.  An object that did
\* not ask to be closed has its callbacks rejected and none left to resolve.
GotCloseOk(n) ==
    LET ch == slot[n]
        f  == Head(toClient[n])
    IN  /\ Read(n) /\ ch # None
        /\ f.method = "CloseOk"
        /\ slot' = [slot EXCEPT ![n] = None]
        /\ \/ ~closed[ch] /\ SetClosed({ch}) /\ UNCHANGED answer
           \/ closed[ch] /\ ResolveRPC(ch, f) /\ UNCHANGED closed
        /\ UNCHANGED <<toServer, crossed>>

\* close: setClosed(err), delete from the table, answer with close-ok.  If the
\* channel's own close is on the wire, its answer will find another object.
ServerClosedChannel(n) ==
    LET ch == slot[n]
    IN  /\ Read(n) /\ ch # None
        /\ Head(toClient[n]).method = "Close"
        /\ SetClosed({ch})
        /\ slot' = [slot EXCEPT ![n] = None]
        /\ toServer' = [toServer EXCEPT ![n] = Append(@, CloseOk(None))]
        /\ crossed' = IF \E c \in Elems(rpcCallbacks[ch]) : kind[c] = "close"
                      THEN crossed \cup {n} ELSE crossed
        /\ UNCHANGED answer

\* Every object in the table is closed and the table is reset.
DropChannels ==
    /\ SetClosed({slot[n] : n \in Number} \ {None})
    /\ slot' = [n \in Number |-> None]

WireDown ==
    /\ toServer' = [n \in Number |-> <<>>]
    /\ toClient' = [n \in Number |-> <<>>]

\* Connection.Close from the server: close-ok is sent, rejectConnect destroys
\* the socket.
ServerClosedConnection ==
    /\ bye = "Close" /\ sock = "up" /\ (parsing \/ Drained)
    /\ DropChannels
    /\ WireDown
    /\ connClosed' = TRUE /\ sock' = "gone" /\ bye' = "none" /\ parsing' = FALSE
    /\ UNCHANGED <<number, rpcQueue, sending, owner, kind, answer, server, crossed>>

\* Connection.CloseOk, the answer to AMQPBaseClient.close
ConnectionCloseOk ==
    /\ bye = "CloseOk" /\ sock = "up" /\ (parsing \/ Drained)
    /\ DropChannels
    /\ WireDown
    /\ sock' = "gone" /\ bye' = "none" /\ parsing' = FALSE
    /\ UNCHANGED <<connClosed, number, rpcQueue, sending, owner, kind, answer, server, crossed>>

\* AMQPBaseClient.close: nothing but the flag changes until the answer.
CloseConnection ==
    /\ ~connClosed /\ sock = "up"
    /\ connClosed' = TRUE
    /\ bye' = IF bye = "none" THEN "asked" ELSE bye
    /\ UNCHANGED <<sock, parsing, chanVars, rpcVars, callVars, wireVars, crossed>>

\* The socket's 'close' event; a connection closed by the client is left alone.
SocketClosed ==
    /\ NextEvent /\ sock = "broken" /\ sock' = "gone"
    /\ connClosed' = TRUE
    /\ \/ ~connClosed /\ DropChannels
       \/ connClosed /\ UNCHANGED <<slot, closed, rpcCallbacks, promise>>
    /\ UNCHANGED <<bye, parsing, number, rpcQueue, sending, owner, kind, answer, wireVars, crossed>>

----------------------------------------------------------------------------
(* The environment: the broker and the network *)

\* The broker takes the next frame of a channel.
Take(n, method) ==
    /\ sock = "up" /\ bye \in {"none", "asked"}
    /\ toServer[n] # <<>> /\ Head(toServer[n]).method = method
    /\ toServer' = [toServer EXCEPT ![n] = Tail(@)]
    /\ UNCHANGED <<connClosed, sock, parsing, chanVars, rpcVars, callVars, crossed>>

Reply(n, f) == toClient' = [toClient EXCEPT ![n] = Append(@, f)]

\* open on a closed channel, any method but open on an open one
Serve(n) ==
    LET c == Head(toServer[n]).call
    IN  /\ Take(n, "Request")
        /\ \/ /\ kind[c] = "open" /\ server[n] = "closed"
              /\ server' = [server EXCEPT ![n] = "open"]
              /\ Reply(n, Ok(c))
           \/ /\ kind[c] = "rpc" /\ server[n] = "open"
              /\ Reply(n, Ok(c)) /\ UNCHANGED server
           \/ /\ kind[c] = "close" /\ server[n] = "open"
              /\ server' = [server EXCEPT ![n] = "closed"]
              /\ Reply(n, CloseOk(c))
        /\ UNCHANGED bye

\* Having sent close, the broker discards everything but close-ok and close; it
\* answers close with close-ok.
ServeClosing(n) ==
    LET c == Head(toServer[n]).call
    IN  /\ server[n] = "closing"
        /\ \/ /\ Take(n, "CloseOk")
              /\ server' = [server EXCEPT ![n] = "closed"]
              /\ UNCHANGED toClient
           \/ /\ Take(n, "Request") /\ kind[c] = "close"
              /\ Reply(n, CloseOk(c)) /\ UNCHANGED server
           \/ /\ Take(n, "Request") /\ kind[c] # "close"
              /\ UNCHANGED <<toClient, server>>
        /\ UNCHANGED bye

\* A method on a channel that is not open is a connection error, so is a second open.
ServeError(n) ==
    LET c == Head(toServer[n]).call
    IN  /\ Take(n, "Request")
        /\ \/ kind[c] # "open" /\ server[n] = "closed"
           \/ kind[c] = "open" /\ server[n] = "open"
        /\ bye' = "Close"
        /\ UNCHANGED <<toClient, server>>

\* A channel exception (404, 406, ...), in answer to a request or out of the blue
ServerCloses(n) ==
    /\ sock = "up" /\ bye \in {"none", "asked"} /\ server[n] = "open"
    /\ server' = [server EXCEPT ![n] = "closing"]
    /\ toClient' = [toClient EXCEPT ![n] = Append(@, CloseMethod)]
    /\ UNCHANGED <<connVars, chanVars, rpcVars, callVars, toServer, crossed>>

\* The broker answers Connection.Close, or closes the connection itself.
ServerSaysBye ==
    /\ sock = "up"
    /\ \/ bye = "asked" /\ bye' = "CloseOk"
       \/ bye = "none" /\ bye' = "Close"
    /\ UNCHANGED <<connClosed, sock, parsing, chanVars, rpcVars, callVars, wireVars, crossed>>

SocketBreaks ==
    /\ ~parsing /\ sock = "up" /\ sock' = "broken"
    /\ WireDown
    /\ UNCHANGED <<connClosed, bye, parsing, chanVars, rpcVars, callVars, server, crossed>>

----------------------------------------------------------------------------
Client ==
    \/ \E ch \in Chan : Step(ch) \/ StepRejected(ch) \/ Written(ch) \/ WriteFailed(ch)
    \/ \E n \in Number : \/ SkipFrame(n) \/ GotAnswer(n)
                         \/ GotCloseOk(n) \/ ServerClosedChannel(n)
    \/ ServerClosedConnection \/ ConnectionCloseOk \/ SocketClosed

Application ==
    \/ \E c \in Call, ch \in Chan :
          \/ \E n \in Number : OpenChannel(c, ch, n)
          \/ Rpc(c, ch)
          \/ Close(c, ch)
    \/ CloseConnection

Environment ==
    \/ \E n \in Number : Serve(n) \/ ServeClosing(n) \/ ServeError(n) \/ ServerCloses(n)
    \/ ServerSaysBye
    \/ SocketBreaks

Next == Client \/ Application \/ Environment

\* The event loop runs every ready callback, the network delivers and the broker
\* answers while the connection lives.  Nobody has to make a call, and nothing has
\* to fail.
Fairness ==
    /\ \A ch \in Chan : /\ WF_vars(Step(ch)) /\ WF_vars(StepRejected(ch))
                        /\ WF_vars(Written(ch)) /\ WF_vars(WriteFailed(ch))
    /\ \A n \in Number : /\ WF_vars(SkipFrame(n)) /\ WF_vars(GotAnswer(n))
                         /\ WF_vars(GotCloseOk(n)) /\ WF_vars(ServerClosedChannel(n))
                         /\ WF_vars(Serve(n) \/ ServeClosing(n) \/ ServeError(n))
    /\ WF_vars(ServerClosedConnection) /\ WF_vars(ConnectionCloseOk) /\ WF_vars(SocketClosed)
    /\ WF_vars(bye = "asked" /\ ServerSaysBye)

Spec == Init /\ [][Next]_vars /\ Fairness

----------------------------------------------------------------------------
(* What a caller may rely on *)

Distinct(s) == \A i, j \in DOMAIN s : s[i] = s[j] => i = j
Outstanding(ch) == {c \in Call : promise[c] = "pending" /\ owner[c] = ch}

\* No promise is forgotten: a call is unsettled exactly as long as the chain or
\* the callback list of its channel holds it, whatever answers, closes and failed
\* writes shift, pop or clear in between (sendRpc, resolveRPC, setClosed).
PendingIsHeld ==
    \A ch \in Chan : Outstanding(ch) = Elems(rpcQueue[ch]) \cup Elems(rpcCallbacks[ch])

\* Each call is held in one place, once.
HeldOnce ==
    \A ch \in Chan : /\ Distinct(rpcQueue[ch]) /\ Distinct(rpcCallbacks[ch])
                     /\ Elems(rpcQueue[ch]) \cap Elems(rpcCallbacks[ch]) = {}

\* The callbacks a failed write of sendRpc pops are its own: while a write is under
\* way nothing is pushed behind them, though answers may have taken them already.
WritingIsLast ==
    \A ch \in Chan : sending[ch] # None =>
        /\ owner[sending[ch]] = ch /\ promise[sending[ch]] # "none"
        /\ sending[ch] \notin Elems(rpcQueue[ch])
        /\ rpcCallbacks[ch] # <<>> => rpcCallbacks[ch][Len(rpcCallbacks[ch])] = sending[ch]

\* resolveRPC matches by position, and the position is right: a fulfilled call got
\* the answer to its own request.  Not so on a number where a request or a close-ok
\* of a channel object that lost the number is still under way (crossed): that
\* answer goes to the object now using the number.
AnswerIsOwn ==
    \A c \in Call : promise[c] = "resolved" /\ number[owner[c]] \notin crossed => answer[c] = c

\* A call is rejected because its own write failed, because there is no socket or
\* because its channel is being closed, never on account of another call's failure.
RejectedForCause ==
    [][\A c \in Call : promise[c] = "pending" /\ promise'[c] = "rejected" =>
            \/ sending[owner[c]] = c
            \/ sock = "gone"
            \/ ~closed[owner[c]] /\ closed'[owner[c]]]_vars

\* An object that is not in the table under its number is closed: no handle of the
\* application can send on a number that the table may give to another object.
TableIsLive ==
    \A ch \in Chan : number[ch] # None /\ slot[number[ch]] # ch => closed[ch]

\* The detailed channel implements RpcOrder: outstanding calls are those with
\* callbacks, then those waiting in the chain.
outstanding == [ch \in Chan |-> rpcCallbacks[ch] \o rpcQueue[ch]]
Order == INSTANCE RpcOrder WITH
    Call <- Call, Chan <- Chan, outstanding <- outstanding, promise <- promise
OrderSpec == Order!Spec

\* What comes without anybody making a call and without a failure: the guards of the
\* client's actions and of the broker's answers.
ChainIsDue == ~parsing /\ ~Drained
FrameIsDue ==
    /\ sock = "up" /\ (parsing \/ Drained)
    /\ \/ bye \in {"Close", "CloseOk"}
       \/ \E n \in Number : toClient[n] # <<>> /\ Head(toClient[n]).method # "Request"
EventIsDue == NextEvent /\ (sock = "broken" \/ \E ch \in Chan : sending[ch] # None)
AnswerIsDue ==
    /\ sock = "up"
    /\ \/ bye = "asked"
       \/ /\ bye = "none"
          /\ \E n \in Number :
                /\ toServer[n] # <<>>
                /\ \/ server[n] = "closing"
                   \/ /\ Head(toServer[n]).method = "Request"
                      /\ kind[Head(toServer[n]).call] # "none"
SomethingIsDue == ChainIsDue \/ FrameIsDue \/ EventIsDue \/ AnswerIsDue

\* The broker waits for a close-ok that is not on the way, nor is the Close it would
\* answer: parseFrames skipped that, having no object for the number.
CloseForgotten(n) ==
    /\ server[n] = "closing"
    /\ \A i \in DOMAIN toClient[n] : toClient[n][i].method # "Close"
    /\ \A i \in DOMAIN toServer[n] : toServer[n][i].method # "CloseOk"

\* A call is settled if its channel and its connection stay: none is left waiting, with
\* nothing more to come, behind a slow write, a failed one or a closed channel.  There is
\* one exception, a number that a frame of a replaced object crossed and that the broker
\* keeps closing.
NeverStuck ==
    \A c \in Call :
        LET n == number[owner[c]] IN
        promise[c] = "pending" /\ slot[n] = owner[c] /\ ~connClosed
            => SomethingIsDue \/ (n \in crossed /\ CloseForgotten(n))
=============================================================================
