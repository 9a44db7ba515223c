------------------------------ MODULE RpcClient ------------------------------
(***************************************************************************)
(* AMQPRPCClient: calls over direct reply-to, their time limits, close, and *)
(* recover by the session's reconnectLoop.                                 *)
(*                                                                         *)
(* Each channel that start opens has a number; it is open until the        *)
(* connection is lost, the broker closes it or close does.  Replies carry  *)
(* the correlationId of their request and arrive on the channel it was     *)
(* sent on.  The connection and the loop are reduced to what recover and   *)
(* the calls see of them; Session has the rest.                            *)
(***************************************************************************)
EXTENDS Naturals, FiniteSets

CONSTANTS
    Call,       \* calls of AMQPRPCClient.call
    MaxChannel  \* bound: how many channels start opens

ASSUME RpcClientAssumption == MaxChannel \in Nat

VARIABLES
    conn,      \* the session: connected, reconnecting, or ended (it gave up or was stopped)
    due,       \* reconnectLoop has connected and not come to rpc.recover yet
    tracked,   \* AMQPSession.rpcClients has this client
    starting,  \* start awaits openChannel or basicConsume
    closed,    \* AMQPRPCClient.closed
    ch,        \* AMQPRPCClient.ch, 0 for null
    channels,  \* how many channels were opened
    open,      \* those that are open
    correlationId,
    pending,   \* AMQPRPCClient.pending: the calls that have an entry
    timers,    \* the entries with a timer
    encoding,  \* calls at serializeAndEncode
    decoding,  \* calls whose reply is being decoded
    publishing,\* calls whose basicPublish is under way
    refused,   \* and will reject
    id, sentOn, timed, \* of each call: its correlationId, channel, whether it has a timeout
    result,    \* of each call
    asked,     \* the requests the broker has
    replies,   \* replies on the way: the call that is answered
    answer,    \* history: whose reply a call got
    raced,     \* history: close came while start was under way
    lone       \* history: the channels the broker closed, the connection going on

sessionVars == <<conn, due>>
startVars == <<tracked, starting, closed, ch, channels, open, raced, lone>>
callVars == <<correlationId, id, sentOn, timed>>
waitVars == <<pending, timers, encoding, decoding, result, answer>>
wireVars == <<publishing, refused, asked, replies>>
vars == <<sessionVars, startVars, callVars, waitVars, wireVars>>

Channel == 1 .. MaxChannel

TypeOK ==
    /\ conn \in {"up", "down", "ended"} /\ due \in BOOLEAN
    /\ tracked \in BOOLEAN /\ starting \in BOOLEAN /\ closed \in BOOLEAN /\ raced \in BOOLEAN
    /\ ch \in 0 .. channels /\ channels \in 0 .. MaxChannel
    /\ open \subseteq 1 .. channels /\ lone \subseteq 1 .. channels
    /\ correlationId \in Nat /\ id \in [Call -> Nat] /\ sentOn \in [Call -> 0 .. channels]
    /\ timed \subseteq Call
    /\ result \in [Call -> {"none", "pending", "resolved", "rejected"}]
    /\ answer \in [Call -> SUBSET Call]
    /\ pending \subseteq Call /\ timers \subseteq Call
    /\ encoding \subseteq Call /\ decoding \subseteq Call
    /\ publishing \subseteq Call /\ refused \subseteq publishing
    /\ asked \subseteq Call /\ replies \subseteq asked

Init ==
    /\ conn = "up" /\ due = FALSE
    /\ tracked = FALSE /\ starting = TRUE /\ closed = FALSE /\ raced = FALSE
    /\ ch = 0 /\ channels = 0 /\ open = {} /\ lone = {}
    /\ correlationId = 0 /\ id = [c \in Call |-> 0] /\ sentOn = [c \in Call |-> 0]
    /\ timed = {} /\ result = [c \in Call |-> "none"] /\ answer = [c \in Call |-> {}]
    /\ pending = {} /\ timers = {} /\ encoding = {} /\ decoding = {}
    /\ publishing = {} /\ refused = {} /\ asked = {} /\ replies = {}

----------------------------------------------------------------------------
(* call *)

\* Mutant: a number that is free again.
FreeId == Cardinality(pending) + 1
NextId == correlationId + 1

\* Without an open channel call throws.
CallMade(c) ==
    /\ result[c] = "none" /\ ~closed /\ ch \in open
    /\ correlationId' = NextId
    /\ id' = [id EXCEPT ![c] = NextId]
    /\ sentOn' = [sentOn EXCEPT ![c] = ch]
    /\ timed' \in {timed, timed \cup {c}}
    /\ result' = [result EXCEPT ![c] = "pending"]
    /\ encoding' = encoding \cup {c}
    /\ UNCHANGED <<sessionVars, startVars, pending, timers, decoding, answer, wireVars>>

Reject(S) == result' = [c \in Call |-> IF c \in S THEN "rejected" ELSE result[c]]

EncodeFails(c) ==
    /\ c \in encoding /\ encoding' = encoding \ {c} /\ Reject({c})
    /\ UNCHANGED <<sessionVars, startVars, callVars, pending, timers, decoding, answer, wireVars>>

\* The entry is made, whatever has become of the client meanwhile, and the request
\* published on the channel that call found; or refused, the channel being closed, or the
\* connection blocked.
Encoded(c) ==
    /\ c \in encoding /\ encoding' = encoding \ {c}
    /\ pending' = {e \in pending : id[e] # id[c]} \cup {c}
    /\ timers' = timers \cup ({c} \cap timed)
    /\ publishing' = publishing \cup {c}
    /\ \/ refused' = refused \cup {c} /\ UNCHANGED asked
       \/ sentOn[c] \in open /\ asked' = asked \cup {c} /\ UNCHANGED refused
    /\ UNCHANGED <<sessionVars, startVars, callVars, decoding, result, answer, replies>>

Published(c) ==
    /\ c \in publishing \ refused /\ publishing' = publishing \ {c}
    /\ UNCHANGED <<sessionVars, startVars, callVars, waitVars, refused, asked, replies>>

\* Mutant: the failure is not handed to the caller.
ForgetEntry(c) == pending' = pending \ {c} /\ timers' = timers \ {c} /\ UNCHANGED result
RejectEntry(c) ==
    /\ pending' = pending \ {c} /\ timers' = timers \ {c}
    /\ Reject({c} \cap pending)

\* basicPublish rejects: refused, or the write failed with the connection.
PublishFailed(c) ==
    /\ c \in publishing /\ (c \in refused \/ sentOn[c] \notin open)
    /\ publishing' = publishing \ {c} /\ refused' = refused \ {c}
    /\ RejectEntry(c)
    /\ UNCHANGED <<sessionVars, startVars, callVars, encoding, decoding, answer, asked, replies>>

TimerFires(c) ==
    /\ c \in timers
    /\ RejectEntry(c)
    /\ UNCHANGED <<sessionVars, startVars, callVars, encoding, decoding, answer, wireVars>>

\* A reply whose correlationId has no entry any more is dropped.
GotReply(c) ==
    LET entry == {e \in pending : id[e] = id[c]}
    IN  /\ c \in replies /\ sentOn[c] \in open
        /\ replies' = replies \ {c}
        /\ pending' = pending \ entry /\ timers' = timers \ entry
        /\ decoding' = decoding \cup entry
        /\ answer' = [e \in Call |-> IF e \in entry THEN {c} ELSE answer[e]]
        /\ UNCHANGED <<sessionVars, startVars, callVars, encoding, result, publishing, refused, asked>>

Decoded(c) ==
    /\ c \in decoding /\ decoding' = decoding \ {c}
    /\ \E r \in {"resolved", "rejected"} : result' = [result EXCEPT ![c] = r]
    /\ UNCHANGED <<sessionVars, startVars, callVars, pending, timers, encoding, answer, wireVars>>

----------------------------------------------------------------------------
(* start, recover, close *)

\* Mutant: the entries stay.
KeepPending == UNCHANGED <<pending, timers, result>>
RejectAllPending == pending' = {} /\ timers' = {} /\ Reject(pending)

\* reconnectLoop's turn of this client
Recover ==
    /\ conn = "up" /\ due /\ due' = FALSE
    /\ \/ ~tracked /\ UNCHANGED <<starting, ch, pending, timers, result>>
       \/ /\ tracked
          /\ RejectAllPending /\ ch' = 0
          /\ starting' = TRUE
    /\ UNCHANGED <<conn, tracked, closed, channels, open, raced, lone, callVars, encoding,
                   decoding, answer, wireVars>>

\* start is done, and session.rpcClient tracks the client: closed or not, it keeps the
\* channel, which may be closed as well by now.
Started ==
    /\ starting /\ starting' = FALSE /\ conn = "up" /\ channels < MaxChannel
    /\ channels' = channels + 1 /\ ch' = channels'
    /\ \/ open' = open \cup {ch'} /\ UNCHANGED lone
       \/ lone' = lone \cup {ch'} /\ UNCHANGED open
    /\ tracked' = ~closed
    /\ UNCHANGED <<sessionVars, closed, raced, callVars, waitVars, wireVars>>

\* The broker refuses the channel or the consumer, or the connection is lost.
StartFails ==
    /\ starting /\ starting' = FALSE
    /\ UNCHANGED <<sessionVars, tracked, closed, ch, channels, open, raced, lone, callVars,
                   waitVars, wireVars>>

CloseChannel == open' = open \ {ch}

\* close, by the application or by stop; a client that never started is out of reach
Close ==
    /\ tracked /\ ~closed
    /\ closed' = TRUE /\ tracked' = FALSE
    /\ RejectAllPending
    /\ CloseChannel /\ ch' = 0
    /\ raced' = starting
    /\ UNCHANGED <<sessionVars, starting, channels, lone, callVars, encoding, decoding, answer,
                   wireVars>>

----------------------------------------------------------------------------
(* The session, the broker and the RPC server *)

ConnectionLost ==
    /\ conn = "up" /\ conn' = "down" /\ due' = FALSE
    /\ open' = {} /\ starting' = FALSE
    /\ asked' = {} /\ replies' = {}
    /\ UNCHANGED <<tracked, closed, ch, channels, raced, lone, callVars, waitVars, publishing,
                   refused>>

Reconnected ==
    /\ conn = "down" /\ conn' = "up" /\ due' = TRUE
    /\ UNCHANGED <<startVars, callVars, waitVars, wireVars>>

GivesUp ==
    /\ conn = "down" /\ conn' = "ended"
    /\ UNCHANGED <<due, startVars, callVars, waitVars, wireVars>>

\* The broker closes the channel: nothing tells the client.
ChannelClosed(n) ==
    /\ n \in open /\ open' = open \ {n} /\ lone' = lone \cup {n}
    /\ UNCHANGED <<sessionVars, tracked, starting, closed, ch, channels, raced, callVars,
                   waitVars, wireVars>>

\* The RPC server answers, more than once if the request is redelivered to it.
Reply(c) ==
    /\ c \in asked \ replies /\ sentOn[c] \in open
    /\ replies' = replies \cup {c}
    /\ UNCHANGED <<sessionVars, startVars, callVars, waitVars, publishing, refused, asked>>

----------------------------------------------------------------------------
Answering(c) ==
    \/ EncodeFails(c) \/ Encoded(c) \/ Published(c) \/ PublishFailed(c)
    \/ TimerFires(c) \/ GotReply(c) \/ Decoded(c)
Environment ==
    \/ ConnectionLost \/ Reconnected \/ GivesUp
    \/ \E n \in Channel : ChannelClosed(n)
    \/ \E c \in Call : Reply(c)

Next ==
    \/ \E c \in Call : CallMade(c) \/ Answering(c)
    \/ Recover \/ Started \/ StartFails \/ Close
    \/ Environment

Spec == Init /\ [][Next]_vars

----------------------------------------------------------------------------
(* What a caller may rely on *)

\* No call is forgotten, whatever race of replies, time limits, failed writes, recover and
\* close its entry goes through: it is unsettled exactly as long as it is being encoded or
\* decoded, or has an entry; and the entry has its timer.
PendingIsHeld ==
    /\ \A c \in Call : result[c] = "pending" <=> c \in encoding \cup pending \cup decoding
    /\ timers = pending \cap timed

\* A call is fulfilled with the reply to its own request: never with the late reply to
\* one that timed out or was rejected by recover.
ReplyIsOwn == \A c \in Call : answer[c] \subseteq {c}

\* A call that waits on a channel that is gone will be rejected, by its timer, its failed
\* write or the recovery, unless the broker has closed the channel or the session gave up.
StrandedForCause ==
    \A c \in pending :
        sentOn[c] \notin open /\ c \notin timers \cup publishing =>
            due \/ conn \in {"down", "ended"} \/ ch \in lone

\* The client never holds more than one channel, recovered or not, and none once it is
\* closed, unless it was closed while start was under way.
LeaksWhenRaced == open \subseteq {ch} /\ (closed /\ open # {} => raced)
=============================================================================
