-------------------------------- MODULE Streams --------------------------------
(***************************************************************************)
(* The async iterator of a subscription: AMQPGeneratorSubscription, which  *)
(* reads the stream of one AMQPGeneratorConsumer after the other, and      *)
(* acknowledges each message when the application asks for the next.       *)
(*                                                                         *)
(* Consumers are numbered: recovery gives the subscription the next one.   *)
(* A delivery is a consumer and its delivery tag there.  There is one      *)
(* reader; `at` is where it is, in the application's loop, in the          *)
(* iterator's, or in the generator of the consumer `from`.                 *)
(***************************************************************************)
EXTENDS Naturals, Sequences

CONSTANTS
    MaxConsumer,  \* bound: consumers of the subscription, one per connection
    MaxTag,       \* bound: deliveries to a consumer
    None

ASSUME StreamsAssumption ==
    MaxConsumer \in Nat \ {0} /\ MaxTag \in Nat /\ None \notin 1 .. MaxTag

VARIABLES
    link,          \* the socket: "up", "broken" (no 'close' event yet) or "down" (undefined)
    silent,        \* the connection has ended, and setClosed of its channels was not called
    reopening,     \* recover awaits openConsumer
    current,       \* AMQPSubscription.consumer
    channelOpen,   \* the channels of the consumers
    closed,        \* AMQPConsumer.closed and closedError: "no", "quietly", "error"
    cancelPromise, \* "none", "asked" or "settled"
    messageQueue,  \* AMQPGeneratorConsumer.messageQueue
    stopped,       \* AMQPGeneratorSubscription.stopped
    cancelling,    \* the consumer whose end AMQPSubscription.cancel awaits
    at, from,      \* the reader, and the consumer it has in hand
    prev, msg,     \* the iterator's prev; the message the generator has yielded
    exit,          \* what follows the generator's finally block
    acked,         \* the deliveries whose AMQPMessage.acked is set
    autoAck,       \* the subscription acknowledges: neither noAck nor manualAck
    delivered,     \* the broker: how many messages were delivered to each consumer
    yielded,       \* history: what the application was given
    settlements,   \* history: how often each delivery was acked or nacked on the wire
    nacked         \* history: the deliveries that were nacked

brokerVars == <<link, silent, reopening, delivered>>
consumerVars == <<channelOpen, closed, cancelPromise>>
subVars == <<current, stopped, cancelling>>
readerVars == <<at, from, prev, msg, exit>>
ackVars == <<acked, settlements, nacked>>
vars == <<brokerVars, consumerVars, subVars, readerVars, ackVars, messageQueue, autoAck, yielded>>

Consumer == 1 .. MaxConsumer
Tag == 1 .. MaxTag

\* begin     the iterator is about to take the subscription's consumer
\* pulling   the generator awaits a message: messageResolver is set
\* woken     messageResolver was called, the generator's continuation is due
\* acking, decoding, nacking   the iterator's awaits
\* leaving   the generator's finally block awaits cancel()
\* waiting   the iterator awaits consumerReady
\* idle      the application has a message, and has not asked for the next
Place == {"new", "begin", "pulling", "woken", "acking", "decoding", "nacking", "leaving",
          "waiting", "idle", "done"}

TypeOK ==
    /\ link \in {"up", "broken", "down"} /\ silent \in BOOLEAN /\ reopening \in BOOLEAN
    /\ delivered \in [Consumer -> 0 .. MaxTag]
    /\ channelOpen \in [Consumer -> BOOLEAN]
    /\ closed \in [Consumer -> {"no", "quietly", "error"}]
    /\ cancelPromise \in [Consumer -> {"none", "asked", "settled"}]
    /\ messageQueue \in [Consumer -> Seq(Tag)]
    /\ current \in Consumer /\ stopped \in BOOLEAN /\ cancelling \in Consumer \cup {None}
    /\ at \in Place /\ from \in Consumer
    /\ prev \in Tag \cup {None} /\ msg \in Tag \cup {None}
    /\ exit \in {"again", "return"} /\ autoAck \in BOOLEAN
    /\ acked \in [Consumer -> SUBSET Tag] /\ nacked \in [Consumer -> SUBSET Tag]
    /\ settlements \in [Consumer -> [Tag -> Nat]]
    /\ yielded \in [Consumer -> Seq(Tag)]

Init ==
    /\ link = "up" /\ silent = FALSE /\ reopening = FALSE
    /\ delivered = [c \in Consumer |-> 0]
    /\ current = 1 /\ channelOpen = [c \in Consumer |-> c = 1]
    /\ closed = [c \in Consumer |-> "no"] /\ cancelPromise = [c \in Consumer |-> "none"]
    /\ messageQueue = [c \in Consumer |-> <<>>]
    /\ stopped = FALSE /\ cancelling = None
    /\ at = "new" /\ from = 1 /\ prev = None /\ msg = None /\ exit = "again"
    /\ acked = [c \in Consumer |-> {}] /\ nacked = [c \in Consumer |-> {}]
    /\ settlements = [c \in Consumer |-> [t \in Tag |-> 0]]
    /\ autoAck \in BOOLEAN /\ yielded = [c \in Consumer |-> <<>>]

----------------------------------------------------------------------------
(* The generator of a consumer *)

\* AMQPConsumer.cancel: on a closed channel there is nothing to do, and a second call
\* shares the promise of the first, which is rejected at once without a socket.
Ask(c) ==
    cancelPromise' = [cancelPromise EXCEPT ![c] =
                        IF ~channelOpen[c] \/ @ # "none" THEN @
                        ELSE IF link = "down" THEN "settled" ELSE "asked"]

\* The generator of c ends, and its finally block cancels the consumer.
Leave(c, way) ==
    /\ at' = "leaving" /\ exit' = way
    /\ Ask(c)
    /\ UNCHANGED <<prev, msg, channelOpen, closed>>

\* Mutant: AMQPMessage.acked is not looked at.
Unsettled_Always(c, t) == TRUE
\* AMQPMessage.ack and nack do nothing the second time
Unsettled(c, t) == t \notin acked[c]

\* The flag is set before basicAck looks at the channel.
Settle(c, t) ==
    /\ acked' = [acked EXCEPT ![c] = @ \cup {t}]
    /\ settlements' = IF channelOpen[c] THEN [settlements EXCEPT ![c][t] = @ + 1] ELSE settlements

\* The iterator has got the message t: it acknowledges the one before, then decodes t.
GotMessage(c, t) ==
    LET due == autoAck /\ prev # None /\ Unsettled(c, prev)
    IN  \/ stopped /\ Leave(c, "return") /\ UNCHANGED ackVars
        \/ /\ ~stopped /\ due
           /\ Settle(c, prev) /\ UNCHANGED nacked
           /\ \/ ~channelOpen[c] /\ Leave(c, "again")
              \/ /\ channelOpen[c]
                 /\ at' = "acking" /\ msg' = t /\ UNCHANGED <<prev, exit, consumerVars>>
        \/ /\ ~stopped /\ ~due
           /\ at' = "decoding" /\ msg' = t /\ UNCHANGED <<prev, exit, consumerVars, ackVars>>

\* Mutant: the newest message is taken first.
TakeLast(q) == [first |-> q[Len(q)], rest |-> SubSeq(q, 1, Len(q) - 1)]
\* messageQueue.shift()
Take(q) == [first |-> Head(q), rest |-> Tail(q)]

\* next() of the generator of c: it ends, yields or waits.
Pull(c) ==
    \/ closed[c] # "no" /\ Leave(c, "again") /\ UNCHANGED <<messageQueue, ackVars>>
    \/ /\ closed[c] = "no" /\ messageQueue[c] # <<>>
       /\ messageQueue' = [messageQueue EXCEPT ![c] = Take(@).rest]
       /\ GotMessage(c, Take(messageQueue[c]).first)
    \/ /\ closed[c] = "no" /\ messageQueue[c] = <<>>
       /\ at' = "pulling"
       /\ UNCHANGED <<prev, msg, exit, consumerVars, messageQueue, ackVars>>

\* messageResolver's promise is fulfilled, with a message or by setClosed.
Woken ==
    /\ at = "woken"
    /\ \/ closed[from] # "no" /\ Leave(from, "again") /\ UNCHANGED ackVars
       \/ closed[from] = "no" /\ GotMessage(from, msg)
    /\ UNCHANGED <<brokerVars, subVars, from, messageQueue, autoAck, yielded>>

\* The finally block is done: cancel() is settled, or the channel is closed.
Left ==
    /\ at = "leaving" /\ (~channelOpen[from] \/ cancelPromise[from] = "settled")
    /\ prev' = None
    /\ at' = IF exit = "return" \/ stopped THEN "done" ELSE "waiting"
    /\ UNCHANGED <<brokerVars, consumerVars, subVars, from, msg, exit, ackVars, messageQueue,
                   autoAck, yielded>>

----------------------------------------------------------------------------
(* The iterator *)

\* The head of `while (!this.stopped)`: the generator of the current consumer is started.
Begin ==
    /\ at = "begin"
    /\ \/ /\ stopped /\ at' = "done"
          /\ UNCHANGED <<from, prev, msg, exit, consumerVars, ackVars, messageQueue>>
       \/ ~stopped /\ from' = current /\ Pull(current)
    /\ UNCHANGED <<brokerVars, subVars, autoAck, yielded>>

\* `await prev?.ack()` is fulfilled, or the write fails.
AckWritten ==
    /\ at = "acking"
    /\ \/ at' = "decoding" /\ UNCHANGED <<prev, msg, exit, consumerVars>>
       \/ Leave(from, "again")
    /\ UNCHANGED <<brokerVars, subVars, from, ackVars, messageQueue, autoAck, yielded>>

\* The message is decoded and yielded.
Decoded ==
    /\ at = "decoding"
    /\ at' = "idle" /\ prev' = msg
    /\ yielded' = [yielded EXCEPT ![from] = Append(@, msg)]
    /\ UNCHANGED <<brokerVars, consumerVars, subVars, from, msg, exit, ackVars, messageQueue, autoAck>>

\* decodeMessage throws: the message is nacked and the next one pulled, or, if the
\* subscription does not acknowledge, the error goes to the application.
DecodeFails ==
    /\ at = "decoding"
    /\ \/ ~autoAck /\ Leave(from, "return") /\ UNCHANGED ackVars
       \/ /\ autoAck /\ Settle(from, msg)
          /\ nacked' = [nacked EXCEPT ![from] = @ \cup {msg}]
          /\ \/ ~channelOpen[from] /\ Leave(from, "again")
             \/ channelOpen[from] /\ at' = "nacking" /\ UNCHANGED <<prev, msg, exit, consumerVars>>
    /\ UNCHANGED <<brokerVars, subVars, from, messageQueue, autoAck, yielded>>

\* `await msg.nack(...)` is fulfilled and the loop continues, or the write fails.
NackWritten ==
    /\ at = "nacking"
    /\ \/ Pull(from)
       \/ Leave(from, "again") /\ UNCHANGED <<ackVars, messageQueue>>
    /\ UNCHANGED <<brokerVars, subVars, from, autoAck, yielded>>

----------------------------------------------------------------------------
(* The application *)

\* The first next()
Iterate ==
    /\ at = "new" /\ at' = "begin"
    /\ UNCHANGED <<brokerVars, consumerVars, subVars, from, prev, msg, exit, ackVars,
                   messageQueue, autoAck, yielded>>

\* next(), the application is done with the message it has
NextCalled ==
    /\ at = "idle" /\ Pull(from)
    /\ UNCHANGED <<brokerVars, subVars, from, autoAck, yielded>>

\* The application leaves its loop: return() of the iterator.
Break ==
    /\ at = "idle" /\ Leave(from, "return")
    /\ UNCHANGED <<brokerVars, subVars, from, ackVars, messageQueue, autoAck, yielded>>

\* msg.ack() by the application, of the message it has
UserAcks ==
    /\ at = "idle" /\ Unsettled(from, prev)
    /\ Settle(from, prev)
    /\ UNCHANGED <<brokerVars, consumerVars, subVars, readerVars, nacked, messageQueue, autoAck, yielded>>

\* Mutant: the reader is not woken.
LeaveAsleep(place) == place
\* consumerReady?.()
ConsumerReady(place) == IF place = "waiting" THEN "begin" ELSE place

\* AMQPGeneratorSubscription.cancel, up to its await
CancelCalled ==
    /\ ~stopped /\ stopped' = TRUE
    /\ at' = ConsumerReady(at)
    /\ Ask(current)
    /\ cancelling' = IF channelOpen[current] THEN current ELSE None
    /\ UNCHANGED <<brokerVars, channelOpen, closed, current, from, prev, msg, exit, ackVars,
                   messageQueue, autoAck, yielded>>

\* The consumer is cancelled: cancel closes the channel, if it is not closed.
CancelReturned ==
    /\ cancelling # None
    /\ cancelPromise[cancelling] = "settled" \/ ~channelOpen[cancelling]
    /\ channelOpen' = [channelOpen EXCEPT ![cancelling] = FALSE]
    /\ cancelling' = None
    /\ UNCHANGED <<brokerVars, closed, cancelPromise, current, stopped, readerVars, ackVars,
                   messageQueue, autoAck, yielded>>

----------------------------------------------------------------------------
(* The broker, the connection and recovery *)

\* Mutant: the message is queued although the generator waits.
Queued(c, t) ==
    /\ messageQueue' = [messageQueue EXCEPT ![c] = Append(@, t)]
    /\ UNCHANGED <<at, msg>>
\* AMQPGeneratorConsumer.onMessage
OnMessage(c, t) ==
    \/ /\ at = "pulling" /\ from = c
       /\ at' = "woken" /\ msg' = t /\ UNCHANGED messageQueue
    \/ /\ ~(at = "pulling" /\ from = c)
       /\ messageQueue' = [messageQueue EXCEPT ![c] = Append(@, t)]
       /\ UNCHANGED <<at, msg>>

Deliver(c) ==
    /\ link = "up" /\ channelOpen[c] /\ closed[c] = "no" /\ delivered[c] < MaxTag
    /\ delivered' = [delivered EXCEPT ![c] = @ + 1]
    /\ OnMessage(c, delivered[c] + 1)
    /\ UNCHANGED <<link, silent, reopening, consumerVars, subVars, from, prev, exit, ackVars,
                   autoAck, yielded>>

\* AMQPGeneratorConsumer.setClosed of a consumer in the channel's map
SetClosed(c, how) ==
    /\ closed' = [closed EXCEPT ![c] = IF @ = "no" THEN how ELSE @]
    /\ at' = IF at = "pulling" /\ from = c /\ closed[c] = "no" THEN "woken" ELSE at

\* Basic.CancelOk
CancelOk(c) ==
    /\ link = "up" /\ channelOpen[c] /\ cancelPromise[c] = "asked"
    /\ cancelPromise' = [cancelPromise EXCEPT ![c] = "settled"]
    /\ SetClosed(c, "quietly")
    /\ UNCHANGED <<brokerVars, channelOpen, subVars, from, prev, msg, exit, ackVars,
                   messageQueue, autoAck, yielded>>

\* The write of Basic.Cancel fails: the promise is rejected, and setClosed is not called.
CancelFails(c) ==
    /\ link = "broken" /\ channelOpen[c] /\ cancelPromise[c] = "asked"
    /\ cancelPromise' = [cancelPromise EXCEPT ![c] = "settled"]
    /\ UNCHANGED <<brokerVars, channelOpen, closed, subVars, readerVars, ackVars,
                   messageQueue, autoAck, yielded>>

\* Basic.Cancel of the broker: the channel stays open.
ServerCancels(c) ==
    /\ link = "up" /\ channelOpen[c] /\ closed[c] = "no"
    /\ SetClosed(c, "error")
    /\ UNCHANGED <<brokerVars, channelOpen, cancelPromise, subVars, from, prev, msg, exit,
                   ackVars, messageQueue, autoAck, yielded>>

\* The channel of c is closed by the broker, or with the connection.
ChannelGone(c) ==
    /\ channelOpen[c]
    /\ channelOpen' = [channelOpen EXCEPT ![c] = FALSE]
    /\ cancelPromise' = [cancelPromise EXCEPT ![c] = IF @ = "asked" THEN "settled" ELSE @]
    /\ SetClosed(c, "error")

ServerClosesChannel(c) ==
    /\ link = "up" /\ ChannelGone(c)
    /\ UNCHANGED <<brokerVars, subVars, from, prev, msg, exit, ackVars, messageQueue, autoAck, yielded>>

SocketBreaks ==
    /\ link = "up" /\ link' = "broken"
    /\ UNCHANGED <<silent, reopening, delivered, consumerVars, subVars, readerVars, ackVars,
                   messageQueue, autoAck, yielded>>

\* The close event, or Connection.CloseOk, of a connection that tells its channels.  Only
\* the current consumer can have an open one.
ConnectionLost ==
    /\ link # "down" /\ link' = "down" /\ reopening' = FALSE
    /\ \/ ChannelGone(current)
       \/ ~channelOpen[current] /\ UNCHANGED <<consumerVars, at>>
    /\ UNCHANGED <<silent, delivered, subVars, from, prev, msg, exit, ackVars, messageQueue,
                   autoAck, yielded>>

\* A heartbeat timeout, or the close event of a client that had set `closed` before: no
\* channel is told, and ondisconnect is not called.
LostSilently ==
    /\ link # "down" /\ link' = "down" /\ silent' = TRUE /\ reopening' = FALSE
    /\ UNCHANGED <<delivered, consumerVars, subVars, readerVars, ackVars, messageQueue,
                   autoAck, yielded>>

\* The session has connected again and recovers what it tracks.
Reconnected ==
    /\ link = "down" /\ ~silent /\ current < MaxConsumer
    /\ link' = "up" /\ reopening' = ~stopped
    /\ UNCHANGED <<silent, delivered, consumerVars, subVars, readerVars, ackVars, messageQueue,
                   autoAck, yielded>>

\* AMQPGeneratorSubscription.setConsumer
SetConsumer ==
    /\ current' = current + 1
    /\ at' = ConsumerReady(at)

\* recover gets its consumer, also if the subscription was cancelled in the meantime.
Recovered ==
    /\ link = "up" /\ reopening /\ reopening' = FALSE
    /\ SetConsumer
    /\ channelOpen' = [channelOpen EXCEPT ![current + 1] = TRUE]
    /\ UNCHANGED <<link, silent, delivered, closed, cancelPromise, stopped, cancelling, from, prev, msg,
                   exit, ackVars, messageQueue, autoAck, yielded>>

\* Basic.ConsumeOk and the end of the connection are in one read: the consumer is made
\* when its channel is closed, and nobody will tell it.
RecoveredTooLate ==
    /\ link = "up" /\ reopening /\ reopening' = FALSE /\ link' = "down"
    /\ SetConsumer
    /\ UNCHANGED <<silent, delivered, consumerVars, stopped, cancelling, from, prev, msg, exit,
                   ackVars, messageQueue, autoAck, yielded>>

RecoveryFails ==
    /\ reopening /\ reopening' = FALSE
    /\ UNCHANGED <<link, silent, delivered, consumerVars, subVars, readerVars, ackVars,
                   messageQueue, autoAck, yielded>>

----------------------------------------------------------------------------
Reader == Begin \/ Woken \/ Left \/ AckWritten \/ Decoded \/ DecodeFails \/ NackWritten
Application == Iterate \/ NextCalled \/ Break \/ UserAcks \/ CancelCalled
Answers == \E c \in Consumer : CancelOk(c)
Broker == \E c \in Consumer : Deliver(c) \/ ServerCancels(c) \/ ServerClosesChannel(c)
WriteFails == \E c \in Consumer : CancelFails(c)
Connection == SocketBreaks \/ ConnectionLost \/ LostSilently
Recovery == Reconnected \/ Recovered \/ RecoveredTooLate \/ RecoveryFails

Next ==
    \/ Reader \/ Application \/ CancelReturned
    \/ Answers \/ Broker \/ WriteFails \/ Connection \/ Recovery

\* A broken socket's close event comes, or the heartbeat times out before.
BrokenEnds == link = "broken" /\ (ConnectionLost \/ LostSilently)

\* Promise jobs run, writes end, the broker answers, broken sockets close.
Spec ==
    /\ Init /\ [][Next]_vars
    /\ WF_vars(Reader) /\ WF_vars(CancelReturned) /\ WF_vars(Answers) /\ WF_vars(BrokenEnds)

----------------------------------------------------------------------------
(* What the application may rely on *)

\* Who waits has nothing to get: a generator that awaits a message has none queued and
\* was not closed, and no iterator awaits a consumer once the subscription is cancelled.
ReaderIsServed ==
    /\ at = "pulling" => messageQueue[from] = <<>> /\ closed[from] = "no"
    /\ at = "waiting" => ~stopped

Elements(s) == {s[i] : i \in DOMAIN s}

\* The messages of a consumer are yielded in the order of their delivery, each once, and
\* none is left out but for the ones that were nacked.
YieldedInOrder ==
    \A c \in Consumer :
        /\ \A i, j \in DOMAIN yielded[c] : i < j => yielded[c][i] < yielded[c][j]
        /\ \A i \in DOMAIN yielded[c] :
               1 .. yielded[c][i] \subseteq Elements(yielded[c]) \cup nacked[c]

\* A message is acknowledged after the application was given it, nacked if it was not,
\* and never settled twice, which would close the channel.
SettledOnce ==
    \A c \in Consumer :
        /\ acked[c] \ nacked[c] \subseteq Elements(yielded[c])
        /\ nacked[c] \cap Elements(yielded[c]) = {}
        /\ \A t \in Tag : settlements[c][t] <= 1

\* The reader awaits a consumer that nobody can close any more: its channel was closed when
\* it was made, or cancel() has closed the channel after its Basic.Cancel was not written.
OnDeadConsumer == at = "pulling" /\ ~channelOpen[from]

\* A Basic.Cancel is under way of a connection that has ended without telling its channels:
\* neither cancel() nor the generator's finally block hears of it.
NeverAnswered == at \in {"pulling", "leaving"} /\ silent /\ cancelPromise[from] = "asked"

\* cancel ends the iterator, wherever it is, unless the application has the next move: over
\* Basic.Cancel answered, refused or not written, and channels and connections that end in
\* the meantime.  The code leaves out the two cases above.
CancelEnds == stopped ~> at \in {"new", "idle", "done"} \/ OnDeadConsumer \/ NeverAnswered

\* What the documentation says: the iterator "continues yielding after each reconnect".
\* If the subscription has a live consumer again, the iterator does not go on waiting.
Live(c) == link = "up" /\ channelOpen[c] /\ closed[c] = "no"
ContinuesYielding == at = "waiting" /\ Live(current) ~> at # "waiting" \/ ~Live(current)
=============================================================================
