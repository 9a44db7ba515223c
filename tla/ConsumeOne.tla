------------------------------ MODULE ConsumeOne ------------------------------
(***************************************************************************)
(* AMQPQueue.consumeOne: one call, which opens a channel, consumes with    *)
(* prefetch 1, and settles with the first of a message, its time limit and *)
(* the end of the consumer, after having cancelled the consumer and closed *)
(* the channel.                                                            *)
(*                                                                         *)
(* What the client sends is under way in toServer; what the broker sends   *)
(* is received as it is sent, so that the two cross in toServer.  The      *)
(* connection may end with its channels told, or silently: the code leaves *)
(* them open if `closed` was set before the socket's close event.          *)
(***************************************************************************)
EXTENDS OneMessage

VARIABLES
    timed,     \* the call has a time limit
    consume,   \* the promise of basicConsume
    ended,     \* AMQPConsumer.closed
    settled, verdict, \* consumeOne's flag, and what finish will do
    timer,     \* the timer runs
    cleaning,  \* the cleanup of finish, and the one of a consumer that came too late
    cancel, close, \* the promises of consumer.cancel and ch.close
    closed,    \* AMQPChannel.closed
    callback,  \* where the callback is with each message
    toServer,  \* frames under way
    serving,   \* the broker: the channel is open
    ready,     \* the broker: the queue
    connClosed, \* session.closed
    silent,    \* the connection has ended, and the channel was not told
    stranded,  \* history: an answer awaited by the cleanup will not come
    unheard    \* history: the consumer had ended when it was registered

callVars == <<call, settled, verdict, timer, cleaning, given>>
chanVars == <<consume, ended, cancel, close, closed>>
connVars == <<link, connClosed, silent>>
brokerVars == <<serving, consuming, unacked, ready, consumed>>
history == <<overtaken, stranded, unheard>>
vars == <<callVars, timed, chanVars, connVars, callback, toServer, brokerVars, history>>

\* arrived: the microtask of deliver is due
Place == {"none", "arrived", "decoding", "acking", "nacking", "over"}
Reply == {"none", "asked", "answered", "rejected"}

TypeOK ==
    /\ call \in {"opening", "qos", "pending", "resolved", "rejected"} /\ timed \in BOOLEAN
    /\ consume \in {"none", "asked", "answered", "registered", "known", "rejected", "over"}
    /\ ended \in BOOLEAN /\ settled \in BOOLEAN /\ timer \in BOOLEAN
    /\ verdict \in {"none", "timeout", "ended", "failed"} \cup Message
    /\ cleaning \in [{"own", "late"} -> {"none", "cancelling", "closing", "done"}]
    /\ cancel \in Reply /\ close \in Reply /\ closed \in BOOLEAN /\ link \in BOOLEAN
    /\ connClosed \in BOOLEAN /\ silent \in BOOLEAN
    /\ callback \in [Message -> Place] /\ given \in Message \cup {NoMessage}
    /\ toServer \in Seq({"qos", "cancel", "close", "ack", "nack"} \X (Message \cup {NoMessage}))
    /\ serving \in BOOLEAN /\ consuming \in BOOLEAN /\ unacked \in Message \cup {NoMessage}
    /\ ready \in SUBSET Message /\ consumed \in SUBSET Message
    /\ overtaken \in SUBSET Message /\ stranded \in BOOLEAN /\ unheard \in BOOLEAN

Init ==
    /\ call = "opening" /\ timed \in BOOLEAN /\ consume = "none" /\ ended = FALSE
    /\ settled = FALSE /\ verdict = "none" /\ timer = FALSE /\ given = NoMessage
    /\ cleaning = [k \in {"own", "late"} |-> "none"]
    /\ cancel = "none" /\ close = "none" /\ closed = FALSE
    /\ link = TRUE /\ connClosed = FALSE /\ silent = FALSE
    /\ callback = [m \in Message |-> "none"] /\ toServer = <<>>
    /\ serving = TRUE /\ consuming = FALSE /\ unacked = NoMessage
    /\ ready = Message /\ consumed = {} /\ overtaken = {} /\ stranded = FALSE /\ unheard = FALSE

----------------------------------------------------------------------------
(* finish and cleanup *)

\* The broker reads nothing behind Connection.Close.
Write(frame) == toServer' = IF connClosed THEN toServer ELSE Append(toServer, frame)

\* The last step of cleanup: ch.close(), unless the channel is closed.
Leave(k) ==
    IF closed
    THEN /\ cleaning' = [cleaning EXCEPT ![k] = "done"]
         /\ UNCHANGED <<closed, close, toServer>>
    ELSE /\ cleaning' = [cleaning EXCEPT ![k] = "closing"]
         /\ closed' = TRUE /\ close' = IF link THEN "asked" ELSE "rejected"
         /\ Write(<<"close", NoMessage>>)

\* cleanup, up to its first await; `known` says that the consumer is assigned
CleanUp(k, known) ==
    /\ timer' = FALSE
    /\ IF known /\ ~closed /\ ~connClosed
       THEN /\ cleaning' = [cleaning EXCEPT ![k] = "cancelling"]
            /\ cancel' = IF cancel = "none" THEN "asked" ELSE cancel
            /\ toServer' = IF cancel = "none" THEN Append(toServer, <<"cancel", NoMessage>>) ELSE toServer
            /\ UNCHANGED <<closed, close>>
       ELSE Leave(k) /\ UNCHANGED cancel

Finish(v) ==
    IF settled
    THEN UNCHANGED <<settled, verdict, timer, cleaning, cancel, close, closed, toServer, overtaken>>
    ELSE /\ settled' = TRUE /\ verdict' = v
         /\ overtaken' = overtaken \cup {m \in Message : callback[m] \in {"decoding", "acking"} /\ m # v}
         /\ CleanUp("own", consume = "known")

\* `await consumer.cancel()` is over, either way.
CancelSettled(k) ==
    /\ cleaning[k] = "cancelling" /\ cancel \in {"answered", "rejected"}
    /\ Leave(k)
    /\ UNCHANGED <<call, settled, verdict, timer, given, timed, consume, ended, cancel, connVars,
                   callback, brokerVars, history>>

CloseSettled(k) ==
    /\ cleaning[k] = "closing" /\ close \in {"answered", "rejected"}
    /\ cleaning' = [cleaning EXCEPT ![k] = "done"]
    /\ UNCHANGED <<call, settled, verdict, timer, given, timed, chanVars, connVars, callback,
                   toServer, brokerVars, history>>

\* Mutant: finish does not await cleanup.
CleanedUp_AtOnce == settled
CleanedUp == cleaning["own"] = "done"

\* settle(), at the end of finish
Settle ==
    /\ call = "pending" /\ settled /\ CleanedUp
    /\ IF verdict \in Message THEN call' = "resolved" /\ given' = verdict
                              ELSE call' = "rejected" /\ UNCHANGED given
    /\ UNCHANGED <<settled, verdict, timer, cleaning, timed, chanVars, connVars, callback, toServer,
                   brokerVars, history>>

----------------------------------------------------------------------------
(* The call *)

\* `await this.session.openChannel()` and `await ch.basicQos(1)`: the call is rejected if
\* the channel is closed meanwhile (ChannelEnds).
Opened ==
    /\ call = "opening" /\ link /\ call' = "qos"
    /\ Write(<<"qos", NoMessage>>)
    /\ UNCHANGED <<settled, verdict, timer, cleaning, given, timed, chanVars, connVars, callback,
                   brokerVars, history>>

\* The consumer is in the channel's map.
Register ==
    /\ consume = "answered" /\ consume' = "registered"
    /\ unheard' = (closed \/ (~consuming /\ ~silent))
    /\ UNCHANGED <<callVars, timed, ended, cancel, close, closed, connVars, callback, toServer,
                   brokerVars, overtaken, stranded>>

\* The then() of basicConsume
Then ==
    /\ consume = "registered" /\ consume' = "known"
    /\ \/ settled /\ CleanUp("late", TRUE)
       \/ /\ ~settled /\ timer' = timed
          /\ UNCHANGED <<cleaning, cancel, close, closed, toServer>>
    /\ UNCHANGED <<call, settled, verdict, given, timed, ended, connVars, callback, brokerVars, history>>

\* basicConsume is rejected.
ConsumeFails ==
    /\ consume = "rejected" /\ consume' = "over"
    /\ Finish("failed")
    /\ UNCHANGED <<call, given, timed, ended, connVars, callback, brokerVars, stranded, unheard>>

\* c.wait() is over: the consumer was cancelled, or its channel closed.
WaitEnds ==
    /\ consume = "known" /\ ended /\ ~settled
    /\ Finish("ended")
    /\ UNCHANGED <<call, given, timed, consume, ended, connVars, callback, brokerVars, stranded, unheard>>

TimerFires ==
    /\ timer /\ Finish("timeout")
    /\ UNCHANGED <<call, given, timed, consume, ended, connVars, callback, brokerVars, stranded, unheard>>

----------------------------------------------------------------------------
(* The callback *)

\* Mutant: the callback does not look at settled.
TooLate_Never == FALSE
TooLate == settled

\* deliver calls the consumer's callback, unless the consumer is gone from the map; a
\* message that comes too late is nacked, which a closed channel refuses.
Deliver(m) ==
    /\ callback[m] = "arrived" /\ consume # "answered"
    /\ callback' = [callback EXCEPT ![m] =
           IF ended \/ (TooLate /\ closed) THEN "over" ELSE IF TooLate THEN "nacking" ELSE "decoding"]
    /\ IF ~ended /\ TooLate /\ ~closed THEN Write(<<"nack", m>>) ELSE UNCHANGED toServer
    /\ UNCHANGED <<callVars, timed, chanVars, connVars, brokerVars, history>>

\* The message is decoded: `await msg.ack()`, refused by a closed channel or for want of a
\* socket
Decoded(m) ==
    /\ callback[m] = "decoding"
    /\ \/ /\ ~closed /\ link
          /\ callback' = [callback EXCEPT ![m] = "acking"]
          /\ Write(<<"ack", m>>)
          /\ UNCHANGED <<settled, verdict, timer, cleaning, cancel, close, closed, overtaken>>
       \/ /\ closed \/ ~link
          /\ callback' = [callback EXCEPT ![m] = "over"] /\ Finish("failed")
    /\ UNCHANGED <<call, given, timed, consume, ended, connVars, brokerVars, stranded, unheard>>

DecodeFails(m) ==
    /\ callback[m] = "decoding" /\ callback' = [callback EXCEPT ![m] = "over"]
    /\ Finish("failed")
    /\ UNCHANGED <<call, given, timed, consume, ended, connVars, brokerVars, stranded, unheard>>

\* The ack is written, or the socket was lost before.
Acked(m) ==
    /\ callback[m] = "acking" /\ callback' = [callback EXCEPT ![m] = "over"]
    /\ Finish(m) \/ (~link /\ Finish("failed"))
    /\ UNCHANGED <<call, given, timed, consume, ended, connVars, brokerVars, stranded, unheard>>

Nacked(m) ==
    /\ callback[m] = "nacking" /\ callback' = [callback EXCEPT ![m] = "over"]
    /\ UNCHANGED <<callVars, timed, chanVars, connVars, toServer, brokerVars, history>>

----------------------------------------------------------------------------
(* The broker *)

Sends(kind, m) ==
    serving /\ toServer # <<>> /\ Head(toServer) = <<kind, m>> /\ toServer' = Tail(toServer)

QosOk ==
    /\ link /\ call = "qos" /\ Sends("qos", NoMessage)
    /\ call' = "pending" /\ consume' = "asked"
    /\ UNCHANGED <<settled, verdict, timer, cleaning, given, timed, ended, cancel, close, closed,
                   connVars, callback, brokerVars, history>>

\* Basic.Consume is written in the same turn that qos is answered.  It is not in toServer: the
\* broker may also answer it behind Connection.Close, which adds behaviours and hides none.
ConsumeOk ==
    /\ link /\ consume = "asked" /\ serving
    /\ consume' = "answered" /\ consuming' = TRUE
    /\ UNCHANGED <<callVars, timed, ended, cancel, close, closed, connVars, callback, toServer,
                   serving, unacked, ready, consumed, history>>

\* Prefetch 1: nothing is sent while a message is unacknowledged.  A message that was
\* nacked is not dispatched again (bound).
Dispatch(m) ==
    /\ link /\ serving /\ consuming /\ unacked = NoMessage /\ m \in ready
    /\ callback[m] = "none"
    /\ unacked' = m /\ ready' = ready \ {m}
    /\ callback' = [callback EXCEPT ![m] = "arrived"]
    /\ UNCHANGED <<callVars, timed, chanVars, connVars, toServer, serving, consuming, consumed, history>>

\* The write of a frame has ended before the broker has the frame.
TakeAck(m) ==
    /\ link /\ callback[m] # "acking"
    /\ Sends("ack", m) /\ unacked' = NoMessage /\ consumed' = consumed \cup {m}
    /\ UNCHANGED <<callVars, timed, chanVars, connVars, callback, serving, consuming, ready, history>>
TakeNack(m) ==
    /\ link /\ callback[m] # "nacking"
    /\ Sends("nack", m) /\ unacked' = NoMessage /\ ready' = ready \cup {m}
    /\ UNCHANGED <<callVars, timed, chanVars, connVars, callback, serving, consuming, consumed, history>>

\* Cancel-Ok, and the then() of basicCancel
CancelOk ==
    /\ link /\ Sends("cancel", NoMessage)
    /\ consuming' = FALSE /\ cancel' = "answered" /\ ended' = TRUE
    /\ UNCHANGED <<callVars, timed, consume, close, closed, connVars, callback, serving, unacked,
                   ready, consumed, history>>

\* The end of the channel at the broker: what is not acknowledged is requeued.
Requeue ==
    /\ serving' = FALSE /\ consuming' = FALSE /\ unacked' = NoMessage
    /\ ready' = IF unacked = NoMessage THEN ready ELSE ready \cup {unacked}
    /\ UNCHANGED consumed

CloseOk ==
    /\ link /\ Sends("close", NoMessage) /\ Requeue
    /\ close' = "answered"
    /\ UNCHANGED <<callVars, timed, consume, ended, cancel, closed, connVars, callback, history>>

\* Basic.Cancel of the broker
ServerCancels ==
    /\ link /\ serving /\ consuming /\ consuming' = FALSE
    /\ ended' = (ended \/ consume # "answered")
    /\ UNCHANGED <<callVars, timed, consume, cancel, close, closed, connVars, callback, toServer,
                   serving, unacked, ready, consumed, history>>

\* Mutant: consumers are not told.
Told_None == FALSE
\* the consumer is in the map, and is told
Told == consume \in {"registered", "known"}

\* setClosed: nothing happens on a channel that close() has marked, so its promise stays.
SetClosed ==
    /\ closed' = TRUE
    /\ \/ closed /\ UNCHANGED <<consume, ended, cancel>>
       \/ /\ ~closed
          /\ consume' = IF consume = "asked" THEN "rejected" ELSE consume
          /\ ended' = (ended \/ Told)
          /\ cancel' = IF cancel = "asked" THEN "rejected" ELSE cancel
    /\ stranded' = (stranded \/ close = "asked")

ChannelEnds ==
    /\ SetClosed /\ Requeue /\ toServer' = <<>>
    /\ call' = IF call \in {"opening", "qos"} THEN "rejected" ELSE call
    /\ UNCHANGED <<settled, verdict, timer, cleaning, given, timed, close, callback, overtaken, unheard>>

ServerCloses == link /\ serving /\ ChannelEnds /\ UNCHANGED connVars

----------------------------------------------------------------------------
(* The end of the connection *)

\* AMQPBaseClient.close, called by session.stop
ClientCloses ==
    /\ link /\ ~connClosed /\ connClosed' = TRUE
    /\ UNCHANGED <<callVars, timed, chanVars, link, silent, callback, toServer, brokerVars, history>>

\* The channels are told, by the socket's close event or Connection.CloseOk.
ConnectionLost == link /\ link' = FALSE /\ connClosed' = TRUE /\ ChannelEnds /\ UNCHANGED silent
ConnectionCloseOk == connClosed /\ toServer = <<>> /\ ConnectionLost

\* A heartbeat timeout, or the close event after the client's own close: setClosed is not called.
LostSilently ==
    /\ link /\ link' = FALSE /\ connClosed' = TRUE /\ silent' = TRUE
    /\ Requeue /\ toServer' = <<>>
    /\ stranded' = (stranded \/ close = "asked" \/ cancel = "asked")
    /\ UNCHANGED <<callVars, timed, chanVars, callback, overtaken, unheard>>

\* An RPC's write was under way when the socket went, and fails.
WriteFails ==
    /\ ~link
    /\ call' = IF call \in {"opening", "qos"} THEN "rejected" ELSE call
    /\ consume' = IF consume = "asked" THEN "rejected" ELSE consume
    /\ cancel' = IF cancel = "asked" THEN "rejected" ELSE cancel
    /\ close' = IF close = "asked" THEN "rejected" ELSE close
    /\ UNCHANGED <<settled, verdict, timer, cleaning, given, timed, ended, closed, connVars,
                   callback, toServer, brokerVars, history>>

----------------------------------------------------------------------------
Jobs ==
    \/ Settle \/ Opened \/ Register \/ Then \/ ConsumeFails \/ WaitEnds
    \/ \E k \in {"own", "late"} : CancelSettled(k) \/ CloseSettled(k)
    \/ \E m \in Message : Deliver(m) \/ Decoded(m) \/ DecodeFails(m) \/ Acked(m) \/ Nacked(m)
Answers ==
    \/ QosOk \/ ConsumeOk \/ CancelOk \/ CloseOk \/ ConnectionCloseOk
    \/ \E m \in Message : TakeAck(m) \/ TakeNack(m)
Faults == ServerCancels \/ ServerCloses \/ ClientCloses \/ ConnectionLost \/ LostSilently \/ WriteFails

Next == Jobs \/ Answers \/ TimerFires \/ Faults \/ \E m \in Message : Dispatch(m)

\* Promise jobs run, timers fire, and the broker answers what it is asked.
Spec == Init /\ [][Next]_vars /\ WF_vars(Jobs) /\ WF_vars(Answers) /\ WF_vars(TimerFires)

----------------------------------------------------------------------------
(* What the caller may rely on, besides what OneMessage says *)

\* The call has a reason to end: finish was called, its time limit runs, or its channel, its
\* connection or its consumer has ended, the last also by the broker's Basic.Cancel.
Due ==
    \/ settled \/ timer \/ ~serving \/ connClosed
    \/ consume \in {"answered", "registered", "known"} /\ ~consuming

\* Nobody tells the call: it has no time limit and no message in hand, and its connection
\* ended silently, or its consumer ended before it was registered.
NeverTold ==
    /\ ~settled /\ ~timer /\ ~ended
    /\ \A m \in Message : callback[m] \notin {"arrived", "decoding", "acking"}
    /\ \/ silent /\ consume \in {"none", "asked", "known"}
       \/ unheard /\ consume = "known"

\* The call ends once it has a reason to, through every order of the callback, the timer, the
\* consumer's end and the cleanup.  The code leaves out two cases: the answer to its
\* Basic.Cancel or Channel.Close is lost with the channel or the connection, and NeverTold.
EndsWhenDue == Due ~> Done \/ stranded \/ NeverTold
=============================================================================
