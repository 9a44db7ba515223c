------------------------------- MODULE Session -------------------------------
(***************************************************************************)
(* AMQPSession: reconnectLoop, the recovery of subscriptions, and stop, on *)
(* the connection of an AMQPClient.                                        *)
(*                                                                         *)
(* The connection starts established.  A consumer of an earlier connection *)
(* is dead; of the current one, the client knows one consumer of a         *)
(* subscription (own), and may have forgotten others (orphans).  The        *)
(* subscriptions are those of one queue handle: of several, a loop above   *)
(* this one takes them in turn.                                            *)
(***************************************************************************)
EXTENDS Naturals

CONSTANTS
    Subscription,  \* calls of AMQPQueue.subscribe
    MaxRetries,    \* options.maxRetries, 0 for no limit
    None

ASSUME SessionAssumption ==
    MaxRetries \in Nat /\ None \notin Subscription

VARIABLES
    closed,    \* AMQPBaseClient.closed
    link,      \* the socket: none, being connected, or with an open AMQP connection
    loop,      \* where reconnectLoop is; reconnecting unless "idle"
    attempts,  \* reconnectAttempts
    stopped,
    failed,    \* onfailed was called
    stopping,  \* the promise of stop
    tracked,   \* AMQPQueue.subscriptions
    opening,   \* openConsumer, called by subscribe
    own,       \* AMQPSubscription.consumer
    visited,   \* the subscriptions recover has reached
    reopening, \* openConsumer, called by recover: for which subscription
    orphans,   \* the broker: how many consumers of the connection the client has forgotten
    tries,     \* history: attempts to connect since the last one that succeeded
    silent,    \* history: the connection was lost to a heartbeat timeout
    stoppedAt, \* history: where the loop was when stop was called
    reported,  \* history: recoverFailed was called for these in the last recovery
    dropped,   \* history: the broker closed the channel of these, or cancelled the consumer
    raced      \* history: these were added or cancelled while recover was at them

connVars == <<closed, link, silent>>
loopVars == <<loop, attempts, stopped, failed, tries>>
stopVars == <<stopping, stoppedAt>>
subVars  == <<tracked, own, orphans, dropped, raced>>
vars == <<connVars, loopVars, stopVars, subVars, opening, visited, reopening, reported>>

\* An openConsumer: asked of the broker; answered, and its consumer alive or, the
\* connection having been closed since, dead; or rejected.
Answered == {"live", "dead", "rejected"}
Stage == {"none", "asked"} \cup Answered
\* recover is not at any subscription.
Idle == [of |-> None, stage |-> "none"]

Loop == {"idle", "waiting", "before", "connecting", "connected", "recovering"}

TypeOK ==
    /\ closed \in BOOLEAN /\ silent \in BOOLEAN /\ link \in {"none", "connecting", "open"}
    /\ loop \in Loop /\ attempts \in Nat /\ tries \in Nat
    /\ stopped \in BOOLEAN /\ failed \in BOOLEAN
    /\ stopping \in {"no", "closing", "done"} /\ stoppedAt \in Loop \cup {None}
    /\ tracked \in SUBSET Subscription
    /\ opening \in [Subscription -> Stage]
    /\ own \in [Subscription -> {"none", "live", "dead"}]
    /\ visited \in SUBSET Subscription
    /\ reopening \in [of : Subscription, stage : Stage \ {"none"}] \cup {Idle}
    /\ orphans \in [Subscription -> Nat]
    /\ reported \in SUBSET Subscription /\ dropped \in SUBSET Subscription
    /\ raced \in SUBSET Subscription

Init ==
    /\ closed = FALSE /\ link = "open" /\ silent = FALSE
    /\ loop = "idle" /\ attempts = 0 /\ tries = 0
    /\ stopped = FALSE /\ failed = FALSE /\ stopping = "no" /\ stoppedAt = None
    /\ tracked = {} /\ own = [s \in Subscription |-> "none"]
    /\ opening = [s \in Subscription |-> "none"]
    /\ visited = {} /\ reopening = Idle
    /\ orphans = [s \in Subscription |-> 0]
    /\ reported = {} /\ dropped = {} /\ raced = {}

\* No promise job is due: the next timer, socket event or read may come.
Quiet ==
    /\ loop # "connected"
    /\ reopening.stage \notin Answered
    /\ \A s \in Subscription : opening[s] \notin Answered

----------------------------------------------------------------------------
(* reconnectLoop *)

Exhausted(n) == MaxRetries > 0 /\ n > MaxRetries

\* The head of the loop, after n attempts: leave it, give up or wait.
Iterate(n) ==
    \/ /\ stopped
       /\ loop' = "idle" /\ attempts' = n /\ UNCHANGED <<stopped, failed>>
    \/ /\ ~stopped /\ Exhausted(n + 1)
       /\ loop' = "idle" /\ attempts' = n + 1 /\ stopped' = TRUE /\ failed' = TRUE
    \/ /\ ~stopped /\ ~Exhausted(n + 1)
       /\ loop' = "waiting" /\ attempts' = n + 1 /\ UNCHANGED <<stopped, failed>>

\* Mutant: the loop is not started.
IgnoreDisconnect == UNCHANGED loopVars
\* The session's ondisconnect; stop removes it.
OnDisconnect ==
    \/ ~stopped /\ loop = "idle" /\ Iterate(attempts) /\ UNCHANGED tries
    \/ (stopped \/ loop # "idle") /\ UNCHANGED loopVars

\* Mutant: `if (this.stopped) continue` after the wait is missing.
ConnectAnyway ==
    /\ loop' = "before" /\ tries' = tries + 1 /\ UNCHANGED <<attempts, stopped, failed>>
AfterWait ==
    \/ stopped /\ Iterate(attempts) /\ UNCHANGED tries
    \/ ~stopped /\ loop' = "before" /\ tries' = tries + 1 /\ UNCHANGED <<attempts, stopped, failed>>

\* The timer of waitBeforeRetry fires, or stop has cancelled the wait.
WaitEnds ==
    /\ loop = "waiting" /\ Quiet
    /\ AfterWait
    /\ UNCHANGED <<connVars, stopVars, subVars, opening, visited, reopening, reported>>

\* beforeConnect returns and connect is called, whatever stop has done in the meantime;
\* or it throws.
BeforeConnect ==
    /\ loop = "before" /\ Quiet /\ UNCHANGED tries
    /\ \/ loop' = "connecting" /\ link' = "connecting" /\ UNCHANGED <<attempts, stopped, failed>>
       \/ Iterate(attempts) /\ UNCHANGED link
    /\ UNCHANGED <<closed, silent, stopVars, subVars, opening, visited, reopening, reported>>

\* The connection is refused, ends, or is closed by the broker, before OpenOk.
ConnectFails ==
    /\ loop = "connecting" /\ Quiet
    /\ link' = "none" /\ Iterate(attempts) /\ UNCHANGED tries
    /\ UNCHANGED <<closed, silent, stopVars, subVars, opening, visited, reopening, reported>>

OpenOk ==
    /\ loop = "connecting" /\ Quiet
    /\ closed' = FALSE /\ link' = "open" /\ silent' = FALSE /\ loop' = "connected"
    /\ UNCHANGED <<attempts, stopped, failed, tries, stopVars, subVars, opening, visited,
                   reopening, reported>>

\* connect is fulfilled.  OpenOk and Connection.Close can have been in one read.
Connected ==
    /\ loop = "connected" /\ tries' = 0
    /\ \/ /\ closed /\ Iterate(0) /\ UNCHANGED <<visited, reported>>
       \/ /\ ~closed
          /\ loop' = "recovering" /\ attempts' = 0 /\ UNCHANGED <<stopped, failed>>
          /\ visited' = {} /\ reported' = {}
    /\ UNCHANGED <<connVars, stopVars, subVars, opening, reopening>>

\* AMQPQueue.recover: `for (const sub of this.subscriptions)` sees what is added and
\* removed while it awaits openConsumer.
RecoverNext(s) ==
    /\ loop = "recovering" /\ reopening = Idle /\ s \in tracked \ visited
    /\ visited' = visited \cup {s}
    /\ reopening' = [of |-> s, stage |-> IF closed THEN "rejected" ELSE "asked"]
    /\ UNCHANGED <<connVars, loopVars, stopVars, subVars, opening, reported>>

Refused(stage) == stage = "rejected"

Count(b) == IF b THEN 1 ELSE 0

\* Mutant: the new consumer is not kept.
KeepConsumer(s, stage) ==
    /\ UNCHANGED own
    /\ orphans' = [orphans EXCEPT ![s] = @ + Count(stage = "live")]
\* setConsumer; the consumer it replaces is not cancelled.
SetConsumer(s, stage) ==
    /\ own' = [own EXCEPT ![s] = stage]
    /\ orphans' = [orphans EXCEPT ![s] = @ + Count(own[s] = "live")]

Recovered ==
    LET s == reopening.of
    IN  /\ loop = "recovering" /\ reopening.stage \in Answered
        /\ reopening' = Idle
        /\ \/ /\ Refused(reopening.stage)
              /\ reported' = reported \cup {s} /\ UNCHANGED <<own, orphans>>
           \/ /\ ~Refused(reopening.stage)
              /\ SetConsumer(s, reopening.stage) /\ UNCHANGED reported
        /\ UNCHANGED <<connVars, loopVars, stopVars, tracked, dropped, raced, opening, visited>>

\* Mutant: `|| this.client.closed` is missing.
InterruptedByStop == stopped
Interrupted == stopped \/ closed

RecoverDone ==
    /\ loop = "recovering" /\ reopening = Idle /\ tracked \subseteq visited
    /\ \/ Interrupted /\ Iterate(attempts)
       \/ ~Interrupted /\ loop' = "idle" /\ UNCHANGED <<attempts, stopped, failed>>
    /\ UNCHANGED <<connVars, tries, stopVars, subVars, opening, visited, reopening, reported>>

----------------------------------------------------------------------------
(* The application *)

\* AMQPQueue.subscribe; a call on a closed connection is refused.
Subscribe(s) ==
    /\ opening[s] = "none" /\ own[s] = "none" /\ ~closed
    /\ opening' = [opening EXCEPT ![s] = "asked"]
    /\ UNCHANGED <<connVars, loopVars, stopVars, subVars, visited, reopening, reported>>

\* openConsumer returns to subscribe
Subscribed(s) ==
    /\ opening[s] \in Answered
    /\ opening' = [opening EXCEPT ![s] = "none"]
    /\ \/ Refused(opening[s]) /\ UNCHANGED <<own, tracked, raced>>
       \/ /\ ~Refused(opening[s])
          /\ own' = [own EXCEPT ![s] = opening[s]]
          /\ tracked' = tracked \cup {s}
          /\ raced' = IF loop = "recovering" THEN raced \cup {s} ELSE raced
    /\ UNCHANGED <<connVars, loopVars, stopVars, orphans, dropped, visited, reopening, reported>>

\* Mutant: the channel is left open.
LeaveConsumers(S) == own
\* AMQPSubscription.cancel: the consumer is cancelled and its channel closed.
EndConsumers(S) == [s \in Subscription |-> IF s \in S THEN "dead" ELSE own[s]]

CancelAll(S) ==
    /\ tracked' = tracked \ S
    /\ own' = EndConsumers(S)
    /\ raced' = raced \cup (S \cap {reopening.of})
    /\ UNCHANGED <<orphans, dropped>>

Cancel(s) ==
    /\ s \in tracked /\ CancelAll({s})
    /\ UNCHANGED <<connVars, loopVars, stopVars, opening, visited, reopening, reported>>

\* stop closes the connection only if there is one at this moment.
Stop ==
    /\ stopping = "no"
    /\ stopped' = TRUE /\ stoppedAt' = loop
    /\ CancelAll(tracked)
    /\ closed' = TRUE /\ stopping' = IF closed THEN "done" ELSE "closing"
    /\ UNCHANGED <<link, silent, loop, attempts, failed, tries, opening, visited, reopening, reported>>

----------------------------------------------------------------------------
(* The connection *)

\* What the end of a connection does to a call of openConsumer, if the channels are told
Abandoned(stage, told) ==
    CASE stage = "live"           -> "dead"
      [] stage = "asked" /\ told  -> "rejected"
      [] OTHER                    -> stage

ConnectionGone(told) ==
    /\ link' = "none" /\ closed' = TRUE
    /\ own' = [s \in Subscription |-> IF own[s] = "live" THEN "dead" ELSE own[s]]
    /\ orphans' = [s \in Subscription |-> 0]
    /\ opening' = [s \in Subscription |-> Abandoned(opening[s], told)]
    /\ reopening' = [reopening EXCEPT !.stage = Abandoned(@, told)]
    /\ dropped' = {}
    /\ UNCHANGED <<tracked, raced, visited, reported>>

\* Connection.Close from the broker
ServerCloses ==
    /\ link = "open"
    /\ ConnectionGone(TRUE) /\ OnDisconnect
    /\ UNCHANGED <<silent, stopVars>>

\* The socket's close event: nobody is told of it once the client has called close.
SocketCloses ==
    /\ link = "open" /\ Quiet
    /\ ConnectionGone(~closed)
    /\ \/ ~closed /\ OnDisconnect
       \/ closed /\ UNCHANGED loopVars
    /\ UNCHANGED <<silent, stopVars>>

\* closeSocket sets closed, so that the close event that follows is taken for the client's own.
HeartbeatTimeout ==
    /\ link = "open" /\ Quiet
    /\ ConnectionGone(FALSE) /\ silent' = TRUE
    /\ UNCHANGED <<loopVars, stopVars>>

CloseOk ==
    /\ stopping = "closing" /\ link = "open"
    /\ ConnectionGone(TRUE) /\ stopping' = "done"
    /\ UNCHANGED <<silent, loopVars, stoppedAt>>

\* The broker answers the calls of one openConsumer, or refuses one of them.
SubscribeAnswered(s) ==
    /\ link = "open" /\ loop # "connected" /\ opening[s] = "asked"
    /\ \E stage \in {"live", "rejected"} : opening' = [opening EXCEPT ![s] = stage]
    /\ UNCHANGED <<connVars, loopVars, stopVars, subVars, visited, reopening, reported>>

RecoverAnswered ==
    /\ link = "open" /\ reopening.stage = "asked"
    /\ \E stage \in {"live", "rejected"} : reopening' = [reopening EXCEPT !.stage = stage]
    /\ UNCHANGED <<connVars, loopVars, stopVars, subVars, opening, visited, reported>>

\* The broker closes the channel of a consumer, or cancels it: the session does nothing.
ConsumerDropped(s) ==
    /\ link = "open" /\ own[s] = "live"
    /\ own' = [own EXCEPT ![s] = "dead"] /\ dropped' = dropped \cup {s}
    /\ UNCHANGED <<connVars, loopVars, stopVars, tracked, orphans, raced, opening, visited,
                   reopening, reported>>

----------------------------------------------------------------------------
Connecting == WaitEnds \/ BeforeConnect \/ ConnectFails \/ OpenOk \/ Connected
Recovering ==
    \/ Recovered \/ RecoverAnswered \/ RecoverDone
    \/ \E s \in Subscription : RecoverNext(s)
Subscribing == \E s \in Subscription : SubscribeAnswered(s) \/ Subscribed(s)
Application == Stop \/ \E s \in Subscription : Subscribe(s) \/ Cancel(s)
Environment ==
    \/ ServerCloses \/ SocketCloses \/ HeartbeatTimeout \/ CloseOk
    \/ \E s \in Subscription : ConsumerDropped(s)

Next == Connecting \/ Recovering \/ Subscribing \/ Application \/ Environment

\* Timers fire, an attempt to connect ends, and the broker answers.
Spec == Init /\ [][Next]_vars /\ WF_vars(Connecting) /\ WF_vars(Recovering) /\ WF_vars(Subscribing)

----------------------------------------------------------------------------
(* What the user of a session may rely on *)

\* A session that is not stopped and has no connection is reconnecting: whenever the
\* connection is lost, in an attempt to reconnect or in recovery too, but not to a
\* heartbeat timeout.
NeverLeftDown == closed /\ ~stopped /\ ~silent => loop # "idle"

\* What the documentation of ondisconnect says: it is the callback when the connection is
\* lost, on which the session reconnects.  A heartbeat timeout does not call it.
EveryLossIsSeen == closed /\ ~stopped => loop # "idle"

\* Once the session has reconnected, each subscription has a consumer, or onrecoverfailed
\* was called for it, or the broker has ended its consumer since.
SubscriptionsRecovered ==
    loop = "idle" /\ ~closed /\ ~stopped =>
        \A s \in tracked : own[s] = "live" \/ s \in reported \cup dropped

\* Each subscription has one consumer and a cancelled one has none, unless it was added
\* or cancelled while recover was at it.
LeaksInRecoveryOnly ==
    \A s \in Subscription :
        orphans[s] > 0 \/ (own[s] = "live" /\ s \notin tracked) => s \in raced

\* onfailed is called after maxRetries attempts, no fewer, since the last connection.
GivesUpAfterMax == failed => tries = MaxRetries /\ MaxRetries > 0

\* When stop has returned there is no connection, and none will be, unless it was called
\* while reconnectLoop was at beforeConnect or connect.
StopCloses ==
    stopping = "done" /\ link # "none" => stoppedAt \in {"before", "connecting"}

\* A connection that is lost is replaced, or the session gives up or is stopped.
Reconnects == closed /\ ~stopped /\ ~silent ~> ~closed \/ stopped
=============================================================================
