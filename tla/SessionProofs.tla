---------------------------- MODULE SessionProofs ----------------------------
(***************************************************************************)
(* Session for any set of subscriptions and any limit on the attempts.     *)
(***************************************************************************)
EXTENDS Session, TLAPS

USE SessionAssumption

----------------------------------------------------------------------------
(* Types *)

\* The head of the loop keeps the types of what it changes.
LEMMA IterateType ==
    ASSUME NEW n \in Nat, Iterate(n), stopped \in BOOLEAN, failed \in BOOLEAN
    PROVE  /\ loop' \in Loop /\ attempts' \in Nat
           /\ stopped' \in BOOLEAN /\ failed' \in BOOLEAN
<1>1. /\ loop' \in {"idle", "waiting"}
      /\ attempts' \in {n, n + 1}
      /\ stopped' = stopped \/ stopped' = TRUE
      /\ failed' = failed \/ failed' = TRUE
  BY ZenonT(30) DEF Iterate
<1>2. stopped' \in BOOLEAN /\ failed' \in BOOLEAN
  BY <1>1, Zenon
<1>. QED
  BY <1>1, <1>2 DEF Loop

\* The end of a connection keeps the types of what it changes.
LEMMA ConnectionGoneType ==
    ASSUME TypeOK, NEW told \in BOOLEAN, ConnectionGone(told)
    PROVE  /\ link' = "none" /\ closed' = TRUE /\ dropped' = {}
           /\ own' \in [Subscription -> {"none", "live", "dead"}]
           /\ orphans' \in [Subscription -> Nat]
           /\ opening' \in [Subscription -> Stage]
           /\ reopening' \in [of : Subscription, stage : Stage \ {"none"}] \cup {Idle}
           /\ UNCHANGED <<tracked, raced, visited, reported>>
<1>1. \A stage \in Stage : Abandoned(stage, told) \in Stage
  BY DEF Abandoned, Stage, Answered
<1>2. opening' \in [Subscription -> Stage]
  BY <1>1 DEF TypeOK, ConnectionGone
<1>3. reopening' \in [of : Subscription, stage : Stage \ {"none"}] \cup {Idle}
  <2>1. CASE reopening = Idle
    BY <2>1 DEF ConnectionGone, Abandoned, Idle
  <2>2. CASE reopening \in [of : Subscription, stage : Stage \ {"none"}]
    <3>1. Abandoned(reopening.stage, told) \in Stage \ {"none"}
      BY <1>1, <2>2 DEF Abandoned
    <3>. QED
      BY <2>2, <3>1 DEF ConnectionGone
  <2>. QED
    BY <2>1, <2>2 DEF TypeOK
<1>. QED
  BY <1>2, <1>3 DEF TypeOK, ConnectionGone

\* A disconnection keeps the types of the loop's variables.
LEMMA OnDisconnectType ==
    ASSUME TypeOK, OnDisconnect
    PROVE  /\ loop' \in Loop /\ attempts' \in Nat /\ tries' \in Nat
           /\ stopped' \in BOOLEAN /\ failed' \in BOOLEAN
BY IterateType DEF TypeOK, OnDisconnect, loopVars

LEMMA InitType == Init => TypeOK
<1> SUFFICES ASSUME Init PROVE TypeOK
  OBVIOUS
<1>. QED
  BY DEF Init, TypeOK, Loop, Stage

LEMMA StepType == TypeOK /\ [Next]_vars => TypeOK'
<1> SUFFICES ASSUME TypeOK, [Next]_vars PROVE TypeOK'
  OBVIOUS
<1> USE DEF connVars, loopVars, stopVars, subVars
<1>1. CASE WaitEnds
  BY <1>1, IterateType DEF WaitEnds, AfterWait, TypeOK, Loop
<1>2. CASE BeforeConnect
  BY <1>2, IterateType DEF BeforeConnect, TypeOK, Loop
<1>3. CASE ConnectFails
  BY <1>3, IterateType DEF ConnectFails, TypeOK
<1>4. CASE OpenOk
  BY <1>4 DEF OpenOk, TypeOK, Loop
<1>5. CASE Connected
  BY <1>5, IterateType DEF Connected, TypeOK, Loop
<1>6. CASE Recovered
  <2>1. reopening' = Idle /\ reopening.of \in Subscription
    BY <1>6 DEF Recovered, Idle, TypeOK, Answered
  <2>2. CASE ~Refused(reopening.stage)
    <3>1. reopening.stage \in {"live", "dead"}
      BY <1>6, <2>2 DEF Recovered, Refused, Answered
    <3>2. Count(own[reopening.of] = "live") \in Nat
      BY DEF Count
    <3>. QED
      BY <1>6, <2>1, <2>2, <3>1, <3>2 DEF Recovered, SetConsumer, TypeOK
  <2>3. CASE Refused(reopening.stage)
    BY <1>6, <2>1, <2>3 DEF Recovered, TypeOK
  <2>. QED
    BY <2>2, <2>3
<1>7. CASE RecoverAnswered
  <2>1. reopening \in [of : Subscription, stage : Stage \ {"none"}]
    BY <1>7 DEF RecoverAnswered, Idle, TypeOK
  <2>2. reopening' \in [of : Subscription, stage : Stage \ {"none"}]
    BY <1>7, <2>1 DEF RecoverAnswered, Stage, Answered
  <2>. QED
    BY <1>7, <2>2 DEF RecoverAnswered, TypeOK
<1>8. CASE RecoverDone
  BY <1>8, IterateType DEF RecoverDone, TypeOK, Loop
<1>9. ASSUME NEW s \in Subscription, RecoverNext(s) PROVE TypeOK'
  BY <1>9 DEF RecoverNext, Answered, Stage, TypeOK
<1>10. ASSUME NEW s \in Subscription, SubscribeAnswered(s) \/ Subscribed(s) \/ Subscribe(s) PROVE TypeOK'
  BY <1>10 DEF SubscribeAnswered, Subscribed, Subscribe, Refused, Answered, Stage, TypeOK
<1>11. ASSUME NEW s \in Subscription, Cancel(s) PROVE TypeOK'
  BY <1>11 DEF Cancel, CancelAll, EndConsumers, TypeOK
<1>12. CASE Stop
  BY <1>12 DEF Stop, CancelAll, EndConsumers, TypeOK
<1>13. CASE ServerCloses
  BY <1>13, ConnectionGoneType, OnDisconnectType DEF ServerCloses, TypeOK
<1>14. CASE SocketCloses
  BY <1>14, ConnectionGoneType, OnDisconnectType DEF SocketCloses, TypeOK
<1>15. CASE HeartbeatTimeout
  BY <1>15, ConnectionGoneType DEF HeartbeatTimeout, TypeOK
<1>16. CASE CloseOk
  BY <1>16, ConnectionGoneType DEF CloseOk, TypeOK
<1>17. ASSUME NEW s \in Subscription, ConsumerDropped(s) PROVE TypeOK'
  BY <1>17 DEF ConsumerDropped, TypeOK
<1>18. CASE UNCHANGED vars
  BY <1>18 DEF vars, TypeOK
<1>. QED
  BY <1>1, <1>2, <1>3, <1>4, <1>5, <1>6, <1>7, <1>8, <1>9, <1>10, <1>11, <1>12, <1>13, <1>14,
     <1>15, <1>16, <1>17, <1>18
     DEF Next, Connecting, Recovering, Subscribing, Application, Environment

\* The variables of the session have their types.
THEOREM TypeCorrect == Spec => []TypeOK
BY InitType, StepType, PTL DEF Spec

----------------------------------------------------------------------------
(* The loop and the connection *)

Attempting == {"before", "connecting"}

\* stop is the loop's order to end.
StopIsSeen == stopping # "no" => stopped

\* What the loop is doing tells the state of the connection.
LinkFollowsLoop ==
    /\ ~closed => link = "open"
    /\ closed /\ link = "open" => stopping = "closing"
    /\ link = "open" => loop \in {"idle", "connected", "recovering"}
    /\ link = "connecting" <=> loop = "connecting"

\* After a stop that did not come in the middle of an attempt, there is none.
StopEndsAttempts ==
    stopping = "done" /\ stoppedAt \notin Attempting =>
        link = "none" /\ loop \notin Attempting

\* reconnectAttempts counts the attempts made, and the next one while the loop waits.
AttemptsAreCounted ==
    /\ loop = "waiting" => attempts = tries + 1
    /\ loop \in Attempting \cup {"connected"} => attempts = tries
    /\ loop \in Attempting \cup {"waiting"} => ~Exhausted(attempts)
    /\ loop = "recovering" \/ (loop = "idle" /\ ~stopped) => attempts = 0 /\ tries = 0
    /\ failed => loop = "idle" /\ stopped

LoopInv ==
    /\ StopIsSeen /\ LinkFollowsLoop /\ StopEndsAttempts /\ AttemptsAreCounted
    /\ NeverLeftDown /\ GivesUpAfterMax

\* The head of the loop: it ends only for a session that is stopped.
LEMMA IterateGives ==
    ASSUME NEW n \in Nat, Iterate(n), stopped \in BOOLEAN
    PROVE  \/ /\ stopped /\ loop' = "idle" /\ stopped' /\ (failed' <=> failed)
           \/ /\ ~stopped /\ Exhausted(n + 1) /\ loop' = "idle" /\ stopped' /\ failed'
           \/ /\ ~stopped /\ ~Exhausted(n + 1) /\ attempts' = n + 1
              /\ loop' = "waiting" /\ ~stopped' /\ (failed' <=> failed)
BY Zenon DEF Iterate

\* A disconnection of a session that is not stopped leaves the loop running.
LEMMA OnDisconnectGives ==
    ASSUME TypeOK, LoopInv, OnDisconnect
    PROVE  /\ \/ UNCHANGED <<loop, attempts>> /\ (stopped \/ loop # "idle")
              \/ /\ ~stopped /\ loop = "idle" /\ loop' = "waiting"
                 /\ attempts' = 1 /\ ~Exhausted(1)
           /\ tries' = tries /\ (stopped' <=> stopped) /\ (failed' <=> failed)
<1>1. CASE ~stopped /\ loop = "idle"
  <2>1. attempts = 0 /\ Iterate(0) /\ tries' = tries
    BY <1>1 DEF OnDisconnect, LoopInv, AttemptsAreCounted
  <2>2. ~Exhausted(0 + 1)
    BY DEF Exhausted
  <2>. QED
    BY <1>1, <2>1, <2>2, IterateGives DEF TypeOK
<1>2. CASE stopped \/ loop # "idle"
  BY <1>2 DEF OnDisconnect, loopVars
<1>. QED
  BY <1>1, <1>2

LEMMA InitLoop == Init => LoopInv
BY DEF Init, LoopInv, StopIsSeen, LinkFollowsLoop, StopEndsAttempts, AttemptsAreCounted,
       NeverLeftDown, GivesUpAfterMax, Attempting

LEMMA StepLoop == TypeOK /\ LoopInv /\ [Next]_vars => LoopInv'
<1> SUFFICES ASSUME TypeOK, LoopInv, [Next]_vars PROVE LoopInv'
  OBVIOUS
<1> USE DEF connVars, loopVars, stopVars, LoopInv, StopIsSeen, LinkFollowsLoop,
            StopEndsAttempts, AttemptsAreCounted, NeverLeftDown, GivesUpAfterMax, Attempting
<1>1. CASE WaitEnds
  BY <1>1, IterateGives DEF WaitEnds, AfterWait, TypeOK
<1>2. CASE BeforeConnect
  BY <1>2, IterateGives DEF BeforeConnect, TypeOK, Exhausted
<1>3. CASE ConnectFails
  BY <1>3, IterateGives DEF ConnectFails, TypeOK, Exhausted
<1>4. CASE OpenOk
  BY <1>4 DEF OpenOk, TypeOK
<1>5. CASE Connected
  BY <1>5, IterateGives DEF Connected, TypeOK, Exhausted
<1>6. CASE RecoverDone
  BY <1>6, IterateGives DEF RecoverDone, Interrupted, TypeOK, Exhausted
<1>7. CASE Stop
  BY <1>7 DEF Stop, TypeOK
<1>8. CASE ServerCloses
  BY <1>8, OnDisconnectGives DEF ServerCloses, ConnectionGone, TypeOK
<1>9. CASE SocketCloses
  BY <1>9, OnDisconnectGives DEF SocketCloses, ConnectionGone, TypeOK
<1>10. CASE HeartbeatTimeout
  BY <1>10 DEF HeartbeatTimeout, ConnectionGone
<1>11. CASE CloseOk
  BY <1>11 DEF CloseOk, ConnectionGone
<1>12. CASE UNCHANGED <<connVars, loopVars, stopVars>>
  BY <1>12
<1>13. CASE UNCHANGED vars
  BY <1>12, <1>13 DEF vars
<1>14. ASSUME NEW s \in Subscription,
              RecoverNext(s) \/ SubscribeAnswered(s) \/ Subscribed(s) \/ Subscribe(s)
              \/ Cancel(s) \/ ConsumerDropped(s)
       PROVE  LoopInv'
  BY <1>12, <1>14 DEF RecoverNext, SubscribeAnswered, Subscribed, Subscribe, Cancel, ConsumerDropped
<1>15. CASE Recovered \/ RecoverAnswered
  BY <1>12, <1>15 DEF Recovered, RecoverAnswered
<1>. QED
  BY <1>1, <1>2, <1>3, <1>4, <1>5, <1>6, <1>7, <1>8, <1>9, <1>10, <1>11, <1>13, <1>14, <1>15
     DEF Next, Connecting, Recovering, Subscribing, Application, Environment

\* A session that is not stopped and has no connection is reconnecting, unless a
\* heartbeat timeout took the connection.
THEOREM NeverLeftDownHolds == Spec => []NeverLeftDown
<1>1. LoopInv => NeverLeftDown
  BY DEF LoopInv
<1>. QED
  BY <1>1, InitType, StepType, InitLoop, StepLoop, PTL DEF Spec

\* onfailed is called after maxRetries attempts and no fewer.
THEOREM GivesUpAfterMaxHolds == Spec => []GivesUpAfterMax
<1>1. LoopInv => GivesUpAfterMax
  BY DEF LoopInv
<1>. QED
  BY <1>1, InitType, StepType, InitLoop, StepLoop, PTL DEF Spec

\* stop leaves no connection, unless it was called in the middle of an attempt.
THEOREM StopClosesHolds == Spec => []StopCloses
<1>1. LoopInv => StopCloses
  BY DEF LoopInv, StopEndsAttempts, StopCloses, Attempting
<1>. QED
  BY <1>1, InitType, StepType, InitLoop, StepLoop, PTL DEF Spec

----------------------------------------------------------------------------
(* The consumers *)

\* Without a connection nothing is alive, and on a new one neither.
DeadWithConnection ==
    /\ link # "open" => /\ reopening.stage # "live"
                        /\ \A s \in Subscription :
                              own[s] # "live" /\ opening[s] # "live" /\ orphans[s] = 0
    /\ loop = "connected" =>
          \A s \in Subscription : own[s] # "live" /\ opening[s] # "live"
    /\ ~closed => reopening.stage # "dead" /\ \A s \in Subscription : opening[s] # "dead"

\* recover has a subscription in hand only in the loop's recovery, and subscribe one
\* that has no consumer yet.
HandlesAreOrderly ==
    /\ loop # "recovering" => reopening = Idle
    /\ reopening.of \in Subscription => reopening.of \in visited /\ own[reopening.of] # "none"
    /\ \A s \in Subscription : /\ s \in tracked => own[s] # "none"
                               /\ opening[s] # "none" => own[s] = "none"

\* What recover has been at is recovered.
VisitedAreRecovered ==
    loop = "recovering" /\ ~closed =>
        \A s \in tracked \cap visited :
            s = reopening.of \/ own[s] = "live" \/ s \in reported \cup dropped

\* What recover will give a second consumer, or has in hand although it was cancelled,
\* was added or cancelled meanwhile.
RacedAreKnown ==
    /\ loop = "recovering" =>
          \A s \in Subscription :
              own[s] = "live" /\ (s = reopening.of \/ s \in tracked \ visited) => s \in raced
    /\ reopening.of \in tracked \cup raced \cup {None}

RecoveryInv ==
    /\ DeadWithConnection /\ HandlesAreOrderly /\ VisitedAreRecovered /\ RacedAreKnown
    /\ SubscriptionsRecovered /\ LeaksInRecoveryOnly

LEMMA InitRecovery == Init => RecoveryInv
BY DEF Init, RecoveryInv, DeadWithConnection, HandlesAreOrderly, VisitedAreRecovered,
       RacedAreKnown, SubscriptionsRecovered, LeaksInRecoveryOnly, Idle

\* Steps of the loop before and after recovery, that leave the subscriptions alone.
LEMMA LoopKeepsRecovery ==
    ASSUME TypeOK, LoopInv, RecoveryInv,
           WaitEnds \/ BeforeConnect \/ ConnectFails \/ RecoverDone
    PROVE  RecoveryInv'
<1>1. /\ UNCHANGED <<closed, tracked, own, orphans, dropped, raced, opening, visited, reopening,
                     reported>>
      /\ loop' \in {"idle", "waiting", "before", "connecting"}
      /\ link' = link \/ loop = "connecting" \/ loop = "before"
      /\ reopening = Idle
      /\ loop' = "idle" /\ ~closed /\ ~stopped' => loop = "recovering" /\ tracked \subseteq visited
  <2>1. CASE WaitEnds
    BY <2>1, IterateGives DEF WaitEnds, AfterWait, TypeOK, connVars, subVars, RecoveryInv,
       HandlesAreOrderly
  <2>2. CASE BeforeConnect
    BY <2>2, IterateGives DEF BeforeConnect, TypeOK, subVars, RecoveryInv, HandlesAreOrderly
  <2>3. CASE ConnectFails
    BY <2>3, IterateGives DEF ConnectFails, TypeOK, subVars, RecoveryInv, HandlesAreOrderly
  <2>4. CASE RecoverDone
    BY <2>4, IterateGives DEF RecoverDone, TypeOK, connVars, subVars
  <2>. QED
    BY <2>1, <2>2, <2>3, <2>4
<1>2. loop \in {"before", "connecting"} => link # "open"
  BY DEF LoopInv, LinkFollowsLoop
<1>3. DeadWithConnection' /\ HandlesAreOrderly' /\ VisitedAreRecovered' /\ RacedAreKnown'
      /\ LeaksInRecoveryOnly'
  BY <1>1, <1>2 DEF RecoveryInv, DeadWithConnection, HandlesAreOrderly, VisitedAreRecovered,
     RacedAreKnown, LeaksInRecoveryOnly
<1>4. SubscriptionsRecovered'
  BY <1>1 DEF RecoveryInv, VisitedAreRecovered, SubscriptionsRecovered, Idle, TypeOK
<1>. QED
  BY <1>3, <1>4 DEF RecoveryInv

\* Nothing outlives a connection.
LEMMA ConnectionGoneKeepsRecovery ==
    ASSUME TypeOK, LoopInv, RecoveryInv, NEW told \in BOOLEAN, ConnectionGone(told), link = "open",
           loop' = loop \/ (loop = "idle" /\ loop' = "waiting")
    PROVE  RecoveryInv'
<1>1. closed' /\ UNCHANGED <<tracked, raced, visited>> /\ reopening'.of = reopening.of
  BY DEF ConnectionGone, TypeOK, Idle
<1>2. \A stage \in Stage : /\ Abandoned(stage, told) # "live"
                           /\ Abandoned(stage, told) = "none" => stage = "none"
                           /\ stage = "none" => Abandoned(stage, told) = "none"
  BY DEF Abandoned, Stage, Answered
<1>3. reopening'.stage # "live" /\ (reopening = Idle => reopening' = Idle)
  <2>1. reopening.stage \in Stage /\ reopening'.stage = Abandoned(reopening.stage, told)
    BY DEF TypeOK, Idle, Stage, ConnectionGone
  <2>. QED
    BY <1>2, <2>1 DEF ConnectionGone, Idle, Abandoned
<1>4. \A s \in Subscription : /\ own'[s] # "live" /\ orphans'[s] = 0
                              /\ own'[s] = "none" => own[s] = "none"
                              /\ own[s] = "none" => own'[s] = "none"
  BY DEF ConnectionGone
<1>5. \A s \in Subscription : /\ opening'[s] # "live"
                              /\ opening'[s] # "none" => opening[s] # "none"
  BY <1>2 DEF ConnectionGone, TypeOK
<1>6. DeadWithConnection'
  BY <1>1, <1>3, <1>4, <1>5 DEF DeadWithConnection
<1>7. HandlesAreOrderly'
  <2>1. loop' # "recovering" => reopening' = Idle
    BY <1>3 DEF RecoveryInv, HandlesAreOrderly
  <2>2. tracked' = tracked
    BY <1>1
  <2>3. \A s \in Subscription : /\ s \in tracked' => own'[s] # "none"
                                /\ opening'[s] # "none" => own'[s] = "none"
    BY <2>2, <1>4, <1>5 DEF RecoveryInv, HandlesAreOrderly
  <2>4. reopening'.of \in Subscription => reopening'.of \in visited' /\ own'[reopening'.of] # "none"
    BY <1>1, <1>4 DEF RecoveryInv, HandlesAreOrderly
  <2>. QED
    BY <2>1, <2>3, <2>4 DEF HandlesAreOrderly
<1>8. VisitedAreRecovered' /\ SubscriptionsRecovered'
  BY <1>1 DEF VisitedAreRecovered, SubscriptionsRecovered
<1>9. RacedAreKnown'
  BY <1>1, <1>4 DEF RecoveryInv, RacedAreKnown
<1>10. LeaksInRecoveryOnly'
  BY <1>4 DEF LeaksInRecoveryOnly
<1>. QED
  BY <1>6, <1>7, <1>8, <1>9, <1>10 DEF RecoveryInv

\* Cancelling any of the subscriptions.
LEMMA CancelAllKeepsRecovery ==
    ASSUME TypeOK, RecoveryInv, NEW S \in SUBSET tracked, CancelAll(S),
           UNCHANGED <<link, loop, opening, visited, reopening, reported>>,
           closed => closed', stopped => stopped'
    PROVE  RecoveryInv'
<1> USE DEF RecoveryInv
<1>1. /\ tracked' = tracked \ S /\ UNCHANGED <<orphans, dropped>>
      /\ raced' = raced \cup (S \cap {reopening.of})
      /\ \A s \in Subscription : /\ s \in S => own'[s] = "dead"
                                 /\ s \notin S => own'[s] = own[s]
  BY DEF CancelAll, EndConsumers
<1>2. \A s \in Subscription : own[s] = "none" => own'[s] = "none" \/ s \in tracked
  BY <1>1
<1>3. DeadWithConnection' /\ HandlesAreOrderly'
  <2>1. \A s \in Subscription : own'[s] = "live" => own[s] = "live"
    BY <1>1
  <2>2. DeadWithConnection'
    BY <1>1, <2>1 DEF DeadWithConnection
  <2>3. HandlesAreOrderly'
    BY <1>1, <1>2 DEF HandlesAreOrderly
  <2>. QED
    BY <2>2, <2>3
<1>4. VisitedAreRecovered'
  BY <1>1, <1>2 DEF VisitedAreRecovered, TypeOK
<1>5. SubscriptionsRecovered'
  BY <1>1, <1>2 DEF SubscriptionsRecovered, TypeOK
<1>6. RacedAreKnown'
  <2>1. reopening'.of \in tracked' \cup raced' \cup {None}
    BY <1>1 DEF RacedAreKnown
  <2>2. ASSUME loop' = "recovering", NEW s \in Subscription, own'[s] = "live",
               s = reopening'.of \/ s \in tracked' \ visited'
        PROVE  s \in raced'
    BY <1>1, <2>2 DEF RacedAreKnown
  <2>. QED
    BY <2>1, <2>2 DEF RacedAreKnown
<1>7. LeaksInRecoveryOnly'
  BY <1>1 DEF LeaksInRecoveryOnly
<1>. QED
  BY <1>3, <1>4, <1>5, <1>6, <1>7

LEMMA StepRecovery == TypeOK /\ LoopInv /\ RecoveryInv /\ [Next]_vars => RecoveryInv'
<1> SUFFICES ASSUME TypeOK, LoopInv, RecoveryInv, [Next]_vars PROVE RecoveryInv'
  OBVIOUS
<1> USE DEF connVars, loopVars, stopVars, subVars, RecoveryInv, DeadWithConnection,
            HandlesAreOrderly, VisitedAreRecovered, RacedAreKnown, SubscriptionsRecovered,
            LeaksInRecoveryOnly
<1>1. CASE WaitEnds \/ BeforeConnect \/ ConnectFails \/ RecoverDone
  BY <1>1, LoopKeepsRecovery
<1>2. CASE OpenOk
  BY <1>2 DEF OpenOk, Quiet, Answered, LoopInv, LinkFollowsLoop, TypeOK
<1>3. CASE Connected
  <2>1. loop' \in {"recovering", "waiting", "idle"} /\ (loop' = "recovering" => visited' = {})
        /\ (loop' = "idle" => closed)
    BY <1>3, IterateGives DEF Connected, TypeOK
  <2>. QED
    BY <1>3, <2>1 DEF Connected, Idle, TypeOK
<1>4. CASE Recovered
  <2>1. reopening' = Idle /\ reopening.of \in Subscription /\ loop = "recovering"
    BY <1>4 DEF Recovered, Idle, TypeOK, Answered
  <2>2. CASE Refused(reopening.stage)
    BY <1>4, <2>1, <2>2 DEF Recovered, Idle, TypeOK
  <2>3. CASE ~Refused(reopening.stage)
    <3>1. /\ own' = [own EXCEPT ![reopening.of] = reopening.stage]
          /\ orphans' = [orphans EXCEPT ![reopening.of] = @ + Count(own[reopening.of] = "live")]
      BY <1>4, <2>3 DEF Recovered, SetConsumer
    <3>2. own[reopening.of] # "live" => orphans'[reopening.of] = orphans[reopening.of]
      BY <3>1, <2>1 DEF Count, TypeOK
    <3>3. reopening.stage \in {"live", "dead"}
      BY <1>4, <2>3 DEF Recovered, Refused, Answered
    <3>. QED
      <4>1. UNCHANGED <<closed, link, loop, stopped, tracked, dropped, raced, opening, visited, reported>>
        BY <1>4, <2>1, <2>3 DEF Recovered
      <4>2. \A s \in Subscription : s # reopening.of => own'[s] = own[s] /\ orphans'[s] = orphans[s]
        BY <3>1 DEF TypeOK
      <4>3. own'[reopening.of] = reopening.stage
        BY <2>1, <3>1 DEF TypeOK
      <4>4. HandlesAreOrderly'
        <5>1. reopening'.of \notin Subscription
          BY <2>1 DEF Idle
        <5>2. \A s \in Subscription : own[s] # "none" => own'[s] # "none"
          BY <3>3, <4>2, <4>3
        <5>3. \A s \in Subscription : opening[s] # "none" => own'[s] = "none"
          BY <2>1, <4>2
        <5>. QED
          BY <2>1, <4>1, <5>1, <5>2, <5>3
      <4>5. VisitedAreRecovered' /\ SubscriptionsRecovered'
        BY <2>1, <3>3, <4>1, <4>2, <4>3 DEF Idle, TypeOK
      <4>6. RacedAreKnown' /\ LeaksInRecoveryOnly'
        BY <2>1, <3>2, <3>3, <4>1, <4>2, <4>3 DEF Idle, TypeOK
      <4>7. DeadWithConnection'
        BY <2>1, <3>2, <3>3, <4>1, <4>2, <4>3 DEF Idle
      <4>. QED
        BY <4>4, <4>5, <4>6, <4>7
  <2>. QED
    BY <2>2, <2>3
<1>5. CASE RecoverAnswered
  BY <1>5 DEF RecoverAnswered, Idle, TypeOK, LoopInv, LinkFollowsLoop
<1>6. ASSUME NEW s \in Subscription, RecoverNext(s) PROVE RecoveryInv'
  BY <1>6 DEF RecoverNext, Idle, TypeOK
<1>7. ASSUME NEW s \in Subscription, SubscribeAnswered(s) PROVE RecoveryInv'
  BY <1>7 DEF SubscribeAnswered, TypeOK
<1>8. ASSUME NEW s \in Subscription, Subscribed(s) PROVE RecoveryInv'
  BY <1>8 DEF Subscribed, Refused, Answered, TypeOK
<1>9. ASSUME NEW s \in Subscription, Subscribe(s) PROVE RecoveryInv'
  BY <1>9 DEF Subscribe, TypeOK, LoopInv, LinkFollowsLoop
<1>10. ASSUME NEW s \in Subscription, Cancel(s) PROVE RecoveryInv'
  BY <1>10, CancelAllKeepsRecovery DEF Cancel
<1>11. CASE Stop
  BY <1>11, CancelAllKeepsRecovery DEF Stop
<1>12. CASE ServerCloses \/ SocketCloses
  BY <1>12, ConnectionGoneKeepsRecovery, OnDisconnectGives DEF ServerCloses, SocketCloses, TypeOK
<1>13. CASE HeartbeatTimeout \/ CloseOk
  BY <1>13, ConnectionGoneKeepsRecovery DEF HeartbeatTimeout, CloseOk
<1>14. ASSUME NEW s \in Subscription, ConsumerDropped(s) PROVE RecoveryInv'
  BY <1>14 DEF ConsumerDropped, TypeOK
<1>15. CASE UNCHANGED vars
  BY <1>15 DEF vars
<1>. QED
  BY <1>1, <1>2, <1>3, <1>4, <1>5, <1>6, <1>7, <1>8, <1>9, <1>10, <1>11, <1>12, <1>13, <1>14, <1>15
     DEF Next, Connecting, Recovering, Subscribing, Application, Environment

\* Once the session has reconnected, each subscription has a consumer, or its failure was
\* reported, or the broker has ended its consumer since.
THEOREM SubscriptionsRecoveredHolds == Spec => []SubscriptionsRecovered
<1>1. RecoveryInv => SubscriptionsRecovered
  BY DEF RecoveryInv
<1>. QED
  BY <1>1, InitType, StepType, InitLoop, StepLoop, InitRecovery, StepRecovery, PTL DEF Spec

\* A subscription has one consumer, and a cancelled one none, unless it was added or
\* cancelled while recover was at it.
THEOREM LeaksInRecoveryOnlyHolds == Spec => []LeaksInRecoveryOnly
<1>1. RecoveryInv => LeaksInRecoveryOnly
  BY DEF RecoveryInv
<1>. QED
  BY <1>1, InitType, StepType, InitLoop, StepLoop, InitRecovery, StepRecovery, PTL DEF Spec
=============================================================================
