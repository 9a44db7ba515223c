--------------------------- MODULE RpcClientProofs ---------------------------
(***************************************************************************)
(* RpcClient for any set of calls and any number of channels: no call is   *)
(* forgotten, none gets the reply to another, none is stranded without a   *)
(* cause, and the client holds one channel.                                *)
(***************************************************************************)
EXTENDS RpcClient, TLAPS

USE RpcClientAssumption

----------------------------------------------------------------------------
(* Types *)

Results == {"none", "pending", "resolved", "rejected"}

LEMMA InitType == Init => TypeOK
<1> SUFFICES ASSUME Init PROVE TypeOK
  OBVIOUS
<1>1. /\ id \in [Call -> Nat] /\ sentOn \in [Call -> 0 .. channels]
      /\ answer \in [Call -> SUBSET Call]
  BY DEF Init
<1>2. result \in [Call -> Results]
  BY DEF Init, Results
<1>3. ch \in 0 .. channels /\ channels \in 0 .. MaxChannel /\ correlationId \in Nat
  BY DEF Init
<1>4. /\ conn \in {"up", "down", "ended"} /\ due \in BOOLEAN /\ tracked \in BOOLEAN
      /\ starting \in BOOLEAN /\ closed \in BOOLEAN /\ raced \in BOOLEAN
  BY DEF Init
<1>5. /\ open \subseteq 1 .. channels /\ lone \subseteq 1 .. channels /\ timed \subseteq Call
      /\ pending \subseteq Call /\ timers \subseteq Call
      /\ encoding \subseteq Call /\ decoding \subseteq Call
      /\ publishing \subseteq Call /\ refused \subseteq publishing
      /\ asked \subseteq Call /\ replies \subseteq asked
  BY DEF Init
<1>. QED
  BY <1>1, <1>2, <1>3, <1>4, <1>5 DEF TypeOK, Results

\* Rejecting calls keeps the types.
LEMMA RejectType ==
    ASSUME TypeOK, NEW S, Reject(S)
    PROVE  result' \in [Call -> Results]
BY DEF Reject, TypeOK, Results

LEMMA StepType == TypeOK /\ [Next]_vars => TypeOK'
<1> SUFFICES ASSUME TypeOK, [Next]_vars PROVE TypeOK'
  OBVIOUS
<1> USE DEF sessionVars, startVars, callVars, waitVars, wireVars
<1>1. ASSUME NEW c \in Call, CallMade(c) PROVE TypeOK'
  <2>1. correlationId' \in Nat /\ id' \in [Call -> Nat] /\ sentOn' \in [Call -> 0 .. channels]
    BY <1>1 DEF CallMade, NextId, TypeOK
  <2>2. timed' \subseteq Call /\ encoding' \subseteq Call
    BY <1>1 DEF CallMade, TypeOK
  <2>3. result' \in [Call -> {"none", "pending", "resolved", "rejected"}]
    BY <1>1 DEF CallMade, TypeOK
  <2>. QED
    BY <1>1, <2>1, <2>2, <2>3 DEF CallMade, TypeOK
<1>2. ASSUME NEW c \in Call, EncodeFails(c) \/ PublishFailed(c) \/ TimerFires(c) PROVE TypeOK'
  <2>1. Reject({c}) \/ Reject({c} \cap pending)
    BY <1>2 DEF EncodeFails, PublishFailed, TimerFires, RejectEntry
  <2>2. result' \in [Call -> Results]
    BY <2>1, RejectType
  <2>. QED
    BY <1>2, <2>2 DEF EncodeFails, PublishFailed, TimerFires, RejectEntry, TypeOK, Results
<1>3. ASSUME NEW c \in Call, Encoded(c) \/ Published(c) \/ Reply(c) PROVE TypeOK'
  <2>1. CASE Encoded(c)
    <3>1. pending' \subseteq Call /\ timers' \subseteq Call
      BY <2>1 DEF Encoded, TypeOK
    <3>. QED
      BY <2>1, <3>1 DEF Encoded, TypeOK
  <2>2. CASE Published(c) \/ Reply(c)
    BY <2>2 DEF Published, Reply, TypeOK
  <2>. QED
    BY <1>3, <2>1, <2>2
<1>3a. ASSUME NEW c \in Call, GotReply(c) \/ Decoded(c) PROVE TypeOK'
  <2>1. CASE GotReply(c)
    <3>1. PICK entry \in SUBSET pending :
              /\ pending' = pending \ entry /\ timers' = timers \ entry
              /\ decoding' = decoding \cup entry
              /\ answer' = [e \in Call |-> IF e \in entry THEN {c} ELSE answer[e]]
      BY <2>1 DEF GotReply
    <3>2. answer' \in [Call -> SUBSET Call]
      BY <3>1 DEF TypeOK
    <3>. QED
      BY <2>1, <3>1, <3>2 DEF GotReply, TypeOK
  <2>2. CASE Decoded(c)
    <3>1. result' \in [Call -> Results]
      BY <2>2 DEF Decoded, TypeOK, Results
    <3>. QED
      BY <2>2, <3>1 DEF Decoded, TypeOK, Results
  <2>. QED
    BY <1>3a, <2>1, <2>2
<1>4. CASE Recover \/ StartFails \/ Close
  <2>1. result' = result \/ Reject(pending)
    BY <1>4 DEF Recover, StartFails, Close, RejectAllPending
  <2>2. result' \in [Call -> Results]
    BY <2>1, RejectType DEF TypeOK, Results
  <2>3. ch' \in 0 .. channels
    BY <1>4 DEF Recover, StartFails, Close, TypeOK
  <2>. QED
    BY <1>4, <2>2, <2>3
       DEF Recover, StartFails, Close, RejectAllPending, CloseChannel, TypeOK, Results
<1>5. CASE Started
  <2>1. /\ channels' \in 0 .. MaxChannel /\ ch' = channels' /\ ch' \in 0 .. channels'
        /\ 1 .. channels \subseteq 1 .. channels' /\ 0 .. channels \subseteq 0 .. channels'
        /\ ch' \in 1 .. channels'
    BY <1>5 DEF Started, TypeOK
  <2>2. open' \subseteq 1 .. channels' /\ lone' \subseteq 1 .. channels'
    BY <1>5, <2>1 DEF Started, TypeOK
  <2>3. sentOn' \in [Call -> 0 .. channels']
    BY <1>5, <2>1 DEF Started, TypeOK
  <2>4. tracked' \in BOOLEAN /\ starting' \in BOOLEAN
    BY <1>5 DEF Started, TypeOK
  <2>. QED
    BY <1>5, <2>1, <2>2, <2>3, <2>4 DEF Started, TypeOK
<1>6. CASE ConnectionLost \/ Reconnected \/ GivesUp
  BY <1>6 DEF ConnectionLost, Reconnected, GivesUp, TypeOK
<1>7. ASSUME NEW n \in Channel, ChannelClosed(n) PROVE TypeOK'
  BY <1>7 DEF ChannelClosed, TypeOK
<1>8. CASE UNCHANGED vars
  BY <1>8 DEF vars, TypeOK
<1>. QED
  BY <1>1, <1>2, <1>3, <1>3a, <1>4, <1>5, <1>6, <1>7, <1>8 DEF Next, Answering, Environment

\* Every variable keeps its type, for any set of calls and any number of channels.
THEOREM TypeCorrect == Spec => []TypeOK
BY InitType, StepType, PTL DEF Spec

----------------------------------------------------------------------------
(* What a call waits for *)

\* The correlationId of a call is its own, from the moment of the call on.
IdsAreOwn ==
    /\ \A c \in Call : id[c] <= correlationId /\ (id[c] = 0 <=> result[c] = "none")
    /\ \A c, d \in Call : id[c] = id[d] /\ id[c] # 0 => c = d
\* A call is at one place at a time, and nothing is under way for one not made.
PlacesDiffer ==
    /\ encoding \cap pending = {} /\ encoding \cap decoding = {} /\ pending \cap decoding = {}
    /\ \A c \in asked \cup publishing : result[c] # "none"
WaitInv == IdsAreOwn /\ PlacesDiffer /\ PendingIsHeld /\ ReplyIsOwn

LEMMA InitWait == Init => WaitInv
BY DEF Init, WaitInv, IdsAreOwn, PlacesDiffer, PendingIsHeld, ReplyIsOwn

\* The entry of a correlationId is that of the call it belongs to.
LEMMA EntryIsOwn ==
    ASSUME TypeOK, WaitInv, NEW c \in Call, result[c] # "none"
    PROVE  {e \in pending : id[e] = id[c]} = {c} \cap pending
BY DEF TypeOK, WaitInv, IdsAreOwn

\* Rejecting the entries of some calls leaves none of them waiting.
LEMMA EntriesRejected ==
    ASSUME TypeOK, WaitInv, NEW S \in SUBSET pending, pending' = pending \ S, timers' = timers \ S,
           Reject(S), UNCHANGED <<callVars, encoding, decoding, answer>>,
           asked' \subseteq asked, publishing' \subseteq publishing
    PROVE  WaitInv'
<1> USE DEF callVars
<1>1. \A c \in Call : result'[c] = IF c \in S THEN "rejected" ELSE result[c]
  BY DEF Reject
<1>2. \A c \in Call : result'[c] = "none" <=> result[c] = "none"
  BY <1>1 DEF WaitInv, PendingIsHeld, TypeOK
<1>3. IdsAreOwn' /\ PlacesDiffer' /\ ReplyIsOwn'
  BY <1>2 DEF WaitInv, IdsAreOwn, PlacesDiffer, ReplyIsOwn, TypeOK
<1>4. PendingIsHeld'
  BY <1>1 DEF WaitInv, PlacesDiffer, PendingIsHeld, TypeOK
<1>. QED
  BY <1>3, <1>4 DEF WaitInv

LEMMA StepWait == TypeOK /\ WaitInv /\ [Next]_vars => WaitInv'
<1> SUFFICES ASSUME TypeOK, WaitInv, [Next]_vars PROVE WaitInv'
  OBVIOUS
<1> USE DEF sessionVars, startVars, callVars, waitVars, wireVars
<1>0. ASSUME UNCHANGED <<callVars, waitVars>>, asked' \subseteq asked, publishing' \subseteq publishing
      PROVE  WaitInv'
  BY <1>0 DEF WaitInv, IdsAreOwn, PlacesDiffer, PendingIsHeld, ReplyIsOwn
<1>1. ASSUME NEW c \in Call, CallMade(c) PROVE WaitInv'
  <2>1. /\ id'[c] = correlationId + 1 /\ correlationId' = correlationId + 1 /\ result'[c] = "pending"
        /\ \A d \in Call : d # c => id'[d] = id[d] /\ result'[d] = result[d]
        /\ \A d \in Call : id[d] \in Nat /\ correlationId \in Nat
    BY <1>1 DEF CallMade, NextId, TypeOK
  <2>2. IdsAreOwn'
    <3>1. \A d \in Call : id'[d] <= correlationId' /\ (id'[d] = 0 <=> result'[d] = "none")
      BY <2>1 DEF WaitInv, IdsAreOwn
    <3>2. \A d \in Call : d # c => id'[d] # id'[c]
      BY <2>1 DEF WaitInv, IdsAreOwn
    <3>. QED
      BY <2>1, <3>1, <3>2 DEF WaitInv, IdsAreOwn
  <2>3. c \notin encoding /\ c \notin pending /\ c \notin decoding
    BY <1>1 DEF CallMade, WaitInv, PendingIsHeld
  <2>4. /\ encoding' = encoding \cup {c} /\ timed' \in {timed, timed \cup {c}}
        /\ UNCHANGED <<pending, timers, decoding, answer, asked, publishing>>
    BY <1>1 DEF CallMade
  <2>5. PlacesDiffer' /\ ReplyIsOwn'
    BY <2>1, <2>3, <2>4 DEF WaitInv, PlacesDiffer, ReplyIsOwn, TypeOK
  <2>6. PendingIsHeld'
    BY <2>1, <2>3, <2>4 DEF WaitInv, PendingIsHeld
  <2>. QED
    BY <2>2, <2>5, <2>6 DEF WaitInv
<1>2. ASSUME NEW c \in Call, EncodeFails(c) PROVE WaitInv'
  <2>1. /\ result'[c] = "rejected" /\ result[c] = "pending"
        /\ \A d \in Call : d # c => result'[d] = result[d]
    BY <1>2 DEF EncodeFails, Reject, WaitInv, PendingIsHeld
  <2>2. \A d \in Call : result'[d] = "none" <=> result[d] = "none"
    BY <2>1
  <2>3. IdsAreOwn' /\ PlacesDiffer' /\ ReplyIsOwn'
    BY <1>2, <2>2 DEF EncodeFails, WaitInv, IdsAreOwn, PlacesDiffer, ReplyIsOwn, TypeOK
  <2>4. PendingIsHeld'
    BY <1>2, <2>1 DEF EncodeFails, WaitInv, PlacesDiffer, PendingIsHeld
  <2>. QED
    BY <2>3, <2>4 DEF WaitInv
<1>3. ASSUME NEW c \in Call, Encoded(c) PROVE WaitInv'
  <2>1. c \in encoding /\ result[c] = "pending" /\ c \notin pending /\ c \notin decoding
    BY <1>3 DEF Encoded, WaitInv, PendingIsHeld, PlacesDiffer
  <2>2. {e \in pending : id[e] # id[c]} = pending
    BY <2>1, EntryIsOwn
  <2>3. /\ encoding' = encoding \ {c} /\ pending' = pending \cup {c}
        /\ timers' = timers \cup ({c} \cap timed) /\ publishing' = publishing \cup {c}
        /\ asked' \subseteq asked \cup {c}
        /\ UNCHANGED <<correlationId, id, timed, result, decoding, answer>>
    BY <1>3, <2>2 DEF Encoded
  <2>4. IdsAreOwn' /\ PlacesDiffer' /\ ReplyIsOwn'
    BY <2>1, <2>3 DEF WaitInv, IdsAreOwn, PlacesDiffer, ReplyIsOwn
  <2>5. PendingIsHeld'
    BY <2>1, <2>3 DEF WaitInv, PendingIsHeld
  <2>. QED
    BY <2>4, <2>5 DEF WaitInv
<1>4. ASSUME NEW c \in Call, PublishFailed(c) \/ TimerFires(c) PROVE WaitInv'
  <2>1. /\ pending' = pending \ ({c} \cap pending) /\ timers' = timers \ ({c} \cap pending)
        /\ Reject({c} \cap pending)
    BY <1>4 DEF PublishFailed, TimerFires, RejectEntry, WaitInv, PendingIsHeld
  <2>. QED
    BY <1>4, <2>1, EntriesRejected DEF PublishFailed, TimerFires
<1>5. ASSUME NEW c \in Call, GotReply(c) PROVE WaitInv'
  <2>1. result[c] # "none"
    BY <1>5 DEF GotReply, WaitInv, PlacesDiffer, TypeOK
  <2>2. /\ pending' = pending \ {c} /\ timers' = timers \ {c}
        /\ decoding' = decoding \cup ({c} \cap pending)
        /\ answer' = [e \in Call |-> IF e \in {c} \cap pending THEN {c} ELSE answer[e]]
        /\ UNCHANGED <<callVars, result, encoding, asked, publishing>>
    <3>1. timers \subseteq pending
      BY DEF WaitInv, PendingIsHeld
    <3>. QED
      BY <1>5, <2>1, <3>1, EntryIsOwn DEF GotReply
  <2>3. IdsAreOwn' /\ PlacesDiffer'
    BY <2>2 DEF WaitInv, IdsAreOwn, PlacesDiffer
  <2>4. ReplyIsOwn'
    BY <2>2 DEF WaitInv, ReplyIsOwn
  <2>5. PendingIsHeld'
    BY <2>2 DEF WaitInv, PendingIsHeld
  <2>. QED
    BY <2>3, <2>4, <2>5 DEF WaitInv
<1>6. ASSUME NEW c \in Call, Decoded(c) PROVE WaitInv'
  <2>1. /\ result'[c] \in {"resolved", "rejected"} /\ result[c] = "pending"
        /\ \A d \in Call : d # c => result'[d] = result[d]
    BY <1>6 DEF Decoded, WaitInv, PendingIsHeld, TypeOK
  <2>2. \A d \in Call : result'[d] = "none" <=> result[d] = "none"
    BY <2>1
  <2>3. IdsAreOwn' /\ PlacesDiffer' /\ ReplyIsOwn'
    BY <1>6, <2>2 DEF Decoded, WaitInv, IdsAreOwn, PlacesDiffer, ReplyIsOwn, TypeOK
  <2>4. PendingIsHeld'
    BY <1>6, <2>1 DEF Decoded, WaitInv, PlacesDiffer, PendingIsHeld
  <2>. QED
    BY <2>3, <2>4 DEF WaitInv
<1>7. CASE Recover \/ Close
  <2>1. CASE UNCHANGED <<pending, timers, result>>
    BY <1>0, <1>7, <2>1 DEF Recover, Close
  <2>2. CASE RejectAllPending
    <3>1. pending' = pending \ pending /\ timers' = timers \ pending /\ Reject(pending)
      BY <2>2 DEF RejectAllPending, WaitInv, PendingIsHeld
    <3>. QED
      BY <1>7, <3>1, EntriesRejected DEF Recover, Close
  <2>. QED
    BY <1>7, <2>1, <2>2 DEF Recover, Close
<1>8. ASSUME NEW c \in Call, Published(c) \/ Reply(c) PROVE WaitInv'
  BY <1>0, <1>8 DEF Published, Reply
<1>9. CASE Started \/ StartFails \/ ConnectionLost \/ Reconnected \/ GivesUp
  BY <1>0, <1>9 DEF Started, StartFails, ConnectionLost, Reconnected, GivesUp
<1>10. ASSUME NEW n \in Channel, ChannelClosed(n) PROVE WaitInv'
  BY <1>0, <1>10 DEF ChannelClosed
<1>11. CASE UNCHANGED vars
  BY <1>0, <1>11 DEF vars
<1>. QED
  BY <1>1, <1>2, <1>3, <1>4, <1>5, <1>6, <1>7, <1>8, <1>9, <1>10, <1>11
     DEF Next, Answering, Environment

LEMMA WaitInvariance == Spec => [](TypeOK /\ WaitInv)
BY InitType, StepType, InitWait, StepWait, PTL DEF Spec

\* No call is forgotten: through replies, time limits, failed writes, recover and close it
\* is unsettled exactly as long as something still holds it, and an entry has its timer.
THEOREM PendingIsHeldHolds == Spec => []PendingIsHeld
<1>1. WaitInv => PendingIsHeld
  BY DEF WaitInv
<1>. QED
  BY <1>1, WaitInvariance, PTL

\* A call is fulfilled with the reply to its own request only.
THEOREM ReplyIsOwnHolds == Spec => []ReplyIsOwn
<1>1. WaitInv => ReplyIsOwn
  BY DEF WaitInv
<1>. QED
  BY <1>1, WaitInvariance, PTL

----------------------------------------------------------------------------
(* The client's channel *)

\* start goes on only while the connection is up and recover's turn is over, and the
\* client has no channel meanwhile.
StartIsAlone ==
    /\ conn # "up" \/ due => open = {} /\ ~starting
    /\ starting => open = {} /\ ch = 0
\* close came while start was under way, or start has nothing to do any more.
ClosedIsRaced ==
    /\ tracked => ~closed
    /\ closed /\ (starting \/ open # {}) => raced
HoldInv == StartIsAlone /\ ClosedIsRaced /\ open \subseteq {ch}

LEMMA InitHold == Init => HoldInv
BY DEF Init, HoldInv, StartIsAlone, ClosedIsRaced

LEMMA StepHold == TypeOK /\ HoldInv /\ [Next]_vars => HoldInv'
<1> SUFFICES ASSUME TypeOK, HoldInv, [Next]_vars PROVE HoldInv'
  OBVIOUS
<1> USE DEF sessionVars, startVars, callVars, waitVars, wireVars, HoldInv, StartIsAlone, ClosedIsRaced
<1>0. ASSUME UNCHANGED <<sessionVars, startVars>> PROVE HoldInv'
  BY <1>0
<1>1. ASSUME NEW c \in Call, CallMade(c) \/ Answering(c) \/ Reply(c) PROVE HoldInv'
  BY <1>0, <1>1 DEF CallMade, Answering, Reply, EncodeFails, Encoded, Published, PublishFailed,
                    TimerFires, GotReply, Decoded
<1>2. CASE Recover
  BY <1>2 DEF Recover
<1>3. CASE Started
  BY <1>3 DEF Started, TypeOK
<1>4. CASE StartFails
  BY <1>4 DEF StartFails
<1>5. CASE Close
  BY <1>5 DEF Close, CloseChannel
<1>6. CASE ConnectionLost \/ Reconnected \/ GivesUp
  BY <1>6 DEF ConnectionLost, Reconnected, GivesUp
<1>7. ASSUME NEW n \in Channel, ChannelClosed(n) PROVE HoldInv'
  BY <1>7 DEF ChannelClosed
<1>8. CASE UNCHANGED vars
  BY <1>0, <1>8 DEF vars
<1>. QED
  BY <1>1, <1>2, <1>3, <1>4, <1>5, <1>6, <1>7, <1>8 DEF Next, Environment

\* However start, recover, close and lost connections interleave, the client holds one
\* channel at most, and a closed client none, unless it was closed while start was under way.
THEOREM OneChannelUnlessRaced == Spec => []LeaksWhenRaced
<1>1. HoldInv => LeaksWhenRaced
  BY DEF HoldInv, ClosedIsRaced, LeaksWhenRaced
<1>. QED
  BY <1>1, InitType, StepType, InitHold, StepHold, PTL DEF Spec

----------------------------------------------------------------------------
(* Stranded calls *)

\* The broker took the request of a waiting call on a channel that is still open, as long
\* as there is neither a lost connection to recover from nor a channel the broker closed.
WaitsOnOpen ==
    conn = "up" /\ ~due /\ ch \notin lone => \A c \in pending \ refused : sentOn[c] \in open
\* After close nothing more is sent on a channel of the client.
ClosedSendsNothing ==
    closed => /\ pending \subseteq refused
              /\ \A c \in encoding : sentOn[c] \notin open
\* A client that was never started has no calls.
NoStartNoCall == ~tracked /\ ~closed => ch = 0 /\ open = {} /\ encoding \cup pending = {}
StrandInv == WaitsOnOpen /\ ClosedSendsNothing /\ NoStartNoCall

LEMMA InitStrand == Init => StrandInv
BY DEF Init, StrandInv, WaitsOnOpen, ClosedSendsNothing, NoStartNoCall

LEMMA StepStrand == TypeOK /\ HoldInv /\ StrandInv /\ [Next]_vars => StrandInv'
<1> SUFFICES ASSUME TypeOK, HoldInv, StrandInv, [Next]_vars PROVE StrandInv'
  OBVIOUS
<1> USE DEF sessionVars, startVars, callVars, waitVars, wireVars,
            StrandInv, WaitsOnOpen, ClosedSendsNothing, NoStartNoCall
<1>0. ASSUME UNCHANGED <<sessionVars, startVars, sentOn>>, encoding' \subseteq encoding,
             pending' \subseteq pending, pending' \cap refused \subseteq refused'
      PROVE  StrandInv'
  BY <1>0
<1>1. ASSUME NEW c \in Call, CallMade(c) PROVE StrandInv'
  BY <1>1 DEF CallMade, TypeOK
<1>2. ASSUME NEW c \in Call, Encoded(c) PROVE StrandInv'
  BY <1>2 DEF Encoded, TypeOK
<1>3. ASSUME NEW c \in Call, EncodeFails(c) \/ Published(c) \/ PublishFailed(c) \/ TimerFires(c)
                             \/ GotReply(c) \/ Decoded(c) \/ Reply(c)
      PROVE  StrandInv'
  BY <1>0, <1>3 DEF EncodeFails, Published, PublishFailed, TimerFires, GotReply, Decoded, Reply,
                    RejectEntry
<1>4. CASE Recover
  BY <1>4 DEF Recover, RejectAllPending, HoldInv, StartIsAlone
<1>5. CASE Started
  <2>1. /\ pending \subseteq refused /\ open = {}
        /\ \A c \in encoding : sentOn[c] # channels + 1
    BY <1>5 DEF Started, HoldInv, StartIsAlone, TypeOK
  <2>. QED
    BY <1>5, <2>1 DEF Started
<1>6. CASE StartFails
  BY <1>6 DEF StartFails
<1>7. CASE Close
  BY <1>7 DEF Close, CloseChannel, RejectAllPending, HoldInv
<1>8. CASE ConnectionLost \/ Reconnected \/ GivesUp
  BY <1>8 DEF ConnectionLost, Reconnected, GivesUp, HoldInv, StartIsAlone
<1>9. ASSUME NEW n \in Channel, ChannelClosed(n) PROVE StrandInv'
  BY <1>9 DEF ChannelClosed, HoldInv
<1>10. CASE UNCHANGED vars
  BY <1>0, <1>10 DEF vars
<1>. QED
  BY <1>1, <1>2, <1>3, <1>4, <1>5, <1>6, <1>7, <1>8, <1>9, <1>10 DEF Next, Answering, Environment

\* A call waits on a channel that is gone, without a timer and with its request written,
\* only until the recovery, or because the session has given up, or because the broker has
\* closed the channel alone, which nothing tells the client.
THEOREM StrandedForCauseHolds == Spec => []StrandedForCause
<1>1. TypeOK /\ StrandInv => StrandedForCause
  BY DEF TypeOK, StrandInv, WaitsOnOpen, StrandedForCause
<1>. QED
  BY <1>1, InitType, StepType, InitHold, StepHold, InitStrand, StepStrand, PTL DEF Spec
=============================================================================
