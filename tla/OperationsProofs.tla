--------------------------- MODULE OperationsProofs ---------------------------
(***************************************************************************)
(* Operations for any set of operations and any number of channels and of  *)
(* lost connections: types, the turns of the ops channel, its one channel  *)
(* and one handle, and the causes of failures.                             *)
(***************************************************************************)
EXTENDS Operations, OneMessage, TLAPS

USE OperationsAssumption

----------------------------------------------------------------------------
(* Types *)

\* A function stays one if it is changed at one point.
LEMMA Updated ==
    ASSUME NEW S, NEW T, NEW f \in [S -> T], NEW x, NEW v \in T
    PROVE  [f EXCEPT ![x] = v] \in [S -> T]
OBVIOUS

LEMMA InitType == Init => TypeOK
<1> SUFFICES ASSUME Init PROVE TypeOK
  OBVIOUS
<1>1. calls \in Seq(Op) /\ wire \in [Channel -> Seq(Op)]
  BY DEF Init
<1>. QED
  BY <1>1 DEF Init, TypeOK, Kind, Place, Role, Phase

\* Asking for a channel keeps the types of what it changes.
LEMMA GetChannelType ==
    ASSUME TypeOK, NEW o \in Op, NEW r \in Role, GetChannel(o, r)
    PROVE  /\ place' \in [Op -> Place] /\ on' \in [Op -> Channel \cup {None}]
           /\ result' \in [Op -> {"none", "ok", "closed", "blocked", "nacked"}]
           /\ slotPromise' \in [Role -> Channel \cup {None}]
           /\ role' \in [Channel -> Role] /\ phase' \in [Channel -> Phase]
           /\ disturbed' \in SUBSET Op
<1>1. CASE Stored(r) /\ Await(o, slot[r]) /\ UNCHANGED <<result, slotPromise, role, phase, disturbed>>
  BY <1>1 DEF Stored, Await, TypeOK, Place
<1>2. CASE Shared(r) /\ Await(o, slotPromise[r]) /\ UNCHANGED <<result, slotPromise, role, phase, disturbed>>
  BY <1>2 DEF Shared, Await, TypeOK, Place
<1>3. ASSUME NEW c \in Channel, OpenChannel(o, r, c), UNCHANGED <<result, disturbed>>
      PROVE  /\ place' \in [Op -> Place] /\ on' \in [Op -> Channel \cup {None}]
             /\ slotPromise' \in [Role -> Channel \cup {None}]
             /\ role' \in [Channel -> Role] /\ phase' \in [Channel -> Phase]
  BY <1>3 DEF OpenChannel, Await, TypeOK, Place, Phase
<1>4. CASE Settle(o, "closed") /\ disturbed' = disturbed \cup {o} /\ UNCHANGED <<on, slotPromise, role, phase>>
  BY <1>4 DEF Settle, TypeOK, Place
<1>5. \/ Stored(r) /\ Await(o, slot[r]) /\ UNCHANGED <<result, slotPromise, role, phase, disturbed>>
      \/ Shared(r) /\ Await(o, slotPromise[r]) /\ UNCHANGED <<result, slotPromise, role, phase, disturbed>>
      \/ (\E c \in Channel : OpenChannel(o, r, c)) /\ UNCHANGED <<result, disturbed>>
      \/ Settle(o, "closed") /\ disturbed' = disturbed \cup {o} /\ UNCHANGED <<on, slotPromise, role, phase>>
  BY DEF GetChannel
<1>. QED
  BY <1>1, <1>2, <1>3, <1>4, <1>5 DEF TypeOK

\* Rejecting what awaits an answer keeps the types.
LEMMA RejectAllType ==
    ASSUME TypeOK, NEW cs, RejectAll(cs)
    PROVE  /\ place' \in [Op -> Place]
           /\ result' \in [Op -> {"none", "ok", "closed", "blocked", "nacked"}]
BY DEF RejectAll, TypeOK, Place

LEMMA AnswerType ==
    ASSUME TypeOK, NEW o \in Op, Answer(o)
    PROVE  /\ place' \in [Op -> Place]
           /\ result' \in [Op -> {"none", "ok", "closed", "blocked", "nacked"}]
           /\ queues' \in Op \cup {None}
           /\ handle' \in [Op -> [made : Op \cup {None}, age : Nat]]
<1>1. place' \in [Op -> Place] /\ result' \in [Op -> {"none", "ok", "closed", "blocked", "nacked"}]
  BY DEF Answer, TypeOK, Place
<1>2. queues' \in Op \cup {None}
  BY DEF Answer, TypeOK, Existing
<1>3. handle' = handle \/ handle' = [handle EXCEPT ![o] = [made |-> queues', age |-> removals]]
  BY DEF Answer
<1>4. [made |-> queues', age |-> removals] \in [made : Op \cup {None}, age : Nat]
  BY <1>2 DEF TypeOK
<1>5. handle' \in [Op -> [made : Op \cup {None}, age : Nat]]
  <2>1. handle \in [Op -> [made : Op \cup {None}, age : Nat]]
    BY DEF TypeOK
  <2>2. [handle EXCEPT ![o] = [made |-> queues', age |-> removals]]
            \in [Op -> [made : Op \cup {None}, age : Nat]]
    BY <1>4, <2>1, Updated
  <2>. QED
    BY <1>3, <2>1, <2>2
<1>. QED
  BY <1>1, <1>2, <1>5

LEMMA StepType == TypeOK /\ [Next]_vars => TypeOK'
<1> SUFFICES ASSUME TypeOK, [Next]_vars PROVE TypeOK'
  OBVIOUS
<1> USE DEF plan, ops, chain, slots, channels, conn, handles, history
<1>1. ASSUME NEW o \in Op, Call(o) PROVE TypeOK'
  <2>1. CASE Settle(o, "ok") /\ handle' = [handle EXCEPT ![o] = [made |-> queues, age |-> removals]] /\ UNCHANGED chain
    BY <1>1, <2>1 DEF Call, Settle, TypeOK, Place
  <2>2. CASE /\ place' = [place EXCEPT ![o] = "queued"]
             /\ after' = [after EXCEPT ![o] = opsLock] /\ opsLock' = o
             /\ calls' = Append(calls, o) /\ UNCHANGED <<result, handle>>
    <3>1. calls' \in Seq(Op)
      BY <2>2 DEF TypeOK
    <3>. QED
      BY <1>1, <2>2, <3>1 DEF Call, TypeOK, Place
  <2>. QED
    BY <1>1, <2>1, <2>2 DEF Call
<1>2. ASSUME NEW o \in Op, Acquire(o) PROVE TypeOK'
  BY <1>2, GetChannelType DEF Acquire, TypeOK, Role
<1>3. ASSUME NEW o \in Op, Confirmed(o) PROVE TypeOK'
  BY <1>3, GetChannelType DEF Confirmed, TypeOK, Role
<1>4. ASSUME NEW o \in Op, Start(o) PROVE TypeOK'
  <2>1. CASE Settle(o, "closed") /\ UNCHANGED <<wire, blockedInVain>>
    BY <1>4, <2>1 DEF Start, Settle, TypeOK, Place
  <2>2. CASE /\ Settle(o, "blocked")
             /\ blockedInVain' = (IF alarm THEN blockedInVain ELSE blockedInVain \cup {o})
             /\ UNCHANGED wire
    <3>1. blockedInVain' \in SUBSET Op
      BY <2>2 DEF TypeOK
    <3>. QED
      BY <1>4, <2>2, <3>1 DEF Start, Settle, TypeOK, Place
  <2>3. CASE /\ place' = [place EXCEPT ![o] = "sent"]
             /\ wire' = [wire EXCEPT ![on[o]] = Append(@, o)]
             /\ UNCHANGED <<result, blockedInVain>>
    <3>1. wire' \in [Channel -> Seq(Op)]
      <4>1. CASE on[o] \in Channel
        <5>1. Append(wire[on[o]], o) \in Seq(Op)
          BY <4>1 DEF TypeOK
        <5>. QED
          BY <2>3, <4>1, <5>1 DEF TypeOK
      <4>2. CASE on[o] \notin Channel
        BY <2>3, <4>2 DEF TypeOK
      <4>. QED
        BY <4>1, <4>2
    <3>. QED
      BY <1>4, <2>3, <3>1 DEF Start, TypeOK, Place
  <2>. QED
    BY <1>4, <2>1, <2>2, <2>3 DEF Start
<1>5. ASSUME NEW o \in Op, StartFailed(o) PROVE TypeOK'
  BY <1>5 DEF StartFailed, Settle, TypeOK, Place
<1>6. ASSUME NEW o \in Op, Written(o) PROVE TypeOK'
  BY <1>6 DEF Written, Settle, TypeOK, Place
<1>7. ASSUME NEW o \in Op, DeleteReturned(o) PROVE TypeOK'
  BY <1>7 DEF DeleteReturned, TypeOK, Place
<1>8. ASSUME NEW c \in Channel, Opened(c) PROVE TypeOK'
  <2>1. phase' \in [Channel -> Phase]
    BY <1>8 DEF Opened, TypeOK, Phase
  <2>2. /\ [slot EXCEPT !["ops"] = c] \in [Role -> Channel \cup {None}]
        /\ [slotPromise EXCEPT !["ops"] = None] \in [Role -> Channel \cup {None}]
    BY Updated DEF TypeOK
  <2>3. slot' \in [Role -> Channel \cup {None}] /\ slotPromise' \in [Role -> Channel \cup {None}]
    <3>1. \/ UNCHANGED <<slot, slotPromise>>
          \/ /\ slot' = [slot EXCEPT !["ops"] = c]
             /\ slotPromise' = [slotPromise EXCEPT !["ops"] = None]
      BY <1>8 DEF Opened
    <3>. QED
      BY <2>2, <3>1 DEF TypeOK
  <2>. QED
    BY <1>8, <2>1, <2>3 DEF Opened, TypeOK
<1>9. ASSUME NEW c \in Channel, Selected(c) \/ OpeningFailed(c) PROVE TypeOK'
  <2>1. phase' \in [Channel -> Phase]
    BY <1>9 DEF Selected, OpeningFailed, TypeOK, Phase
  <2>2. /\ [slot EXCEPT !["confirm"] = c] \in [Role -> Channel \cup {None}]
        /\ [slotPromise EXCEPT !["confirm"] = None] \in [Role -> Channel \cup {None}]
        /\ [slotPromise EXCEPT ![role[c]] = None] \in [Role -> Channel \cup {None}]
    BY Updated DEF TypeOK
  <2>3. slot' \in [Role -> Channel \cup {None}] /\ slotPromise' \in [Role -> Channel \cup {None}]
    <3>1. slot' = slot \/ slot' = [slot EXCEPT !["confirm"] = c]
      BY <1>9 DEF Selected, OpeningFailed
    <3>2. \/ slotPromise' = [slotPromise EXCEPT !["confirm"] = None]
          \/ slotPromise' = [slotPromise EXCEPT ![role[c]] = None]
      BY <1>9 DEF Selected, OpeningFailed
    <3>. QED
      BY <2>2, <3>1, <3>2 DEF TypeOK
  <2>. QED
    BY <1>9, <2>1, <2>3 DEF Selected, OpeningFailed, TypeOK
<1>10. ASSUME NEW c \in Channel, OpenOk(c) \/ SelectOk(c) PROVE TypeOK'
  BY <1>10 DEF OpenOk, SelectOk, TypeOK, Phase
<1>11. ASSUME NEW c \in Channel, Process(c) PROVE TypeOK'
  <2> DEFINE o == Head(wire[c])
  <2>1. o \in Op /\ Tail(wire[c]) \in Seq(Op)
    BY <1>11 DEF Process, TypeOK
  <2>2. wire' \in [Channel -> Seq(Op)] /\ shut' \in SUBSET Channel
    <3>1. wire' = [wire EXCEPT ![c] = <<>>] \/ wire' = [wire EXCEPT ![c] = Tail(@)]
      BY <1>11 DEF Process
    <3>2. <<>> \in Seq(Op)
      OBVIOUS
    <3>3. wire' \in [Channel -> Seq(Op)]
      BY <2>1, <3>1, <3>2 DEF TypeOK
    <3>4. shut' = shut \/ shut' = shut \cup {c}
      BY <1>11 DEF Process
    <3>. QED
      BY <3>3, <3>4 DEF TypeOK
  <2>3. /\ place' \in [Op -> Place]
        /\ result' \in [Op -> {"none", "ok", "closed", "blocked", "nacked"}]
        /\ queues' \in Op \cup {None}
        /\ handle' \in [Op -> [made : Op \cup {None}, age : Nat]]
    <3>1. CASE RejectAll({c}) /\ UNCHANGED <<queues, handle>>
      BY <3>1, RejectAllType DEF TypeOK
    <3>2. CASE Answer(o)
      BY <2>1, <3>2, AnswerType
    <3>3. CASE UNCHANGED <<place, result, queues, handle>>
      BY <3>3 DEF TypeOK
    <3>4. CASE (Settle(o, "ok") \/ Settle(o, "nacked")) /\ UNCHANGED <<queues, handle>>
      BY <2>1, <3>4 DEF Settle, TypeOK, Place
    <3>. QED
      BY <1>11, <3>1, <3>2, <3>3, <3>4 DEF Process
  <2>. QED
    BY <1>11, <2>2, <2>3 DEF Process, TypeOK
<1>12. CASE ConnectionLost
  <2>1. phase' \in [Channel -> Phase] /\ wire' \in [Channel -> Seq(Op)]
    BY <1>12 DEF ConnectionLost, TypeOK, Phase
  <2>2. slot' \in [Role -> Channel \cup {None}] /\ slotPromise' \in [Role -> Channel \cup {None}]
    BY <1>12 DEF ConnectionLost
  <2>3. /\ place' \in [Op -> Place]
        /\ result' \in [Op -> {"none", "ok", "closed", "blocked", "nacked"}]
    BY <1>12, RejectAllType DEF ConnectionLost
  <2>4. shut' \in SUBSET Channel /\ disturbed' \in SUBSET Op
    BY <1>12 DEF ConnectionLost, TypeOK
  <2>5. up' \in BOOLEAN /\ losses' \in Nat /\ blocked' \in BOOLEAN /\ alarm' \in BOOLEAN
    <3>1. up' = FALSE /\ alarm' = FALSE /\ blocked' = blocked /\ losses' = losses + 1
      BY <1>12 DEF ConnectionLost
    <3>2. losses \in Nat /\ blocked \in BOOLEAN
      BY DEF TypeOK
    <3>3. losses' \in Nat
      BY <3>1, <3>2
    <3>. QED
      BY <3>1, <3>2, <3>3, Zenon
  <2>6. UNCHANGED <<kind, bad, on, opsLock, after, calls, role, queues, removals, handle, blockedInVain>>
    BY <1>12 DEF ConnectionLost
  <2>. QED
    BY <2>1, <2>2, <2>3, <2>4, <2>5, <2>6 DEF TypeOK
<1>13. CASE Reconnected \/ GotBlocked
  BY <1>13 DEF Reconnected, GotBlocked, TypeOK
<1>14. CASE GotUnblocked
  BY <1>14 DEF GotUnblocked, Unblocked, TypeOK
<1>15. CASE UNCHANGED vars
  BY <1>15 DEF vars, TypeOK
<1>. QED
  BY <1>1, <1>2, <1>3, <1>4, <1>5, <1>6, <1>7, <1>8, <1>9, <1>10, <1>11, <1>12, <1>13, <1>14, <1>15
     DEF Next, Application, Jobs, Writes, Broker

\* Every variable keeps its type, for any set of operations and any bounds.
THEOREM TypeCorrect == Spec => []TypeOK
BY InitType, StepType, PTL DEF Spec

----------------------------------------------------------------------------
(* What is on the wire *)

PlacesOn ==
    \A o \in Op : /\ place[o] \in {"new", "queued"} => on[o] = None
                  /\ place[o] \in {"opening", "sent"} => on[o] \in Channel
\* What the broker has not taken was sent on that channel and waits, but for unconfirmed
\* publishes, which are settled by their write.
Waits(o) == place[o] = "sent" \/ (kind[o] = "publish" /\ place[o] = "settled")
WireIsSent == \A c \in Channel : \A i \in DOMAIN wire[c] : on[wire[c][i]] = c /\ Waits(wire[c][i])
WireOnce == \A c \in Channel : \A i, j \in DOMAIN wire[c] : wire[c][i] = wire[c][j] => i = j
WireInv == PlacesOn /\ WireIsSent /\ WireOnce

LEMMA AppendElements ==
    ASSUME NEW S, NEW q \in Seq(S), NEW e \in S
    PROVE  /\ \A i \in DOMAIN Append(q, e) : \/ i \in DOMAIN q /\ Append(q, e)[i] = q[i]
                                             \/ i = Len(q) + 1 /\ Append(q, e)[i] = e
           /\ Len(Append(q, e)) = Len(q) + 1 /\ Append(q, e) # <<>>
           /\ DOMAIN q = 1 .. Len(q) /\ DOMAIN Append(q, e) = 1 .. (Len(q) + 1)
<1>1. /\ Len(Append(q, e)) = Len(q) + 1 /\ Len(q) \in Nat
      /\ DOMAIN q = 1 .. Len(q) /\ DOMAIN Append(q, e) = 1 .. (Len(q) + 1)
  OBVIOUS
<1>2. Append(q, e) # <<>>
  BY <1>1
<1>3. /\ \A i \in 1 .. Len(q) : Append(q, e)[i] = q[i]
      /\ Append(q, e)[Len(q) + 1] = e
  OBVIOUS
<1>4. ASSUME NEW i \in DOMAIN Append(q, e)
      PROVE  \/ i \in DOMAIN q /\ Append(q, e)[i] = q[i]
             \/ i = Len(q) + 1 /\ Append(q, e)[i] = e
  <2>1. CASE i = Len(q) + 1
    BY <1>3, <2>1
  <2>2. CASE i # Len(q) + 1
    <3>1. i \in 1 .. Len(q)
      BY <1>1, <2>2
    <3>. QED
      BY <1>1, <1>3, <3>1
  <2>. QED
    BY <2>1, <2>2
<1>5. \A i \in DOMAIN Append(q, e) : \/ i \in DOMAIN q /\ Append(q, e)[i] = q[i]
                                     \/ i = Len(q) + 1 /\ Append(q, e)[i] = e
  BY <1>4, Zenon
<1>. QED
  BY <1>1, <1>2, <1>5

\* Asking for a channel takes an operation that is not on the wire.
LEMMA GetChannelWire ==
    ASSUME TypeOK, WireInv, NEW o \in Op, place[o] \in {"new", "queued"}, NEW r \in Role,
           GetChannel(o, r), UNCHANGED <<wire, kind>>
    PROVE  WireInv'
<1>1. \/ place' = [place EXCEPT ![o] = "settled"] /\ on' = on
      \/ \E c \in Channel : place' = [place EXCEPT ![o] = "opening"] /\ on' = [on EXCEPT ![o] = c]
  BY DEF GetChannel, Await, OpenChannel, Settle, Stored, Shared, TypeOK
<1>2. PlacesOn'
  BY <1>1 DEF WireInv, PlacesOn, TypeOK
<1>3. WireIsSent'
  <2> SUFFICES ASSUME NEW d \in Channel, NEW i \in DOMAIN wire[d]
               PROVE  on'[wire[d][i]] = d /\ Waits(wire[d][i])'
    BY DEF WireIsSent
  <2>1. wire[d][i] \in Op /\ on[wire[d][i]] = d /\ Waits(wire[d][i])
    BY DEF WireInv, WireIsSent, TypeOK
  <2>2. wire[d][i] # o
    BY <2>1 DEF Waits
  <2>. QED
    BY <1>1, <2>1, <2>2 DEF Waits, TypeOK
<1>. QED
  BY <1>2, <1>3 DEF WireInv, WireOnce

\* Nothing on the wire but what was on it, and that waits as before.
LEMMA WireKept ==
    ASSUME TypeOK, WireInv, PlacesOn', UNCHANGED <<wire, kind, on>>,
           \A o \in Op : Waits(o) => Waits(o)'
    PROVE  WireInv'
<1>1. WireIsSent'
  <2> SUFFICES ASSUME NEW d \in Channel, NEW i \in DOMAIN wire[d]
               PROVE  on'[wire[d][i]] = d /\ Waits(wire[d][i])'
    BY DEF WireIsSent
  <2>. QED
    BY DEF WireInv, WireIsSent, TypeOK
<1>. QED
  BY <1>1 DEF WireInv, WireOnce

\* A channel that closes has nothing on the wire, and what awaited an answer on it is settled.
LEMMA WireCleared ==
    ASSUME TypeOK, WireInv, NEW cs \in SUBSET Channel, RejectAll(cs), UNCHANGED <<kind, on>>,
           wire' = [c \in Channel |-> IF c \in cs THEN <<>> ELSE wire[c]]
    PROVE  WireInv'
<1>1. PlacesOn'
  BY DEF RejectAll, WireInv, PlacesOn, TypeOK
<1>2. WireIsSent'
  <2> SUFFICES ASSUME NEW d \in Channel, NEW i \in DOMAIN wire'[d]
               PROVE  (on[wire[d][i]] = d /\ Waits(wire[d][i]))'
    BY DEF WireIsSent
  <2>1. d \notin cs /\ wire'[d] = wire[d]
    BY DEF TypeOK
  <2>2. wire[d][i] \in Op /\ on[wire[d][i]] = d /\ Waits(wire[d][i])
    BY <2>1 DEF WireInv, WireIsSent, TypeOK
  <2>3. place'[wire[d][i]] = place[wire[d][i]]
    BY <2>1, <2>2 DEF RejectAll, Rejected
  <2>. QED
    BY <2>1, <2>2, <2>3 DEF Waits
<1>3. WireOnce'
  BY DEF WireInv, WireOnce, TypeOK
<1>. QED
  BY <1>1, <1>2, <1>3 DEF WireInv

\* The broker takes the first frame of a channel, whose operation goes on.
LEMMA WireTaken ==
    ASSUME TypeOK, WireInv, NEW c \in Channel, wire[c] # <<>>,
           wire' = [wire EXCEPT ![c] = Tail(@)], UNCHANGED <<kind, on>>,
           \/ UNCHANGED place
           \/ \E to \in {"returned", "settled"} : place' = [place EXCEPT ![Head(wire[c])] = to]
    PROVE  WireInv'
<1> DEFINE o == Head(wire[c])
<1>1. wire[c] \in Seq(Op) /\ o = wire[c][1] /\ 1 \in DOMAIN wire[c] /\ o \in Op /\ on[o] = c
  BY DEF WireInv, WireIsSent, TypeOK
<1>2. PlacesOn'
  BY <1>1 DEF WireInv, PlacesOn, TypeOK
<1>3. \A i \in DOMAIN wire'[c] : /\ i + 1 \in DOMAIN wire[c] /\ wire'[c][i] = wire[c][i + 1]
                                 /\ wire'[c][i] # o
  BY <1>1 DEF WireInv, WireOnce, TypeOK
<1>4. WireIsSent'
  <2> SUFFICES ASSUME NEW d \in Channel, NEW i \in DOMAIN wire'[d]
               PROVE  (on[wire[d][i]] = d /\ Waits(wire[d][i]))'
    BY DEF WireIsSent
  <2>1. wire'[d][i] \in Op /\ on[wire'[d][i]] = d /\ Waits(wire'[d][i]) /\ wire'[d][i] # o
    <3>1. CASE d = c
      BY <1>1, <1>3, <3>1 DEF WireInv, WireIsSent, TypeOK
    <3>2. CASE d # c
      BY <1>1, <3>2 DEF WireInv, WireIsSent, TypeOK
    <3>. QED
      BY <3>1, <3>2
  <2>2. place'[wire'[d][i]] = place[wire'[d][i]]
    BY <2>1 DEF TypeOK
  <2>. QED
    BY <2>1, <2>2 DEF Waits
<1>5. WireOnce'
  <2> SUFFICES ASSUME NEW d \in Channel, NEW i \in DOMAIN wire'[d], NEW j \in DOMAIN wire'[d],
                      wire'[d][i] = wire'[d][j]
               PROVE  i = j
    BY DEF WireOnce
  <2>1. CASE d = c
    BY <1>1, <1>3, <2>1 DEF WireInv, WireOnce, TypeOK
  <2>2. CASE d # c
    BY <2>2 DEF WireInv, WireOnce, TypeOK
  <2>. QED
    BY <2>1, <2>2
<1>. QED
  BY <1>2, <1>4, <1>5 DEF WireInv

\* A frame is written: its operation was on no wire.
LEMMA WireAppended ==
    ASSUME TypeOK, WireInv, NEW o \in Op, place[o] = "opening", place' = [place EXCEPT ![o] = "sent"],
           wire' = [wire EXCEPT ![on[o]] = Append(@, o)], UNCHANGED <<kind, on>>
    PROVE  WireInv'
<1> DEFINE c == on[o]
<1>1. c \in Channel /\ wire[c] \in Seq(Op)
  BY DEF WireInv, PlacesOn, TypeOK
<1>2. \A d \in Channel : \A i \in DOMAIN wire[d] :
          wire[d][i] \in Op /\ wire[d][i] # o /\ on[wire[d][i]] = d /\ Waits(wire[d][i])
  BY DEF WireInv, WireIsSent, Waits, TypeOK
<1>3. PlacesOn'
  BY <1>1 DEF WireInv, PlacesOn, TypeOK
<1>4. \A i \in DOMAIN wire'[c] : \/ i \in DOMAIN wire[c] /\ wire'[c][i] = wire[c][i]
                                 \/ i = Len(wire[c]) + 1 /\ wire'[c][i] = o
  <2>1. wire'[c] = Append(wire[c], o)
    BY <1>1 DEF TypeOK
  <2>. QED
    BY <1>1, <2>1, AppendElements
<1>5. \A d \in Channel \ {c} : wire'[d] = wire[d]
  BY DEF TypeOK
<1>6. WireIsSent'
  <2> SUFFICES ASSUME NEW d \in Channel, NEW i \in DOMAIN wire'[d]
               PROVE  (on[wire[d][i]] = d /\ Waits(wire[d][i]))'
    BY DEF WireIsSent
  <2>1. CASE wire'[d][i] = o
    BY <1>2, <1>5, <2>1 DEF Waits, TypeOK
  <2>2. CASE wire'[d][i] # o
    <3>1. i \in DOMAIN wire[d] /\ wire'[d][i] = wire[d][i]
      BY <1>4, <1>5, <2>2
    <3>. QED
      BY <1>2, <3>1 DEF Waits, TypeOK
  <2>. QED
    BY <2>1, <2>2
<1>7. WireOnce'
  <2> SUFFICES ASSUME NEW d \in Channel, NEW i \in DOMAIN wire'[d], NEW j \in DOMAIN wire'[d],
                      wire'[d][i] = wire'[d][j]
               PROVE  i = j
    BY DEF WireOnce
  <2>1. CASE d = c
    BY <1>1, <1>2, <1>4, <2>1 DEF WireInv, WireOnce
  <2>2. CASE d # c
    BY <1>5, <2>2 DEF WireInv, WireOnce
  <2>. QED
    BY <2>1, <2>2
<1>. QED
  BY <1>3, <1>6, <1>7 DEF WireInv

LEMMA InitWire == Init => WireInv
BY DEF Init, WireInv, PlacesOn, WireIsSent, WireOnce

LEMMA StepWire == TypeOK /\ WireInv /\ [Next]_vars => WireInv'
<1> SUFFICES ASSUME TypeOK, WireInv, [Next]_vars PROVE WireInv'
  OBVIOUS
<1> USE DEF plan, ops, chain, slots, channels, conn, handles, history
<1>0. ASSUME UNCHANGED <<wire, kind, on, place>> PROVE WireInv'
  BY <1>0 DEF WireInv, PlacesOn, WireIsSent, WireOnce, Waits
<1>1. ASSUME NEW o \in Op, Call(o) PROVE WireInv'
  <2>1. place[o] = "new" /\ UNCHANGED <<wire, kind, on>>
    BY <1>1 DEF Call
  <2>2. place' = [place EXCEPT ![o] = "settled"] \/ place' = [place EXCEPT ![o] = "queued"]
    BY <1>1 DEF Call, Settle
  <2>3. PlacesOn'
    BY <2>1, <2>2 DEF WireInv, PlacesOn, TypeOK
  <2>4. \A p \in Op : Waits(p) => Waits(p)'
    BY <2>1, <2>2 DEF Waits, TypeOK
  <2>. QED
    BY <2>1, <2>3, <2>4, WireKept
<1>2. ASSUME NEW o \in Op, Acquire(o) \/ Confirmed(o) PROVE WireInv'
  BY <1>2, GetChannelWire DEF Acquire, Confirmed, Role
<1>3. ASSUME NEW o \in Op, Start(o) PROVE WireInv'
  <2>1. CASE place' = [place EXCEPT ![o] = "settled"] /\ UNCHANGED wire
    <3>1. place[o] = "opening" /\ UNCHANGED <<kind, on>>
      BY <1>3 DEF Start
    <3>2. PlacesOn'
      BY <2>1, <3>1 DEF WireInv, PlacesOn, TypeOK
    <3>3. \A p \in Op : Waits(p) => Waits(p)'
      BY <2>1, <3>1 DEF Waits, TypeOK
    <3>. QED
      BY <2>1, <3>1, <3>2, <3>3, WireKept
  <2>2. CASE place' = [place EXCEPT ![o] = "sent"] /\ wire' = [wire EXCEPT ![on[o]] = Append(@, o)]
    BY <1>3, <2>2, WireAppended DEF Start
  <2>. QED
    BY <1>3, <2>1, <2>2 DEF Start, Settle
<1>4. ASSUME NEW o \in Op, StartFailed(o) \/ Written(o) \/ DeleteReturned(o) PROVE WireInv'
  <2>1. /\ place' = [place EXCEPT ![o] = "settled"] /\ UNCHANGED <<wire, kind, on>>
        /\ place[o] \in {"opening", "returned"} \/ (place[o] = "sent" /\ kind[o] = "publish")
    BY <1>4 DEF StartFailed, Written, DeleteReturned, Settle
  <2>2. PlacesOn'
    BY <2>1 DEF WireInv, PlacesOn, TypeOK
  <2>3. \A p \in Op : Waits(p) => Waits(p)'
    BY <2>1 DEF Waits, TypeOK
  <2>. QED
    BY <2>1, <2>2, <2>3, WireKept
<1>5. ASSUME NEW c \in Channel, Opened(c) \/ Selected(c) \/ OpeningFailed(c) \/ OpenOk(c) \/ SelectOk(c)
      PROVE  WireInv'
  BY <1>0, <1>5 DEF Opened, Selected, OpeningFailed, OpenOk, SelectOk
<1>6. ASSUME NEW c \in Channel, Process(c) PROVE WireInv'
  <2>1. wire[c] # <<>> /\ UNCHANGED <<kind, on>>
    BY <1>6 DEF Process
  <2>2. CASE RejectAll({c}) /\ wire' = [wire EXCEPT ![c] = <<>>]
    <3>1. wire' = [d \in Channel |-> IF d \in {c} THEN <<>> ELSE wire[d]]
      BY <2>2 DEF TypeOK
    <3>. QED
      BY <2>1, <2>2, <3>1, WireCleared
  <2>3. CASE /\ wire' = [wire EXCEPT ![c] = Tail(@)]
             /\ \/ UNCHANGED place
                \/ \E to \in {"returned", "settled"} : place' = [place EXCEPT ![Head(wire[c])] = to]
    BY <2>1, <2>3, WireTaken
  <2>. QED
    BY <1>6, <2>2, <2>3 DEF Process, Answer, Settle
<1>7. CASE ConnectionLost
  <2>1. wire' = [c \in Channel |-> IF c \in Channel THEN <<>> ELSE wire[c]]
    BY <1>7 DEF ConnectionLost
  <2>. QED
    BY <1>7, <2>1, WireCleared DEF ConnectionLost
<1>8. CASE Reconnected \/ GotBlocked \/ GotUnblocked
  BY <1>0, <1>8 DEF Reconnected, GotBlocked, GotUnblocked
<1>9. CASE UNCHANGED vars
  BY <1>0, <1>9 DEF vars
<1>. QED
  BY <1>1, <1>2, <1>3, <1>4, <1>5, <1>6, <1>7, <1>8, <1>9 DEF Next, Application, Jobs, Writes, Broker

----------------------------------------------------------------------------
(* The turns of the ops channel *)

\* calls, opsLock and after are one list: each operation hangs on the one called before.
CalledOnce == \A i, j \in DOMAIN calls : calls[i] = calls[j] => i = j
LockIsLast == opsLock = IF calls = <<>> THEN None ELSE calls[Len(calls)]
ChainFollowsCalls == \A i \in DOMAIN calls : after[calls[i]] = IF i = 1 THEN None ELSE calls[i - 1]
QueuedAreCalled == \A o \in Op : place[o] = "queued" => Called(o)
NewAreNotCalled == \A o \in Op : place[o] = "new" => ~Called(o)
\* An operation that has begun has none before it that is not over.
OneAtATime == \A i, j \in DOMAIN calls : j < i /\ place[calls[i]] # "queued" => Over(calls[j])
TurnInv ==
    /\ CalledOnce /\ LockIsLast /\ ChainFollowsCalls
    /\ QueuedAreCalled /\ NewAreNotCalled /\ OneAtATime

\* What a step does to the places: one operation is called, or one begins, or operations
\* that have begun, or are not called at all, go on.
Calls(o) ==
    /\ place[o] = "new" /\ OnOps(o) /\ place' = [place EXCEPT ![o] = "queued"]
    /\ after' = [after EXCEPT ![o] = opsLock] /\ opsLock' = o /\ calls' = Append(calls, o)
Begins(o) ==
    /\ UNCHANGED chain
    /\ place[o] = "queued" /\ ItsTurn(o) /\ place'[o] \in {"opening", "settled"}
    /\ \A p \in Op : p # o => place'[p] = place[p]
GoesOn(o) ==
    \/ place'[o] = place[o]
    \/ place[o] \in {"opening", "sent"} /\ place'[o] \in {"sent", "returned", "settled"}
    \/ Over(o) /\ place'[o] \in {"returned", "settled"}
    \/ place[o] = "new" /\ place'[o] \in {"opening", "settled"}

LEMMA GetChannelPlaces ==
    ASSUME TypeOK, NEW o \in Op, NEW r, GetChannel(o, r)
    PROVE  place'[o] \in {"opening", "settled"} /\ \A p \in Op : p # o => place'[p] = place[p]
<1>1. place' = [place EXCEPT ![o] = "opening"] \/ place' = [place EXCEPT ![o] = "settled"]
  BY DEF GetChannel, Await, OpenChannel, Settle
<1>. QED
  BY <1>1 DEF TypeOK

LEMMA StepPlaces ==
    ASSUME TypeOK, WireInv, [Next]_vars
    PROVE  \/ \E o \in Op : Calls(o)
           \/ \E o \in Op : Begins(o)
           \/ UNCHANGED chain /\ \A o \in Op : GoesOn(o)
<1> USE DEF plan, ops, chain, slots, channels, conn, handles, history
<1>0. ASSUME UNCHANGED place PROVE \A o \in Op : GoesOn(o)
  BY <1>0 DEF GoesOn
<1>1. ASSUME NEW o \in Op, Call(o) PROVE Calls(o) \/ (UNCHANGED chain /\ \A p \in Op : GoesOn(p))
  <2>1. CASE Settle(o, "ok") /\ UNCHANGED chain
    BY <1>1, <2>1 DEF Call, Settle, GoesOn, TypeOK
  <2>. QED
    BY <1>1, <2>1 DEF Call, Calls
<1>2. ASSUME NEW o \in Op, Acquire(o) PROVE Begins(o)
  BY <1>2, GetChannelPlaces DEF Acquire, Begins
<1>3. ASSUME NEW o \in Op, Confirmed(o) PROVE UNCHANGED chain /\ \A p \in Op : GoesOn(p)
  BY <1>3, GetChannelPlaces DEF Confirmed, GoesOn
<1>4. ASSUME NEW o \in Op, Start(o) PROVE UNCHANGED chain /\ \A p \in Op : GoesOn(p)
  BY <1>4 DEF Start, Settle, GoesOn, TypeOK
<1>5. ASSUME NEW o \in Op, StartFailed(o) \/ Written(o) PROVE UNCHANGED chain /\ \A p \in Op : GoesOn(p)
  BY <1>5 DEF StartFailed, Written, Settle, GoesOn, TypeOK
<1>6. ASSUME NEW o \in Op, DeleteReturned(o) PROVE UNCHANGED chain /\ \A p \in Op : GoesOn(p)
  BY <1>6 DEF DeleteReturned, GoesOn, Over, TypeOK
<1>7. ASSUME NEW c \in Channel, Opened(c) \/ Selected(c) \/ OpeningFailed(c) \/ OpenOk(c) \/ SelectOk(c)
      PROVE  UNCHANGED chain /\ UNCHANGED place
  BY <1>7 DEF Opened, Selected, OpeningFailed, OpenOk, SelectOk
<1>8. ASSUME NEW cs, RejectAll(cs) PROVE \A p \in Op : GoesOn(p)
  BY <1>8 DEF RejectAll, Rejected, GoesOn
<1>9. ASSUME NEW c \in Channel, Process(c) PROVE UNCHANGED chain /\ \A p \in Op : GoesOn(p)
  <2> DEFINE o == Head(wire[c])
  <2>1. UNCHANGED chain /\ o \in Op /\ Waits(o)
    BY <1>9 DEF Process, WireInv, WireIsSent, TypeOK
  <2>2. CASE RejectAll({c})
    BY <1>8, <2>1, <2>2
  <2>3. CASE UNCHANGED place
    BY <1>0, <2>1, <2>3
  <2>4. CASE kind[o] # "publish" /\ \E to \in {"returned", "settled"} : place' = [place EXCEPT ![o] = to]
    BY <2>1, <2>4 DEF GoesOn, Waits, TypeOK
  <2>. QED
    BY <1>9, <2>2, <2>3, <2>4 DEF Process, Answer, Settle, IsRpc, IsPublish
<1>10. CASE ConnectionLost
  BY <1>8, <1>10 DEF ConnectionLost
<1>11. CASE Reconnected \/ GotBlocked \/ GotUnblocked
  BY <1>0, <1>11 DEF Reconnected, GotBlocked, GotUnblocked
<1>12. CASE UNCHANGED vars
  BY <1>0, <1>12 DEF vars
<1>. QED
  BY <1>0, <1>1, <1>2, <1>3, <1>4, <1>5, <1>6, <1>7, <1>9, <1>10, <1>11, <1>12
     DEF Next, Application, Jobs, Writes, Broker

LEMMA InitTurns == Init => TurnInv
BY DEF Init, TurnInv, CalledOnce, LockIsLast, ChainFollowsCalls, QueuedAreCalled, NewAreNotCalled,
       OneAtATime, Called

\* A call goes to the end of the list.
LEMMA CallTurns ==
    ASSUME TypeOK, TurnInv, NEW o \in Op, Calls(o)
    PROVE  TurnInv'
<1>1. /\ calls \in Seq(Op) /\ calls' = Append(calls, o)
      /\ \A i \in DOMAIN calls' : \/ i \in DOMAIN calls /\ calls'[i] = calls[i]
                                  \/ i = Len(calls) + 1 /\ calls'[i] = o
      /\ Len(calls') = Len(calls) + 1 /\ calls' # <<>> /\ Len(calls) \in Nat
      /\ DOMAIN calls = 1 .. Len(calls) /\ DOMAIN calls' = 1 .. (Len(calls) + 1)
  BY AppendElements DEF Calls, TypeOK
<1>2. \A i \in DOMAIN calls : calls[i] \in Op /\ calls[i] # o
  BY <1>1 DEF Calls, TurnInv, NewAreNotCalled, Called
<1>3. \A i \in DOMAIN calls : calls'[i] = calls[i] /\ i # Len(calls) + 1
  BY <1>1
<1>4. calls'[Len(calls) + 1] = o
  BY <1>1
<1>5. CalledOnce'
  BY <1>1, <1>2 DEF CalledOnce, TurnInv
<1>6. LockIsLast'
  BY <1>1, <1>4 DEF LockIsLast, Calls
<1>7. ChainFollowsCalls'
  <2> SUFFICES ASSUME NEW i \in DOMAIN calls'
               PROVE  after'[calls'[i]] = IF i = 1 THEN None ELSE calls'[i - 1]
    BY DEF ChainFollowsCalls
  <2>1. CASE i \in DOMAIN calls
    <3>1. after'[calls[i]] = after[calls[i]]
      BY <1>2, <2>1 DEF Calls, TypeOK
    <3>2. i # 1 => i - 1 \in DOMAIN calls
      BY <1>1, <2>1
    <3>. QED
      BY <1>3, <2>1, <3>1, <3>2 DEF TurnInv, ChainFollowsCalls
  <2>2. CASE i = Len(calls) + 1
    <3>1. after'[o] = opsLock
      BY DEF Calls, TypeOK
    <3>2. CASE i = 1
      <4>1. calls = <<>>
        BY <1>1, <2>2, <3>2
      <4>. QED
        BY <1>4, <2>2, <3>1, <3>2, <4>1 DEF TurnInv, LockIsLast
    <3>3. CASE i # 1
      <4>1. i - 1 = Len(calls) /\ Len(calls) \in DOMAIN calls /\ calls # <<>>
        BY <1>1, <2>2, <3>3
      <4>. QED
        BY <1>3, <1>4, <2>2, <3>1, <3>3, <4>1 DEF TurnInv, LockIsLast
    <3>. QED
      BY <3>2, <3>3
  <2>. QED
    BY <1>1, <2>1, <2>2
<1>8. \A p \in Op : Called(p)' <=> Called(p) \/ p = o
  BY <1>1, <1>3, <1>4 DEF Called
<1>9. QueuedAreCalled' /\ NewAreNotCalled'
  BY <1>8 DEF TurnInv, QueuedAreCalled, NewAreNotCalled, Calls, TypeOK
<1>10. OneAtATime'
  <2> SUFFICES ASSUME NEW i \in DOMAIN calls', NEW j \in DOMAIN calls', j < i,
                      place'[calls'[i]] # "queued"
               PROVE  Over(calls[j])'
    BY DEF OneAtATime
  <2>1. place'[o] = "queued" /\ \A p \in Op : p # o => place'[p] = place[p]
    BY DEF Calls, TypeOK
  <2>2. i \in DOMAIN calls /\ j \in DOMAIN calls
    BY <1>1, <2>1
  <2>. QED
    BY <1>2, <1>3, <2>1, <2>2 DEF TurnInv, OneAtATime, Over
<1>. QED
  BY <1>5, <1>6, <1>7, <1>9, <1>10 DEF TurnInv

\* What begins has none before it that is not over: it hangs on the one just before, which
\* began in its turn.
LEMMA ItsTurnIsNext ==
    ASSUME TypeOK, TurnInv, NEW i \in DOMAIN calls, ItsTurn(calls[i]), NEW j \in DOMAIN calls, j < i
    PROVE  Over(calls[j])
<1>1. DOMAIN calls = 1 .. Len(calls) /\ Len(calls) \in Nat
  BY DEF TypeOK
<1>2. i - 1 \in DOMAIN calls /\ calls[i - 1] \in Op /\ after[calls[i]] = calls[i - 1]
  <2>1. i \in Nat /\ i # 1 /\ i - 1 \in DOMAIN calls
    BY <1>1
  <2>2. after[calls[i]] = calls[i - 1]
    BY <2>1 DEF TurnInv, ChainFollowsCalls
  <2>. QED
    BY <2>1, <2>2 DEF TypeOK
<1>3. Over(calls[i - 1])
  BY <1>2 DEF ItsTurn
<1>4. CASE j = i - 1
  BY <1>3, <1>4
<1>5. CASE j # i - 1
  <2>1. j < i - 1 /\ place[calls[i - 1]] # "queued"
    BY <1>1, <1>3, <1>5 DEF Over
  <2>. QED
    BY <1>2, <2>1 DEF TurnInv, OneAtATime
<1>. QED
  BY <1>4, <1>5

LEMMA BeginTurns ==
    ASSUME TypeOK, TurnInv, NEW o \in Op, Begins(o)
    PROVE  TurnInv'
<1>1. UNCHANGED <<opsLock, after, calls>> /\ CalledOnce' /\ LockIsLast' /\ ChainFollowsCalls'
  BY DEF Begins, chain, TurnInv, CalledOnce, LockIsLast, ChainFollowsCalls
<1>2. \A p \in Op : Called(p)' <=> Called(p)
  BY <1>1 DEF Called
<1>3. QueuedAreCalled' /\ NewAreNotCalled'
  BY <1>2 DEF TurnInv, QueuedAreCalled, NewAreNotCalled, Begins
<1>4. OneAtATime'
  <2> SUFFICES ASSUME NEW i \in DOMAIN calls, NEW j \in DOMAIN calls, j < i, place'[calls[i]] # "queued"
               PROVE  Over(calls[j])'
    BY <1>1 DEF OneAtATime
  <2>1. calls[i] \in Op /\ calls[j] \in Op
    BY DEF TypeOK
  <2>2. Over(calls[j])
    <3>1. CASE calls[i] = o
      BY <3>1, ItsTurnIsNext DEF Begins
    <3>2. CASE calls[i] # o
      BY <2>1, <3>2 DEF TurnInv, OneAtATime, Begins
    <3>. QED
      BY <3>1, <3>2
  <2>. QED
    BY <1>1, <2>1, <2>2 DEF Begins, Over
<1>. QED
  BY <1>1, <1>3, <1>4 DEF TurnInv

LEMMA GoOnTurns ==
    ASSUME TypeOK, TurnInv, UNCHANGED chain, \A o \in Op : GoesOn(o)
    PROVE  TurnInv'
<1>1. UNCHANGED <<opsLock, after, calls>> /\ CalledOnce' /\ LockIsLast' /\ ChainFollowsCalls'
  BY DEF chain, TurnInv, CalledOnce, LockIsLast, ChainFollowsCalls
<1>2. \A p \in Op : Called(p)' <=> Called(p)
  BY <1>1 DEF Called
<1>3. \A p \in Op : place'[p] = "queued" <=> place[p] = "queued"
  BY DEF GoesOn, Over
<1>3a. \A p \in Op : place'[p] = "new" => place[p] = "new"
  BY DEF GoesOn, Over
<1>3b. \A p \in Op : Over(p) => place'[p] \in {"returned", "settled"}
  BY DEF GoesOn, Over
<1>4. QueuedAreCalled' /\ NewAreNotCalled'
  BY <1>2, <1>3, <1>3a DEF TurnInv, QueuedAreCalled, NewAreNotCalled
<1>5. OneAtATime'
  <2> SUFFICES ASSUME NEW i \in DOMAIN calls, NEW j \in DOMAIN calls, j < i, place'[calls[i]] # "queued"
               PROVE  Over(calls[j])'
    BY <1>1 DEF OneAtATime
  <2>1. calls[i] \in Op /\ calls[j] \in Op
    BY DEF TypeOK
  <2>2. Over(calls[j])
    BY <1>3, <2>1 DEF TurnInv, OneAtATime
  <2>. QED
    BY <1>1, <1>3b, <2>1, <2>2 DEF Over
<1>. QED
  BY <1>1, <1>4, <1>5 DEF TurnInv

\* The three invariants so far, together
OpsInv == TypeOK /\ WireInv /\ TurnInv

LEMMA OpsInvariance == Spec => []OpsInv
<1>1. Init => OpsInv
  BY InitType, InitWire, InitTurns DEF OpsInv
<1>2. OpsInv /\ [Next]_vars => OpsInv'
  BY StepType, StepWire, StepPlaces, CallTurns, BeginTurns, GoOnTurns DEF OpsInv
<1>. QED
  BY <1>1, <1>2, PTL DEF Spec

----------------------------------------------------------------------------
(* withOpsChannel implements TakingTurns *)

LEMMA CallImplements ==
    ASSUME OpsInv, NEW o \in Op, Calls(o)
    PROVE  Turns!Next
<1>1. calls \in Seq(Op) /\ calls' = Append(calls, o) /\ ~Called(o)
  BY DEF OpsInv, TurnInv, NewAreNotCalled, Calls, TypeOK
<1>2. \A p \in Op : Called(p)' <=> Called(p) \/ p = o
  <2>1. \A i \in DOMAIN calls : i \in DOMAIN calls' /\ calls'[i] = calls[i]
    BY <1>1, AppendElements
  <2>2. Len(calls) + 1 \in DOMAIN calls' /\ calls'[Len(calls) + 1] = o
    BY <1>1, AppendElements
  <2>3. \A i \in DOMAIN calls' : i \in DOMAIN calls \/ calls'[i] = o
    BY <1>1, AppendElements
  <2>. QED
    BY <2>1, <2>2, <2>3 DEF Called
<1>3. \A p \in Op : Turn'[p] = IF p = o THEN "waiting" ELSE Turn[p]
  BY <1>1, <1>2 DEF Turn, Calls, OpsInv, TypeOK, Over
<1>4. Turn[o] = "none" /\ Turn' = [Turn EXCEPT ![o] = "waiting"]
  BY <1>1, <1>3 DEF Turn
<1>. QED
  BY <1>1, <1>4 DEF Turns!Next, Turns!Call

\* An operation whose turn it is begins, or ends at once if it gets no channel.
LEMMA BeginImplements ==
    ASSUME OpsInv, NEW o \in Op, Begins(o)
    PROVE  Turns!Next
<1>1. Called(o) /\ UNCHANGED calls
  BY DEF OpsInv, TurnInv, QueuedAreCalled, Begins, chain
<1>2. PICK i \in DOMAIN calls : calls[i] = o
  BY <1>1 DEF Called
<1>3. \A p \in Op : Called(p)' <=> Called(p)
  BY <1>1 DEF Called
<1>4. DOMAIN calls = 1 .. Len(calls) /\ Len(calls) \in Nat /\ \A j \in DOMAIN calls : calls[j] \in Op
  BY DEF OpsInv, TypeOK
<1>5. Turns!IsNext(i)
  <2> SUFFICES ASSUME NEW j \in 1 .. (i - 1) PROVE Turn[calls[j]] = "over"
    BY DEF Turns!IsNext
  <2>1. j \in DOMAIN calls /\ j < i
    BY <1>4
  <2>2. Over(calls[j])
    BY <1>2, <2>1, ItsTurnIsNext DEF Begins, OpsInv
  <2>. QED
    BY <1>4, <2>1, <2>2 DEF Turn, Called, Over
<1>6. Turn[calls[i]] = "waiting"
  BY <1>1, <1>2 DEF Turn, Begins
<1>7. CASE place'[o] = "opening"
  <2>1. Turn' = [Turn EXCEPT ![calls[i]] = "running"]
    BY <1>1, <1>2, <1>3, <1>7 DEF Turn, Begins, Over
  <2>. QED
    BY <1>1, <1>5, <1>6, <2>1 DEF Turns!Next, Turns!Begin
<1>8. CASE place'[o] = "settled"
  <2>1. Turn' = [Turn EXCEPT ![calls[i]] = "over"]
    BY <1>1, <1>2, <1>3, <1>8 DEF Turn, Begins, Over
  <2>. QED
    BY <1>1, <1>5, <1>6, <2>1 DEF Turns!Next, Turns!End
<1>. QED
  BY <1>7, <1>8 DEF Begins

\* Of the operations that go on one at most is called and not over: it may end.
LEMMA GoOnImplements ==
    ASSUME OpsInv, UNCHANGED chain, \A o \in Op : GoesOn(o)
    PROVE  Turns!Next \/ UNCHANGED Turns!vars
<1>1. UNCHANGED calls /\ \A p \in Op : Called(p)' <=> Called(p)
  BY DEF chain, Called
<1>2. DOMAIN calls = 1 .. Len(calls) /\ Len(calls) \in Nat /\ \A j \in DOMAIN calls : calls[j] \in Op
  BY DEF OpsInv, TypeOK
<1>3. \A p \in Op : Turn'[p] # Turn[p] => Turn[p] = "running" /\ Turn'[p] = "over"
  BY <1>1 DEF Turn, GoesOn, Over, OpsInv, TurnInv, NewAreNotCalled
<1>4. \A p, q \in Op : Turn[p] = "running" /\ Turn[q] = "running" => p = q
  <2> SUFFICES ASSUME NEW p \in Op, NEW q \in Op, Turn[p] = "running", Turn[q] = "running"
               PROVE  p = q
    OBVIOUS
  <2>1. /\ Called(p) /\ Called(q) /\ ~Over(p) /\ ~Over(q)
        /\ place[p] # "queued" /\ place[q] # "queued"
    BY DEF Turn
  <2>2. PICK i \in DOMAIN calls : calls[i] = p
    BY <2>1 DEF Called
  <2>3. PICK j \in DOMAIN calls : calls[j] = q
    BY <2>1 DEF Called
  <2>4. ~(i < j) /\ ~(j < i)
    BY <2>1, <2>2, <2>3 DEF OpsInv, TurnInv, OneAtATime
  <2>. QED
    BY <1>2, <2>2, <2>3, <2>4
<1>5. CASE Turn' = Turn
  BY <1>1, <1>5 DEF Turns!vars
<1>6. CASE Turn' # Turn
  <2>1. PICK o \in Op : Turn'[o] # Turn[o]
    BY <1>6 DEF Turn
  <2>2. Turn[o] = "running" /\ Turn'[o] = "over"
    BY <1>3, <2>1
  <2>3. \A p \in Op : p # o => Turn'[p] = Turn[p]
    BY <1>3, <1>4, <2>2
  <2>4. Turn' = [Turn EXCEPT ![o] = "over"]
    BY <2>2, <2>3 DEF Turn
  <2>5. PICK i \in DOMAIN calls : calls[i] = o
    BY <2>2 DEF Turn, Called
  <2>. QED
    BY <1>1, <2>2, <2>4, <2>5 DEF Turns!Next, Turns!End
<1>. QED
  BY <1>5, <1>6

\* The lock of the ops channel keeps the promise of TakingTurns for any operations: one at
\* a time, in the order of the calls, whether the ones before succeeded or failed.
THEOREM ImplementsTurns == Spec => TurnsSpec
<1>1. Init => Turns!Init
  BY DEF Init, Turns!Init, Turn, Called
<1>2. OpsInv /\ [Next]_vars => [Turns!Next]_Turns!vars
  BY StepPlaces, CallImplements, BeginImplements, GoOnImplements DEF OpsInv
<1>. QED
  BY <1>1, <1>2, OpsInvariance, PTL DEF Spec, TurnsSpec, Turns!Spec

----------------------------------------------------------------------------
(* Handles *)

HandlesAge == \A o \in Op : handle[o].age <= removals
\* A handle that was not removed since is the cached one.
HandleIsCached ==
    \A o \in Op : handle[o].made # None /\ handle[o].age = removals => handle[o].made = queues
HandleInv == HandlesAge /\ HandleIsCached /\ OneHandle

LEMMA HandleTyped ==
    ASSUME TypeOK, NEW o \in Op
    PROVE  handle[o].made \in Op \cup {None} /\ handle[o].age \in Nat
BY DEF TypeOK

\* The handle of the cache is given out, or a new one if there is none.
LEMMA HandleGiven ==
    ASSUME TypeOK, HandleInv, NEW o \in Op,
           queues' = queues \/ queues = None, removals' = removals,
           handle' = [handle EXCEPT ![o] = [made |-> queues', age |-> removals]]
    PROVE  HandleInv'
<1>1. /\ handle'[o].made = queues' /\ handle'[o].age = removals
      /\ \A p \in Op : p # o => handle'[p] = handle[p]
  BY DEF TypeOK
<1>2. removals \in Nat
  BY DEF TypeOK
<1>3. HandlesAge'
  BY <1>1, <1>2 DEF HandleInv, HandlesAge
<1>4. HandleIsCached'
  BY <1>1 DEF HandleInv, HandleIsCached
<1>5. OneHandle'
  <2> SUFFICES ASSUME NEW p \in Op, NEW q \in Op, handle'[p].made # None, handle'[q].made # None,
                      handle'[p].age = handle'[q].age
               PROVE  handle'[p].made = handle'[q].made
    BY DEF OneHandle
  <2>1. CASE p # o /\ q # o
    BY <1>1, <2>1 DEF HandleInv, OneHandle
  <2>2. CASE p = o \/ q = o
    BY <1>1, <1>4, <2>2 DEF HandleIsCached
  <2>. QED
    BY <2>1, <2>2
<1>. QED
  BY <1>3, <1>4, <1>5 DEF HandleInv

LEMMA StepHandle == TypeOK /\ HandleInv /\ [Next]_vars => HandleInv'
<1> SUFFICES ASSUME TypeOK, HandleInv, [Next]_vars PROVE HandleInv'
  OBVIOUS
<1> USE DEF plan, ops, chain, slots, channels, conn, handles, history
<1>0. ASSUME UNCHANGED <<queues, removals, handle>> PROVE HandleInv'
  BY <1>0 DEF HandleInv, HandlesAge, HandleIsCached, OneHandle
<1>1. ASSUME NEW o \in Op, Call(o) PROVE HandleInv'
  <2>1. CASE UNCHANGED handle
    BY <1>0, <1>1, <2>1 DEF Call
  <2>2. CASE handle' = [handle EXCEPT ![o] = [made |-> queues, age |-> removals]]
    BY <1>1, <2>2, HandleGiven DEF Call
  <2>. QED
    BY <1>1, <2>1, <2>2 DEF Call
<1>2. ASSUME NEW o \in Op, Acquire(o) \/ Confirmed(o) \/ Start(o) \/ StartFailed(o) \/ Written(o)
      PROVE  HandleInv'
  BY <1>0, <1>2 DEF Acquire, Confirmed, Start, StartFailed, Written
<1>3. ASSUME NEW o \in Op, DeleteReturned(o) PROVE HandleInv'
  <2>1. removals \in Nat /\ removals' = removals + 1 /\ UNCHANGED handle
    BY <1>3 DEF DeleteReturned, TypeOK
  <2>2. \A p \in Op : handle[p].age \in Nat /\ handle[p].age <= removals
    BY HandleTyped DEF HandleInv, HandlesAge
  <2>. QED
    BY <2>1, <2>2 DEF HandleInv, HandlesAge, HandleIsCached, OneHandle
<1>4. ASSUME NEW c \in Channel, Opened(c) \/ Selected(c) \/ OpeningFailed(c) \/ OpenOk(c) \/ SelectOk(c)
      PROVE  HandleInv'
  BY <1>0, <1>4 DEF Opened, Selected, OpeningFailed, OpenOk, SelectOk
<1>5. ASSUME NEW c \in Channel, Process(c) PROVE HandleInv'
  <2> DEFINE o == Head(wire[c])
  <2>1. CASE UNCHANGED <<queues, handle>>
    BY <1>0, <1>5, <2>1 DEF Process
  <2>2. CASE Answer(o) /\ kind[o] = "declare"
    <3>1. o \in Op /\ removals' = removals
      BY <1>5 DEF Process, TypeOK
    <3>2. /\ queues' = queues \/ queues = None
          /\ handle' = [handle EXCEPT ![o] = [made |-> queues', age |-> removals]]
      BY <2>2 DEF Answer, Existing
    <3>. QED
      BY <3>1, <3>2, HandleGiven
  <2>. QED
    BY <1>5, <2>1, <2>2 DEF Process, Answer
<1>6. CASE ConnectionLost \/ Reconnected \/ GotBlocked \/ GotUnblocked
  BY <1>0, <1>6 DEF ConnectionLost, Reconnected, GotBlocked, GotUnblocked
<1>7. CASE UNCHANGED vars
  BY <1>0, <1>7 DEF vars
<1>. QED
  BY <1>1, <1>2, <1>3, <1>4, <1>5, <1>6, <1>7 DEF Next, Application, Jobs, Writes, Broker

\* Of two calls of session.queue none gets a handle that is not the other's, unless the
\* handle was removed in between.
THEOREM OneHandleHolds == Spec => []OneHandle
<1>1. Init => HandleInv
  BY DEF Init, HandleInv, HandlesAge, HandleIsCached, OneHandle
<1>2. HandleInv => OneHandle
  BY DEF HandleInv
<1>. QED
  BY <1>1, <1>2, StepHandle, TypeCorrect, PTL DEF Spec

----------------------------------------------------------------------------
(* Blocked publishes *)

BlockedInv == (losses = 0 => blocked = alarm) /\ BlockedForCause

LEMMA StepBlocked == TypeOK /\ BlockedInv /\ [Next]_vars => BlockedInv'
<1> SUFFICES ASSUME TypeOK, BlockedInv, [Next]_vars PROVE BlockedInv'
  OBVIOUS
<1> USE DEF plan, ops, chain, slots, channels, conn, handles, history
<1>0. ASSUME UNCHANGED <<losses, blocked, alarm, blockedInVain>> PROVE BlockedInv'
  BY <1>0 DEF BlockedInv, BlockedForCause
<1>1. ASSUME NEW o \in Op, Call(o) \/ Acquire(o) \/ Confirmed(o) \/ StartFailed(o) \/ Written(o)
                           \/ DeleteReturned(o)
      PROVE  BlockedInv'
  BY <1>0, <1>1 DEF Call, Acquire, Confirmed, StartFailed, Written, DeleteReturned
<1>2. ASSUME NEW o \in Op, Start(o) PROVE BlockedInv'
  <2>1. UNCHANGED <<losses, blocked, alarm>>
    BY <1>2 DEF Start
  <2>2. blockedInVain' = blockedInVain \/ (blocked /\ ~alarm)
    BY <1>2 DEF Start
  <2>3. CASE blockedInVain' = blockedInVain
    BY <1>0, <2>1, <2>3
  <2>4. CASE blocked /\ ~alarm
    <3>1. losses # 0 /\ losses \in Nat
      BY <2>4 DEF BlockedInv, TypeOK
    <3>. QED
      BY <2>1, <3>1 DEF BlockedInv, BlockedForCause
  <2>. QED
    BY <2>2, <2>3, <2>4
<1>3. ASSUME NEW c \in Channel, Opened(c) \/ Selected(c) \/ OpeningFailed(c) \/ OpenOk(c) \/ SelectOk(c)
                                \/ Process(c)
      PROVE  BlockedInv'
  BY <1>0, <1>3 DEF Opened, Selected, OpeningFailed, OpenOk, SelectOk, Process
<1>4. CASE ConnectionLost
  <2>1. losses' = losses + 1 /\ losses \in Nat
    BY <1>4 DEF ConnectionLost, TypeOK
  <2>. QED
    BY <2>1 DEF BlockedInv, BlockedForCause
<1>5. CASE Reconnected
  BY <1>0, <1>5 DEF Reconnected
<1>6. CASE GotBlocked
  BY <1>6 DEF GotBlocked, BlockedInv, BlockedForCause
<1>7. CASE GotUnblocked
  BY <1>7 DEF GotUnblocked, Unblocked, BlockedInv, BlockedForCause
<1>8. CASE UNCHANGED vars
  BY <1>0, <1>8 DEF vars
<1>. QED
  BY <1>1, <1>2, <1>3, <1>4, <1>5, <1>6, <1>7, <1>8 DEF Next, Application, Jobs, Writes, Broker

\* Until a connection is lost, a publish is refused as blocked only while the broker blocks.
THEOREM BlockedForCauseHolds == Spec => []BlockedForCause
<1>1. Init => BlockedInv
  BY DEF Init, BlockedInv, BlockedForCause
<1>2. BlockedInv => BlockedForCause
  BY DEF BlockedInv
<1>. QED
  BY <1>1, <1>2, StepBlocked, TypeCorrect, PTL DEF Spec

----------------------------------------------------------------------------
(* One channel for each slot *)

Pending == {"opening", "opened", "selecting", "selected"}

ShutAreUsed == \A c \in shut : phase[c] # "unused"
FailedAreShut == \A c \in Channel : phase[c] \in {"failed", "spent"} => c \in shut
WireIsReady == \A c \in Channel : wire[c] # <<>> => phase[c] = "ready"
SelectingIsConfirm == \A c \in Channel : phase[c] \in {"selecting", "selected"} => role[c] = "confirm"
SlotIsReady == \A r \in Role : slot[r] # None => phase[slot[r]] = "ready" /\ role[slot[r]] = r
PromiseIsPending ==
    \A r \in Role : slotPromise[r] # None => phase[slotPromise[r]] \in Pending /\ role[slotPromise[r]] = r
\* Without a connection every channel is closed, and no promise of one is kept.
DownIsShut ==
    ~up => /\ \A c \in Channel : phase[c] # "unused" => c \in shut /\ phase[c] \notin {"opening", "selecting"}
           /\ \A r \in Role : slotPromise[r] = None
\* With one, the slots know every channel that is open or opening.
OpeningIsShared ==
    up => \A c \in Channel :
              /\ phase[c] # "failed"
              /\ phase[c] \in Pending => c = slotPromise[role[c]] /\ c \notin shut
ReadyIsStored == up => \A c \in Channel : phase[c] = "ready" /\ c \notin shut => slot[role[c]] = c
SlotInv ==
    /\ ShutAreUsed /\ FailedAreShut /\ WireIsReady /\ SelectingIsConfirm /\ SlotIsReady
    /\ PromiseIsPending /\ DownIsShut /\ OpeningIsShared /\ ReadyIsStored /\ OneChannelEach

LEMMA InitSlot == Init => SlotInv
BY DEF Init, SlotInv, ShutAreUsed, FailedAreShut, WireIsReady, SelectingIsConfirm, SlotIsReady,
       PromiseIsPending, DownIsShut, OpeningIsShared, ReadyIsStored, OneChannelEach, Pending, Role

LEMMA ChannelIsNotNone == \A c \in Channel : c # None
BY OperationsAssumption, Zenon DEF Channel

LEMMA SlotTyped ==
    ASSUME TypeOK
    PROVE  /\ \A c \in Channel : phase[c] \in Phase /\ role[c] \in Role
           /\ \A r \in Role : slot[r] \in Channel \cup {None} /\ slotPromise[r] \in Channel \cup {None}
           /\ phase \in [Channel -> Phase] /\ role \in [Channel -> Role]
           /\ slot \in [Role -> Channel \cup {None}] /\ slotPromise \in [Role -> Channel \cup {None}]
           /\ wire \in [Channel -> Seq(Op)] /\ shut \in SUBSET Channel
BY DEF TypeOK

\* A channel is opened only if the slot has none that is open or opening.
LEMMA NewChannelSlot ==
    ASSUME TypeOK, SlotInv, NEW o \in Op, NEW r \in Role, NEW c \in Channel,
           ~Stored(r), ~Shared(r), up, OpenChannel(o, r, c), UNCHANGED <<slot, shut, wire, up>>
    PROVE  SlotInv'
<1>1. /\ phase[c] = "unused" /\ phase'[c] = "opening" /\ role'[c] = r /\ c # None
      /\ \A d \in Channel : d # c => phase'[d] = phase[d] /\ role'[d] = role[d]
      /\ slotPromise[r] = None /\ slotPromise'[r] = c
      /\ \A q \in Role : q # r => slotPromise'[q] = slotPromise[q]
      /\ UNCHANGED <<slot, shut, wire, up>> /\ up
  BY SlotTyped, ChannelIsNotNone DEF OpenChannel, Shared
<1>2. c \notin shut
  BY <1>1 DEF SlotInv, ShutAreUsed
<1>3. \A d \in Channel : role[d] = r /\ d \notin shut => phase[d] = "unused"
  <2> SUFFICES ASSUME NEW d \in Channel, role[d] = r, d \notin shut PROVE phase[d] = "unused"
    OBVIOUS
  <2>1. phase[d] \in Phase /\ d # None
    BY SlotTyped, ChannelIsNotNone
  <2>2. phase[d] \notin Pending
    BY <1>1, <2>1 DEF SlotInv, OpeningIsShared
  <2>3. phase[d] # "ready"
    BY <1>1, <2>1 DEF Stored, SlotInv, ReadyIsStored
  <2>4. phase[d] \notin {"failed", "spent"}
    BY DEF SlotInv, FailedAreShut
  <2>. QED
    BY <2>1, <2>2, <2>3, <2>4 DEF Phase, Pending
<1>11. ShutAreUsed'
  BY <1>1, <1>2, <1>3, SlotTyped, ChannelIsNotNone DEF SlotInv, Pending, ShutAreUsed
<1>12. FailedAreShut'
  BY <1>1, <1>2, <1>3, SlotTyped, ChannelIsNotNone DEF SlotInv, Pending, FailedAreShut
<1>13. WireIsReady'
  BY <1>1, <1>2, <1>3, SlotTyped, ChannelIsNotNone DEF SlotInv, Pending, WireIsReady
<1>14. SelectingIsConfirm'
  BY <1>1, <1>2, <1>3, SlotTyped, ChannelIsNotNone DEF SlotInv, Pending, SelectingIsConfirm
<1>15. SlotIsReady'
  BY <1>1, <1>2, <1>3, SlotTyped, ChannelIsNotNone DEF SlotInv, Pending, SlotIsReady
<1>16. PromiseIsPending'
  <2>1. \A q \in Role : slotPromise[q] # None => slotPromise[q] \in Channel /\ slotPromise[q] # c
    BY <1>1, SlotTyped DEF SlotInv, Pending, PromiseIsPending
  <2>2. \A q \in Role : q # r /\ slotPromise[q] # None =>
            phase'[slotPromise[q]] \in Pending /\ role'[slotPromise[q]] = q
    BY <1>1, <2>1 DEF SlotInv, PromiseIsPending
  <2>. QED
    BY <1>1, <2>2 DEF PromiseIsPending, Pending
<1>17. DownIsShut'
  BY <1>1, <1>2, <1>3, SlotTyped, ChannelIsNotNone DEF SlotInv, Pending, DownIsShut
<1>18. OpeningIsShared'
  BY <1>1, <1>2, <1>3, SlotTyped, ChannelIsNotNone DEF SlotInv, Pending, OpeningIsShared
<1>19. ReadyIsStored'
  BY <1>1, <1>2, <1>3, SlotTyped, ChannelIsNotNone DEF SlotInv, Pending, ReadyIsStored
<1>20. OneChannelEach'
  <2>1. \A d \in Channel : d # c /\ role[d] = r /\ d \notin shut => phase'[d] = "unused"
    BY <1>1, <1>3
  <2>2. ASSUME NEW d \in Channel, NEW e \in Channel, d # c, e # c, d # e,
               role'[d] = role'[e], d \notin shut', e \notin shut'
        PROVE  phase'[d] = "unused" \/ phase'[e] = "unused"
    BY <1>1, <2>2 DEF SlotInv, OneChannelEach
  <2>3. ASSUME NEW d \in Channel, d # c, role'[d] = r, d \notin shut'
        PROVE  phase'[d] = "unused"
    BY <1>1, <2>1, <2>3
  <2>. QED
    BY <1>1, <2>2, <2>3 DEF OneChannelEach
<1>. QED
  BY <1>11, <1>12, <1>13, <1>14, <1>15, <1>16, <1>17, <1>18, <1>19, <1>20 DEF SlotInv

\* An answer or a job moves the opening of a channel on.
LEMMA OpeningSlot ==
    ASSUME TypeOK, SlotInv, NEW c \in Channel, NEW to \in Pending, phase[c] \in Pending,
           to \in {"selecting", "selected"} => role[c] = "confirm", to = "opened" \/ c \notin shut \/ up,
           up \/ to \notin {"opening", "selecting"},
           phase' = [phase EXCEPT ![c] = to], UNCHANGED <<slot, slotPromise, role, shut, wire, up>>
    PROVE  SlotInv'
<1>1. /\ phase'[c] = to /\ \A d \in Channel : d # c => phase'[d] = phase[d]
      /\ UNCHANGED <<slot, slotPromise, role, shut, wire, up>>
  BY SlotTyped
<1>11. ShutAreUsed'
  BY <1>1, SlotTyped, ChannelIsNotNone DEF SlotInv, Pending, ShutAreUsed
<1>12. FailedAreShut'
  BY <1>1, SlotTyped, ChannelIsNotNone DEF SlotInv, Pending, FailedAreShut
<1>13. WireIsReady'
  BY <1>1, SlotTyped, ChannelIsNotNone DEF SlotInv, Pending, WireIsReady
<1>14. SelectingIsConfirm'
  BY <1>1, SlotTyped, ChannelIsNotNone DEF SlotInv, Pending, SelectingIsConfirm
<1>15. SlotIsReady'
  BY <1>1, SlotTyped, ChannelIsNotNone DEF SlotInv, Pending, SlotIsReady
<1>16. PromiseIsPending'
  BY <1>1, SlotTyped, ChannelIsNotNone DEF SlotInv, Pending, PromiseIsPending
<1>17. DownIsShut'
  BY <1>1, SlotTyped, ChannelIsNotNone DEF SlotInv, Pending, DownIsShut
<1>18. OpeningIsShared'
  BY <1>1, SlotTyped, ChannelIsNotNone DEF SlotInv, Pending, OpeningIsShared
<1>19. ReadyIsStored'
  BY <1>1, SlotTyped, ChannelIsNotNone DEF SlotInv, Pending, ReadyIsStored
<1>20. OneChannelEach'
  BY <1>1, SlotTyped, ChannelIsNotNone DEF SlotInv, Pending, OneChannelEach
<1>. QED
  BY <1>11, <1>12, <1>13, <1>14, <1>15, <1>16, <1>17, <1>18, <1>19, <1>20 DEF SlotInv

\* An open channel is stored in its slot, and no promise of one is kept.
LEMMA ReadySlot ==
    ASSUME TypeOK, SlotInv, NEW c \in Channel, phase[c] \in Pending, phase[c] \notin {"opening", "selecting"},
           phase' = [phase EXCEPT ![c] = "ready"], slot' = [slot EXCEPT ![role[c]] = c],
           slotPromise' = [slotPromise EXCEPT ![role[c]] = None], UNCHANGED <<role, shut, wire, up>>
    PROVE  SlotInv'
<1>1. /\ phase'[c] = "ready" /\ \A d \in Channel : d # c => phase'[d] = phase[d]
      /\ slot'[role[c]] = c /\ \A q \in Role : q # role[c] => slot'[q] = slot[q]
      /\ slotPromise'[role[c]] = None /\ \A q \in Role : q # role[c] => slotPromise'[q] = slotPromise[q]
      /\ UNCHANGED <<role, shut, wire, up>> /\ c # None /\ role[c] \in Role
  BY SlotTyped, ChannelIsNotNone
<1>2. up => c \notin shut
  BY DEF SlotInv, OpeningIsShared
<1>11. ShutAreUsed'
  BY <1>1, <1>2, SlotTyped, ChannelIsNotNone DEF SlotInv, Pending, ShutAreUsed
<1>12. FailedAreShut'
  BY <1>1, <1>2, SlotTyped, ChannelIsNotNone DEF SlotInv, Pending, FailedAreShut
<1>13. WireIsReady'
  BY <1>1, <1>2, SlotTyped, ChannelIsNotNone DEF SlotInv, Pending, WireIsReady
<1>14. SelectingIsConfirm'
  BY <1>1, <1>2, SlotTyped, ChannelIsNotNone DEF SlotInv, Pending, SelectingIsConfirm
<1>15. SlotIsReady'
  BY <1>1, <1>2, SlotTyped, ChannelIsNotNone DEF SlotInv, Pending, SlotIsReady
<1>16. PromiseIsPending'
  BY <1>1, <1>2, SlotTyped, ChannelIsNotNone DEF SlotInv, Pending, PromiseIsPending
<1>17. DownIsShut'
  BY <1>1, <1>2, SlotTyped, ChannelIsNotNone DEF SlotInv, Pending, DownIsShut
<1>18. OpeningIsShared'
  BY <1>1, <1>2, SlotTyped, ChannelIsNotNone DEF SlotInv, Pending, OpeningIsShared
<1>19. ReadyIsStored'
  <2>1. ASSUME up, NEW d \in Channel, d # c, d \notin shut, phase[d] = "ready" PROVE role[d] # role[c]
    BY <1>2, <2>1 DEF SlotInv, OneChannelEach, Pending
  <2>. QED
    BY <1>1, <2>1, SlotTyped DEF SlotInv, ReadyIsStored
<1>20. OneChannelEach'
  BY <1>1, <1>2, SlotTyped, ChannelIsNotNone DEF SlotInv, Pending, OneChannelEach
<1>. QED
  BY <1>11, <1>12, <1>13, <1>14, <1>15, <1>16, <1>17, <1>18, <1>19, <1>20 DEF SlotInv

\* The opening of a closed channel fails: there is no connection.
LEMMA FailedSlot ==
    ASSUME TypeOK, SlotInv, NEW c \in Channel, c \in shut, phase[c] \in Pending \cup {"failed"}, NEW to \in {"failed", "spent"},
           phase' = [phase EXCEPT ![c] = to],
           slotPromise' = slotPromise \/ slotPromise' = [slotPromise EXCEPT ![role[c]] = None],
           UNCHANGED <<slot, role, shut, wire, up>>
    PROVE  SlotInv'
<1>1. ~up
  BY DEF SlotInv, OpeningIsShared
<1>2. /\ phase'[c] = to /\ \A d \in Channel : d # c => phase'[d] = phase[d]
      /\ UNCHANGED <<slot, role, shut, wire, up>>
      /\ \A r \in Role : slotPromise'[r] = None
  BY <1>1, SlotTyped DEF SlotInv, DownIsShut
<1>11. ShutAreUsed'
  BY <1>1, <1>2, SlotTyped, ChannelIsNotNone DEF SlotInv, Pending, ShutAreUsed
<1>12. FailedAreShut'
  BY <1>1, <1>2, SlotTyped, ChannelIsNotNone DEF SlotInv, Pending, FailedAreShut
<1>13. WireIsReady'
  BY <1>1, <1>2, SlotTyped, ChannelIsNotNone DEF SlotInv, Pending, WireIsReady
<1>14. SelectingIsConfirm'
  BY <1>1, <1>2, SlotTyped, ChannelIsNotNone DEF SlotInv, Pending, SelectingIsConfirm
<1>15. SlotIsReady'
  BY <1>1, <1>2, SlotTyped, ChannelIsNotNone DEF SlotInv, Pending, SlotIsReady
<1>16. PromiseIsPending'
  BY <1>1, <1>2, SlotTyped, ChannelIsNotNone DEF SlotInv, Pending, PromiseIsPending
<1>17. DownIsShut'
  BY <1>1, <1>2, SlotTyped, ChannelIsNotNone DEF SlotInv, Pending, DownIsShut
<1>18. OpeningIsShared'
  BY <1>1, <1>2, SlotTyped, ChannelIsNotNone DEF SlotInv, Pending, OpeningIsShared
<1>19. ReadyIsStored'
  BY <1>1, <1>2, SlotTyped, ChannelIsNotNone DEF SlotInv, Pending, ReadyIsStored
<1>20. OneChannelEach'
  BY <1>1, <1>2, SlotTyped, ChannelIsNotNone DEF SlotInv, Pending, OneChannelEach
<1>. QED
  BY <1>11, <1>12, <1>13, <1>14, <1>15, <1>16, <1>17, <1>18, <1>19, <1>20 DEF SlotInv

\* The broker closes a channel that is ready, or takes from its wire, or a frame is added.
LEMMA ShutSlot ==
    ASSUME TypeOK, SlotInv, shut' \subseteq shut \cup {c \in Channel : phase[c] = "ready"}, shut \subseteq shut',
           wire' \in [Channel -> Seq(Op)],
           \A c \in Channel : wire'[c] # <<>> => wire[c] # <<>> \/ phase[c] = "ready",
           UNCHANGED <<slot, slotPromise, role, phase, up>>
    PROVE  SlotInv'
<1>1. UNCHANGED <<slot, slotPromise, role, phase, up>>
  OBVIOUS
<1>11. ShutAreUsed'
  BY <1>1, SlotTyped, ChannelIsNotNone DEF SlotInv, Pending, ShutAreUsed
<1>12. FailedAreShut'
  BY <1>1, SlotTyped, ChannelIsNotNone DEF SlotInv, Pending, FailedAreShut
<1>13. WireIsReady'
  BY <1>1, SlotTyped, ChannelIsNotNone DEF SlotInv, Pending, WireIsReady
<1>14. SelectingIsConfirm'
  BY <1>1, SlotTyped, ChannelIsNotNone DEF SlotInv, Pending, SelectingIsConfirm
<1>15. SlotIsReady'
  BY <1>1, SlotTyped, ChannelIsNotNone DEF SlotInv, Pending, SlotIsReady
<1>16. PromiseIsPending'
  BY <1>1, SlotTyped, ChannelIsNotNone DEF SlotInv, Pending, PromiseIsPending
<1>17. DownIsShut'
  BY <1>1, SlotTyped, ChannelIsNotNone DEF SlotInv, Pending, DownIsShut
<1>18. OpeningIsShared'
  BY <1>1, SlotTyped, ChannelIsNotNone DEF SlotInv, Pending, OpeningIsShared
<1>19. ReadyIsStored'
  BY <1>1, SlotTyped, ChannelIsNotNone DEF SlotInv, Pending, ReadyIsStored
<1>20. OneChannelEach'
  BY <1>1, SlotTyped, ChannelIsNotNone DEF SlotInv, Pending, OneChannelEach
<1>. QED
  BY <1>11, <1>12, <1>13, <1>14, <1>15, <1>16, <1>17, <1>18, <1>19, <1>20 DEF SlotInv

\* A lost connection closes every channel.
LEMMA LostSlot ==
    ASSUME TypeOK, SlotInv, ConnectionLost
    PROVE  SlotInv'
<1>1. /\ shut' = {c \in Channel : phase[c] # "unused"}
      /\ \A c \in Channel : phase'[c] = IF phase[c] \in {"opening", "selecting"} THEN "failed" ELSE phase[c]
      /\ \A c \in Channel : wire'[c] = <<>>
      /\ \A r \in Role : slot'[r] = None /\ slotPromise'[r] = None
      /\ role' = role /\ up' = FALSE
  BY DEF ConnectionLost, chain
<1>11. ShutAreUsed'
  BY <1>1, SlotTyped, ChannelIsNotNone DEF SlotInv, Pending, ShutAreUsed
<1>12. FailedAreShut'
  BY <1>1, SlotTyped, ChannelIsNotNone DEF SlotInv, Pending, FailedAreShut
<1>13. WireIsReady'
  BY <1>1, SlotTyped, ChannelIsNotNone DEF SlotInv, Pending, WireIsReady
<1>14. SelectingIsConfirm'
  BY <1>1, SlotTyped, ChannelIsNotNone DEF SlotInv, Pending, SelectingIsConfirm
<1>15. SlotIsReady'
  BY <1>1, SlotTyped, ChannelIsNotNone DEF SlotInv, Pending, SlotIsReady
<1>16. PromiseIsPending'
  BY <1>1, SlotTyped, ChannelIsNotNone DEF SlotInv, Pending, PromiseIsPending
<1>17. DownIsShut'
  BY <1>1, SlotTyped, ChannelIsNotNone DEF SlotInv, Pending, DownIsShut
<1>18. OpeningIsShared'
  BY <1>1, SlotTyped, ChannelIsNotNone DEF SlotInv, Pending, OpeningIsShared
<1>19. ReadyIsStored'
  BY <1>1, SlotTyped, ChannelIsNotNone DEF SlotInv, Pending, ReadyIsStored
<1>20. OneChannelEach'
  BY <1>1, SlotTyped, ChannelIsNotNone DEF SlotInv, Pending, OneChannelEach
<1>. QED
  BY <1>11, <1>12, <1>13, <1>14, <1>15, <1>16, <1>17, <1>18, <1>19, <1>20 DEF SlotInv

\* No promise job is left over when there is a connection again.
LEMMA ReconnectedSlot ==
    ASSUME TypeOK, SlotInv, Reconnected
    PROVE  SlotInv'
<1>1. /\ ~up /\ up' /\ \A c \in Channel : phase[c] \notin {"opened", "selected", "failed"}
      /\ UNCHANGED <<slot, slotPromise, role, phase, shut, wire>>
  BY DEF Reconnected, Drained, slots, channels
<1>2. \A c \in Channel : phase[c] \notin Pending /\ (phase[c] # "unused" => c \in shut)
  BY <1>1 DEF SlotInv, DownIsShut, Pending
<1>11. ShutAreUsed'
  BY <1>1, SlotTyped, ChannelIsNotNone DEF SlotInv, Pending, ShutAreUsed
<1>12. FailedAreShut'
  BY <1>1, SlotTyped, ChannelIsNotNone DEF SlotInv, Pending, FailedAreShut
<1>13. WireIsReady'
  BY <1>1, SlotTyped, ChannelIsNotNone DEF SlotInv, Pending, WireIsReady
<1>14. SelectingIsConfirm'
  BY <1>1, SlotTyped, ChannelIsNotNone DEF SlotInv, Pending, SelectingIsConfirm
<1>15. SlotIsReady'
  BY <1>1, SlotTyped, ChannelIsNotNone DEF SlotInv, Pending, SlotIsReady
<1>16. PromiseIsPending'
  BY <1>1, SlotTyped, ChannelIsNotNone DEF SlotInv, Pending, PromiseIsPending
<1>17. DownIsShut'
  BY <1>1, SlotTyped, ChannelIsNotNone DEF SlotInv, Pending, DownIsShut
<1>18. OpeningIsShared'
  BY <1>1, <1>2 DEF Pending, OpeningIsShared
<1>19. ReadyIsStored'
  BY <1>1, <1>2 DEF ReadyIsStored
<1>20. OneChannelEach'
  BY <1>1, SlotTyped, ChannelIsNotNone DEF SlotInv, Pending, OneChannelEach
<1>. QED
  BY <1>11, <1>12, <1>13, <1>14, <1>15, <1>16, <1>17, <1>18, <1>19, <1>20 DEF SlotInv

\* Asking for a channel opens one or changes no slot.
LEMMA GetChannelSlot ==
    ASSUME TypeOK, SlotInv, NEW o \in Op, NEW r \in Role, GetChannel(o, r),
           UNCHANGED <<slot, shut, wire, up>>
    PROVE  SlotInv'
<1>1. CASE UNCHANGED <<slotPromise, role, phase>>
  BY <1>1 DEF SlotInv, ShutAreUsed, FailedAreShut, WireIsReady, SelectingIsConfirm, SlotIsReady,
              PromiseIsPending, DownIsShut, OpeningIsShared, ReadyIsStored, OneChannelEach
<1>2. ASSUME NEW c \in Channel, ~Stored(r), ~Shared(r), up, OpenChannel(o, r, c) PROVE SlotInv'
  BY <1>2, NewChannelSlot
<1>. QED
  BY <1>1, <1>2 DEF GetChannel

LEMMA StepSlot == TypeOK /\ WireInv /\ SlotInv /\ [Next]_vars => SlotInv'
<1> SUFFICES ASSUME TypeOK, WireInv, SlotInv, [Next]_vars PROVE SlotInv'
  OBVIOUS
<1> USE DEF plan, ops, chain, slots, channels, conn, handles, history
<1>0. ASSUME UNCHANGED <<slot, slotPromise, role, phase, shut, wire, up>> PROVE SlotInv'
  BY <1>0 DEF SlotInv, ShutAreUsed, FailedAreShut, WireIsReady, SelectingIsConfirm, SlotIsReady,
              PromiseIsPending, DownIsShut, OpeningIsShared, ReadyIsStored, OneChannelEach
<1>1. ASSUME NEW o \in Op, Call(o) \/ StartFailed(o) \/ Written(o) \/ DeleteReturned(o) PROVE SlotInv'
  BY <1>0, <1>1 DEF Call, StartFailed, Written, DeleteReturned
<1>2. ASSUME NEW o \in Op, Acquire(o) \/ Confirmed(o) PROVE SlotInv'
  BY <1>2, GetChannelSlot DEF Acquire, Confirmed, Role
<1>3. ASSUME NEW o \in Op, Start(o) PROVE SlotInv'
  <2>1. CASE UNCHANGED wire
    BY <1>0, <1>3, <2>1 DEF Start
  <2>2. CASE wire' = [wire EXCEPT ![on[o]] = Append(@, o)]
    <3>1. phase[on[o]] = "ready" /\ UNCHANGED <<slot, slotPromise, role, phase, shut, up>>
      BY <1>3 DEF Start
    <3>2. wire' \in [Channel -> Seq(Op)]
      BY StepType DEF TypeOK
    <3>3. \A c \in Channel : wire'[c] # <<>> => wire[c] # <<>> \/ phase[c] = "ready"
      BY <2>2, <3>1, SlotTyped
    <3>. QED
      BY <3>1, <3>2, <3>3, ShutSlot
  <2>. QED
    BY <1>3, <2>1, <2>2 DEF Start
<1>4. ASSUME NEW c \in Channel, Opened(c) PROVE SlotInv'
  <2>1. phase[c] = "opened" /\ UNCHANGED <<role, shut, wire, up>>
    BY <1>4 DEF Opened
  <2>2. CASE role[c] = "ops"
    BY <1>4, <2>1, <2>2, ReadySlot DEF Opened, Pending
  <2>3. CASE role[c] = "confirm" /\ c \notin shut
    <3>1. up
      BY <2>1, <2>3 DEF SlotInv, DownIsShut
    <3>2. phase' = [phase EXCEPT ![c] = "selecting"] /\ UNCHANGED <<slot, slotPromise>>
      BY <1>4, <2>3 DEF Opened
    <3>. QED
      BY <2>1, <2>3, <3>1, <3>2, OpeningSlot DEF Pending
  <2>4. CASE role[c] = "confirm" /\ c \in shut
    <3>1. phase' = [phase EXCEPT ![c] = "failed"] /\ UNCHANGED <<slot, slotPromise>>
      BY <1>4, <2>4 DEF Opened
    <3>. QED
      BY <2>1, <2>4, <3>1, FailedSlot DEF Pending
  <2>. QED
    BY <1>4, <2>2, <2>3, <2>4 DEF Opened
<1>5. ASSUME NEW c \in Channel, Selected(c) PROVE SlotInv'
  <2>1. phase[c] = "selected" /\ role[c] = "confirm"
    BY <1>5 DEF Selected, SlotInv, SelectingIsConfirm
  <2>. QED
    BY <1>5, <2>1, ReadySlot DEF Selected, Pending
<1>6. ASSUME NEW c \in Channel, OpeningFailed(c) PROVE SlotInv'
  <2>1. c \in shut
    BY <1>6 DEF OpeningFailed, SlotInv, FailedAreShut
  <2>. QED
    BY <1>6, <2>1, FailedSlot DEF OpeningFailed
<1>7. ASSUME NEW c \in Channel, OpenOk(c) PROVE SlotInv'
  BY <1>7, OpeningSlot DEF OpenOk, Pending
<1>8. ASSUME NEW c \in Channel, SelectOk(c) PROVE SlotInv'
  <2>1. role[c] = "confirm"
    BY <1>8 DEF SelectOk, SlotInv, SelectingIsConfirm
  <2>. QED
    BY <1>8, <2>1, OpeningSlot DEF SelectOk, Pending
<1>9. ASSUME NEW c \in Channel, Process(c) PROVE SlotInv'
  <2>1. /\ phase[c] = "ready" /\ UNCHANGED <<slot, slotPromise, role, phase, up>>
        /\ shut' = shut \/ shut' = shut \cup {c}
    BY <1>9 DEF Process, SlotInv, WireIsReady
  <2>2. wire' \in [Channel -> Seq(Op)]
    BY StepType DEF TypeOK
  <2>3. wire' = [wire EXCEPT ![c] = <<>>] \/ wire' = [wire EXCEPT ![c] = Tail(@)]
    BY <1>9 DEF Process
  <2>4. \A d \in Channel : wire'[d] # <<>> => wire[d] # <<>> \/ phase[d] = "ready"
    BY <2>1, <2>3, SlotTyped
  <2>. QED
    BY <2>1, <2>2, <2>4, ShutSlot
<1>10. CASE GotBlocked \/ GotUnblocked
  BY <1>0, <1>10 DEF GotBlocked, GotUnblocked
<1>11. CASE UNCHANGED vars
  BY <1>0, <1>11 DEF vars
<1>. QED
  BY <1>1, <1>2, <1>3, <1>4, <1>5, <1>6, <1>7, <1>8, <1>9, <1>10, <1>11, LostSlot, ReconnectedSlot
     DEF Next, Application, Jobs, Writes, Broker

LEMMA SlotInvariance == Spec => []SlotInv
<1>1. TypeOK /\ WireInv /\ SlotInv /\ [Next]_vars => SlotInv'
  BY StepSlot
<1>2. OpsInv => TypeOK /\ WireInv
  BY DEF OpsInv
<1>. QED
  BY <1>1, <1>2, InitSlot, OpsInvariance, PTL DEF Spec

\* However many operations ask at once, and whenever channels close or the connection is
\* lost: a slot never has two channels that are open or being opened.
THEOREM OneChannelEachHolds == Spec => []OneChannelEach
<1>1. SlotInv => OneChannelEach
  BY DEF SlotInv
<1>. QED
  BY <1>1, SlotInvariance, PTL

----------------------------------------------------------------------------
(* The causes of failures *)

Cause(o) == o \in bad \/ o \in disturbed \/ Spoiled(o)

OpRole(o) == IF OnOps(o) THEN "ops" ELSE "confirm"
\* An operation is on a channel for its role, and if that is the ops channel it was called.
OnItsChannel(o) ==
    on[o] # None => /\ role[on[o]] = OpRole(o) /\ phase[on[o]] # "unused"
                    /\ OnOps(o) => Called(o)
\* Who finds his channel closed has a cause.
ClosedForCause(o) == place[o] \in {"opening", "sent"} /\ on[o] \in shut => Cause(o)
CauseInv ==
    \A o \in Op : OnItsChannel(o) /\ ClosedForCause(o) /\ (result[o] = "closed" => Cause(o))

\* Of the operations on the ops channel one is at work.
LEMMA OneRuns ==
    ASSUME OpsInv, NEW p \in Op, NEW q \in Op, Called(p), Called(q), ~Over(p), ~Over(q),
           place[p] # "queued", place[q] # "queued"
    PROVE  p = q
<1>1. PICK i \in DOMAIN calls : calls[i] = p
  BY DEF Called
<1>2. PICK j \in DOMAIN calls : calls[j] = q
  BY DEF Called
<1>3. ~(i < j) /\ ~(j < i)
  BY <1>1, <1>2 DEF OpsInv, TurnInv, OneAtATime
<1>4. i \in Nat /\ j \in Nat
  BY DEF OpsInv, TypeOK
<1>. QED
  BY <1>1, <1>2, <1>3, <1>4

\* A cause remains one: on is set once.
LEMMA CauseRemains ==
    ASSUME NEW o \in Op, Cause(o), UNCHANGED <<kind, bad>>, disturbed \subseteq disturbed',
           \A p \in Op : on[p] # None => on'[p] = on[p], bad \subseteq Op
    PROVE  Cause(o)'
<1>1. CASE o \in bad \cup disturbed
  BY <1>1 DEF Cause
<1>2. CASE Spoiled(o)
  BY <1>2 DEF Cause, Spoiled, IsPublish
<1>. QED
  BY <1>1, <1>2 DEF Cause

\* What a step has to show that changes neither the channels nor who is on them.
LEMMA CauseStays ==
    ASSUME TypeOK, CauseInv, UNCHANGED <<kind, bad, on>>, disturbed \subseteq disturbed',
           \A o \in Op : Called(o) => Called(o)',
           \A c \in Channel : phase[c] # "unused" => phase'[c] # "unused" /\ role'[c] = role[c],
           \A o \in Op : place'[o] \in {"opening", "sent"} =>
               \/ place[o] \in {"opening", "sent"} /\ (on[o] \in shut' => on[o] \in shut)
               \/ Cause(o)',
           \A o \in Op : result'[o] = "closed" => result[o] = "closed" \/ Cause(o) \/ Cause(o)'
    PROVE  CauseInv'
<1> SUFFICES ASSUME NEW o \in Op
             PROVE  (OnItsChannel(o) /\ ClosedForCause(o) /\ (result[o] = "closed" => Cause(o)))'
  BY DEF CauseInv
<1>1. Cause(o) => Cause(o)'
  BY CauseRemains DEF TypeOK
<1>2. OnItsChannel(o)'
  <2>1. on[o] # None => on[o] \in Channel
    BY DEF TypeOK
  <2>2. OnOps(o)' <=> OnOps(o)
    BY DEF OnOps
  <2>. QED
    BY <2>1, <2>2 DEF CauseInv, OnItsChannel, OpRole
<1>3. ClosedForCause(o)'
  BY <1>1 DEF CauseInv, ClosedForCause
<1>4. result'[o] = "closed" => Cause(o)'
  BY <1>1 DEF CauseInv
<1>. QED
  BY <1>2, <1>3, <1>4

\* A channel that is given to an operation is not closed; without a connection there is none.
LEMMA GetChannelCause ==
    ASSUME TypeOK, WireInv, SlotInv, CauseInv, NEW o \in Op, GetChannel(o, OpRole(o)),
           place[o] \in {"new", "queued"}, OnOps(o) => Called(o),
           UNCHANGED <<kind, bad, calls, slot, shut, wire, up>>
    PROVE  CauseInv'
<1> DEFINE r == OpRole(o)
<1>1. on[o] = None /\ r \in Role
  <2>1. on[o] = None
    BY DEF WireInv, PlacesOn
  <2>2. r \in Role
    BY DEF OpRole, Role
  <2>. QED
    BY <2>1, <2>2
<1>2. \A p \in Op : Called(p)' <=> Called(p)
  BY DEF Called
<1>3. CASE ~up /\ Settle(o, "closed") /\ disturbed' = disturbed \cup {o} /\ UNCHANGED <<on, slotPromise, role, phase>>
  <2>1. \A p \in Op : p # o => place'[p] = place[p] /\ result'[p] = result[p]
    BY <1>3 DEF Settle, TypeOK
  <2>2. place'[o] = "settled" /\ Cause(o)'
    BY <1>3 DEF Settle, TypeOK, Cause
  <2>. QED
    BY <1>2, <1>3, <2>1, <2>2, CauseStays
<1>4. ASSUME NEW c \in Channel, Await(o, c), c \notin shut, role'[c] = r, phase'[c] # "unused",
             \A d \in Channel : phase[d] # "unused" => phase'[d] = phase[d] /\ role'[d] = role[d],
             UNCHANGED <<result, disturbed>>
      PROVE  CauseInv'
  <2>1. /\ place'[o] = "opening" /\ on'[o] = c
        /\ \A p \in Op : p # o => place'[p] = place[p] /\ on'[p] = on[p]
    BY <1>4 DEF Await, TypeOK
  <2>2. \A p \in Op : on[p] # None => on'[p] = on[p]
    BY <1>1, <2>1
  <2>3. \A p \in Op : Cause(p) => Cause(p)'
    BY <1>4, <2>2, CauseRemains DEF TypeOK
  <2> SUFFICES ASSUME NEW p \in Op
               PROVE  (OnItsChannel(p) /\ ClosedForCause(p) /\ (result[p] = "closed" => Cause(p)))'
    BY DEF CauseInv
  <2>4. OnItsChannel(p)'
    <3>1. OnOps(p)' <=> OnOps(p)
      BY DEF OnOps
    <3>2. CASE p = o
      BY <1>2, <1>4, <2>1, <3>1, <3>2 DEF OnItsChannel, OpRole
    <3>3. CASE p # o
      <4>1. on[p] \in Channel \cup {None}
        BY DEF TypeOK
      <4>. QED
        BY <1>2, <1>4, <2>1, <3>1, <3>3, <4>1 DEF CauseInv, OnItsChannel, OpRole
    <3>. QED
      BY <3>2, <3>3
  <2>5. ClosedForCause(p)'
    BY <1>4, <2>1, <2>3 DEF CauseInv, ClosedForCause
  <2>6. result'[p] = "closed" => Cause(p)'
    BY <1>4, <2>3 DEF CauseInv
  <2>. QED
    BY <2>4, <2>5, <2>6
<1>5. CASE Stored(r) /\ Await(o, slot[r]) /\ UNCHANGED <<result, slotPromise, role, phase, disturbed>>
  <2>1. slot[r] \in Channel /\ slot[r] \notin shut /\ role[slot[r]] = r /\ phase[slot[r]] = "ready"
    BY <1>1, <1>5, SlotTyped DEF Stored, SlotInv, SlotIsReady
  <2>. QED
    BY <1>4, <1>5, <2>1
<1>6. CASE Shared(r) /\ Await(o, slotPromise[r]) /\ UNCHANGED <<result, slotPromise, role, phase, disturbed>>
  <2>1. /\ slotPromise[r] \in Channel /\ role[slotPromise[r]] = r /\ phase[slotPromise[r]] \in Pending
        /\ up
    BY <1>1, <1>6, SlotTyped DEF Shared, SlotInv, PromiseIsPending, DownIsShut
  <2>2. slotPromise[r] \notin shut
    BY <2>1 DEF SlotInv, OpeningIsShared
  <2>. QED
    BY <1>4, <1>6, <2>1, <2>2 DEF Pending
<1>7. ASSUME NEW c \in Channel, OpenChannel(o, r, c), UNCHANGED <<result, disturbed>> PROVE CauseInv'
  <2>1. /\ phase[c] = "unused" /\ Await(o, c) /\ role'[c] = r /\ phase'[c] = "opening"
        /\ \A d \in Channel : d # c => phase'[d] = phase[d] /\ role'[d] = role[d]
    BY <1>7, SlotTyped DEF OpenChannel
  <2>2. c \notin shut
    BY <2>1 DEF SlotInv, ShutAreUsed
  <2>. QED
    BY <1>4, <1>7, <2>1, <2>2
<1>. QED
  BY <1>3, <1>5, <1>6, <1>7 DEF GetChannel

\* When the broker refuses an operation, whoever is on that channel has a cause: it is the
\* operation itself, or a publish spoiled its channel; no RPC is refused beside another.
LEMMA RefusedForCause ==
    ASSUME OpsInv, CauseInv, NEW c \in Channel, wire[c] # <<>>, Head(wire[c]) \in bad,
           NEW o \in Op, place[o] \in {"opening", "sent"}, on[o] = c
    PROVE  Cause(o)
<1> DEFINE p == Head(wire[c])
<1>1. p \in Op /\ on[p] = c /\ Waits(p) /\ c # None
  BY ChannelIsNotNone DEF OpsInv, WireInv, WireIsSent, TypeOK
<1>2. CASE o = p
  BY <1>2 DEF Cause
<1>3. CASE o # p /\ IsPublish(p)
  BY <1>1, <1>3 DEF Cause, Spoiled
<1>4. CASE o # p /\ ~IsPublish(p)
  <2>1. place[p] = "sent" /\ OnOps(p) /\ role[c] = "ops" /\ Called(p)
    BY <1>1, <1>4 DEF IsPublish, Waits, OnOps, CauseInv, OnItsChannel, OpRole
  <2>2. OnOps(o) /\ Called(o)
    BY <1>1, <2>1 DEF CauseInv, OnItsChannel, OpRole
  <2>3. o = p
    <3>1. ~Over(p) /\ ~Over(o) /\ place[p] # "queued" /\ place[o] # "queued"
      BY <2>1 DEF Over
    <3>. QED
      BY <1>1, <2>1, <2>2, <3>1, OneRuns
  <2>. QED
    BY <1>4, <2>3
<1>. QED
  BY <1>2, <1>3, <1>4

\* What waits for its turn is an operation of the ops channel.
QueuedAreOps == \A o \in Op : place[o] = "queued" => OnOps(o)

LEMMA StepQueued == OpsInv /\ QueuedAreOps /\ [Next]_vars => QueuedAreOps'
<1> SUFFICES ASSUME OpsInv, QueuedAreOps, [Next]_vars PROVE QueuedAreOps'
  OBVIOUS
<1>1. UNCHANGED kind
  BY DEF Next, Application, Jobs, Writes, Broker, Call, Acquire, Confirmed, Start, StartFailed,
         Written, DeleteReturned, Opened, Selected, OpeningFailed, OpenOk, SelectOk, Process,
         ConnectionLost, Reconnected, GotBlocked, GotUnblocked, vars, plan
<1>2. CASE \E o \in Op : Calls(o)
  BY <1>1, <1>2 DEF Calls, QueuedAreOps, OnOps, OpsInv, TypeOK
<1>3. CASE \E o \in Op : Begins(o)
  BY <1>1, <1>3 DEF Begins, QueuedAreOps, OnOps
<1>4. CASE \A o \in Op : GoesOn(o)
  BY <1>1, <1>4 DEF GoesOn, QueuedAreOps, OnOps
<1>. QED
  BY <1>2, <1>3, <1>4, StepPlaces DEF OpsInv

LEMMA StepCause == OpsInv /\ SlotInv /\ QueuedAreOps /\ CauseInv /\ [Next]_vars => CauseInv'
<1> SUFFICES ASSUME OpsInv, SlotInv, QueuedAreOps, CauseInv, [Next]_vars PROVE CauseInv'
  OBVIOUS
<1> USE DEF plan, ops, chain, slots, channels, conn, handles, history
<1>t. TypeOK /\ WireInv
  BY DEF OpsInv
<1>c. ASSUME UNCHANGED calls PROVE \A o \in Op : Called(o) => Called(o)'
  BY <1>c DEF Called
<1>0. ASSUME UNCHANGED <<kind, bad, calls, on, place, result, shut, disturbed>>,
             \A c \in Channel : phase[c] # "unused" => phase'[c] # "unused" /\ role'[c] = role[c]
      PROVE  CauseInv'
  BY <1>0, <1>t, <1>c, CauseStays
<1>1. ASSUME NEW o \in Op, Call(o) PROVE CauseInv'
  <2>1. UNCHANGED <<kind, bad, on, phase, role, shut, disturbed>>
    BY <1>1 DEF Call
  <2>2. /\ place'[o] \in {"settled", "queued"}
        /\ result'[o] = "closed" => result[o] = "closed"
        /\ \A p \in Op : p # o => place'[p] = place[p] /\ result'[p] = result[p]
    BY <1>1, <1>t DEF Call, Settle, TypeOK
  <2>3. \A p \in Op : Called(p) => Called(p)'
    <3>1. CASE UNCHANGED calls
      BY <1>c, <3>1
    <3>2. CASE calls' = Append(calls, o)
      <4>1. \A i \in DOMAIN calls : i \in DOMAIN calls' /\ calls'[i] = calls[i]
        BY <1>t, <3>2, AppendElements DEF TypeOK
      <4>. QED
        BY <4>1 DEF Called
    <3>. QED
      BY <1>1, <3>1, <3>2 DEF Call
  <2>. QED
    BY <1>t, <2>1, <2>2, <2>3, CauseStays
<1>2. ASSUME NEW o \in Op, Acquire(o) PROVE CauseInv'
  <2>1. Called(o) /\ OpRole(o) = "ops" /\ place[o] = "queued"
    BY <1>2 DEF Acquire, OpsInv, TurnInv, QueuedAreCalled, OpRole, QueuedAreOps
  <2>2. GetChannel(o, OpRole(o)) /\ UNCHANGED <<kind, bad, calls, slot, shut, wire, up>>
    BY <1>2, <2>1 DEF Acquire
  <2>. QED
    BY <1>t, <2>1, <2>2, GetChannelCause
<1>3. ASSUME NEW o \in Op, Confirmed(o) PROVE CauseInv'
  BY <1>3, <1>t, GetChannelCause DEF Confirmed, OpRole
<1>4. ASSUME NEW o \in Op, Start(o) PROVE CauseInv'
  <2>1. /\ place[o] = "opening" /\ UNCHANGED <<kind, bad, calls, on, phase, role, shut, disturbed>>
        /\ \A p \in Op : p # o => place'[p] = place[p] /\ result'[p] = result[p]
        /\ result'[o] = "closed" => result[o] = "closed" \/ on[o] \in shut
    BY <1>4, <1>t DEF Start, Settle, TypeOK
  <2>2. on[o] \in shut => Cause(o)
    BY <2>1 DEF CauseInv, ClosedForCause
  <2>. QED
    BY <1>t, <1>c, <2>1, <2>2, CauseStays
<1>5. ASSUME NEW o \in Op, StartFailed(o) \/ Written(o) PROVE CauseInv'
  <2>1. /\ place[o] \in {"opening", "sent"} /\ place'[o] = "settled"
        /\ UNCHANGED <<kind, bad, calls, on, phase, role, shut, disturbed>>
        /\ \A p \in Op : p # o => place'[p] = place[p] /\ result'[p] = result[p]
        /\ result'[o] = "closed" => ~up \/ phase[on[o]] = "spent"
    BY <1>5, <1>t DEF StartFailed, Written, Settle, TypeOK
  <2>2. on[o] \in Channel /\ on[o] # None /\ phase[on[o]] # "unused"
    BY <1>t, <2>1, ChannelIsNotNone DEF WireInv, PlacesOn, CauseInv, OnItsChannel
  <2>3. ~up \/ phase[on[o]] = "spent" => on[o] \in shut
    BY <2>2 DEF SlotInv, DownIsShut, FailedAreShut
  <2>4. on[o] \in shut => Cause(o)
    BY <2>1 DEF CauseInv, ClosedForCause
  <2>. QED
    BY <1>t, <1>c, <2>1, <2>3, <2>4, CauseStays
<1>6. ASSUME NEW o \in Op, DeleteReturned(o) PROVE CauseInv'
  <2>1. /\ UNCHANGED <<kind, bad, calls, on, result, phase, role, shut, disturbed>>
        /\ place'[o] = "settled" /\ \A p \in Op : p # o => place'[p] = place[p]
    BY <1>6, <1>t DEF DeleteReturned, TypeOK
  <2>. QED
    BY <1>t, <1>c, <2>1, CauseStays
<1>7. ASSUME NEW c \in Channel, Opened(c) \/ Selected(c) \/ OpeningFailed(c) \/ OpenOk(c) \/ SelectOk(c)
      PROVE  CauseInv'
  <2>1. /\ UNCHANGED <<kind, bad, calls, on, place, result, role, shut, disturbed>>
        /\ \E to \in Phase \ {"unused"} : phase' = [phase EXCEPT ![c] = to]
    BY <1>7 DEF Opened, Selected, OpeningFailed, OpenOk, SelectOk, Phase
  <2>2. \A d \in Channel : phase[d] # "unused" => phase'[d] # "unused"
    BY <1>t, <2>1, SlotTyped
  <2>. QED
    BY <1>0, <2>1, <2>2
<1>8. ASSUME NEW c \in Channel, Process(c) PROVE CauseInv'
  <2> DEFINE p == Head(wire[c])
  <2>1. /\ UNCHANGED <<kind, bad, calls, on, phase, role, disturbed>> /\ wire[c] # <<>>
        /\ p \in Op /\ Waits(p)
    BY <1>8, <1>t DEF Process, WireInv, WireIsSent, TypeOK
  <2>2. CASE p \in bad /\ shut' = shut \cup {c} /\ RejectAll({c})
    <3>1. \A o \in Op : place[o] \in {"opening", "sent"} /\ on[o] = c => Cause(o)
      BY <2>1, <2>2, RefusedForCause
    <3>2. \A o \in Op : Cause(o) => Cause(o)'
      BY <1>t, <2>1, CauseRemains DEF TypeOK
    <3>3. \A o \in Op : /\ place'[o] = place[o] \/ place'[o] = "settled"
                        /\ result'[o] = result[o] \/ (place[o] = "sent" /\ on[o] = c)
      BY <2>2 DEF RejectAll, Rejected
    <3>. QED
      BY <1>t, <1>c, <2>1, <2>2, <3>1, <3>2, <3>3, CauseStays
  <2>3. CASE UNCHANGED <<place, result, shut>>
    BY <1>0, <2>1, <2>3
  <2>4. CASE /\ UNCHANGED shut /\ \E to \in {"returned", "settled"} : place' = [place EXCEPT ![p] = to]
             /\ \E how \in {"ok", "nacked"} : result' = [result EXCEPT ![p] = how]
    <3>1. /\ \A o \in Op : place'[o] \in {"opening", "sent"} => place'[o] = place[o]
          /\ \A o \in Op : result'[o] = "closed" => result'[o] = result[o]
      BY <1>t, <2>1, <2>4 DEF TypeOK
    <3>. QED
      BY <1>t, <1>c, <2>1, <2>4, <3>1, CauseStays
  <2>. QED
    BY <1>8, <2>2, <2>3, <2>4 DEF Process, Answer, Settle
<1>9. CASE ConnectionLost
  <2>1. /\ UNCHANGED <<kind, bad, calls, on, role>>
        /\ disturbed' = disturbed \cup {o \in Op : place[o] \in {"opening", "sent"}}
        /\ \A c \in Channel : phase'[c] = IF phase[c] \in {"opening", "selecting"} THEN "failed" ELSE phase[c]
        /\ RejectAll(Channel)
    BY <1>9 DEF ConnectionLost
  <2>2. \A c \in Channel : phase[c] # "unused" => phase'[c] # "unused"
    BY <2>1
  <2>3. \A o \in Op : /\ place'[o] = place[o] \/ place'[o] = "settled"
                      /\ result'[o] = result[o] \/ place[o] = "sent"
    BY <2>1 DEF RejectAll, Rejected
  <2>4. \A o \in Op : place[o] \in {"opening", "sent"} => Cause(o)'
    BY <2>1 DEF Cause
  <2>. QED
    BY <1>t, <1>c, <2>1, <2>2, <2>3, <2>4, CauseStays
<1>10. CASE Reconnected \/ GotBlocked \/ GotUnblocked
  BY <1>0, <1>10 DEF Reconnected, GotBlocked, GotUnblocked
<1>11. CASE UNCHANGED vars
  BY <1>0, <1>11 DEF vars
<1>. QED
  BY <1>1, <1>2, <1>3, <1>4, <1>5, <1>6, <1>7, <1>8, <1>9, <1>10, <1>11
     DEF Next, Application, Jobs, Writes, Broker

LEMMA InitCause == Init => CauseInv /\ QueuedAreOps
BY DEF Init, CauseInv, OnItsChannel, ClosedForCause, QueuedAreOps

\* An operation fails for a closed channel only if it was refused itself, or the connection
\* ended under it, or a publish spoiled its channel: the lock keeps the RPCs apart, and none
\* is given a channel that is closed already.
THEOREM FailsForCauseHolds == Spec => []FailsForCause
<1>1. CauseInv => FailsForCause
  BY DEF CauseInv, Cause, FailsForCause
<1>. QED
  BY <1>1, InitCause, StepCause, StepQueued, OpsInvariance, SlotInvariance, PTL DEF Spec

----------------------------------------------------------------------------
(***************************************************************************)
(* consumeOne: ConsumeOne for a queue of any messages, instantiated beside *)
(* Operations, whose channels it does not use: it opens one of its own.    *)
(*                                                                         *)
(* The argument: an ack is sent and a message removed only for a callback  *)
(* that was there in time, so that either the call is settled with that    *)
(* message or the callback was overtaken; and the call settles after its   *)
(* cleanup, which is over only when the broker serves the channel no more. *)
(***************************************************************************)
VARIABLES timed, consume, ended, settled, verdict, timer, cleaning, cancel, close, closed, callback,
          toServer, serving, ready, connClosed, silent, stranded, unheard

C == INSTANCE ConsumeOne

USE ConsumeOneAssumption

(* The frames under way *)

Frame == {"qos", "cancel", "close", "ack", "nack"} \X (Message \cup {NoMessage})
Verdict == {"none", "timeout", "ended", "failed"} \cup Message
Cleanup == {"none", "cancelling", "closing", "done"}

CloseFrame == <<"close", NoMessage>>
Sent(f) == \E i \in 1 .. Len(toServer) : toServer[i] = f
AckSent(m) == Sent(<<"ack", m>>)

\* A frame that is written is the only one that was not under way.
LEMMA AppendFrame ==
    ASSUME toServer \in Seq(Frame), NEW f \in Frame, toServer' = Append(toServer, f)
    PROVE  /\ toServer' \in Seq(Frame)
           /\ \A g \in Frame : g # f /\ Sent(g)' => Sent(g)
<1>1. toServer' \in Seq(Frame)
  OBVIOUS
<1>2. ASSUME NEW g \in Frame, g # f, Sent(g)' PROVE Sent(g)
  <2> PICK i \in 1 .. Len(toServer') : toServer'[i] = g
    BY <1>2 DEF Sent
  <2>1. i \in 1 .. Len(toServer) /\ toServer[i] = toServer'[i]
    <3>1. Len(toServer') = Len(toServer) + 1 /\ Len(toServer) \in Nat /\ toServer'[Len(toServer) + 1] = f
      OBVIOUS
    <3>2. i # Len(toServer) + 1
      BY <3>1, <1>2
    <3>. QED
      BY <3>1, <3>2
  <2>. QED
    BY <2>1 DEF Sent
<1>. QED
  BY <1>1, <1>2

\* A frame is written, or lost behind Connection.Close.
LEMMA WriteFrame ==
    ASSUME toServer \in Seq(Frame), NEW f \in Frame, C!Write(f)
    PROVE  /\ toServer' \in Seq(Frame)
           /\ \A g \in Frame : g # f /\ Sent(g)' => Sent(g)
<1>1. CASE connClosed
  <2>1. toServer' = toServer
    BY <1>1 DEF C!Write
  <2>. QED
    BY <2>1 DEF Sent
<1>2. CASE ~connClosed
  BY <1>2, AppendFrame DEF C!Write
<1>. QED
  BY <1>1, <1>2

\* The broker takes the first of the frames under way.
LEMMA TakeFrame ==
    ASSUME toServer \in Seq(Frame), toServer # <<>>, toServer' = Tail(toServer)
    PROVE  /\ toServer' \in Seq(Frame)
           /\ \A g \in Frame : Sent(g)' => Sent(g)
           /\ Sent(Head(toServer))
<1>1. toServer' \in Seq(Frame) /\ Len(toServer') = Len(toServer) - 1 /\ Len(toServer) \in Nat /\ Len(toServer) > 0
  OBVIOUS
<1>2. ASSUME NEW g \in Frame, Sent(g)' PROVE Sent(g)
  <2> PICK i \in 1 .. Len(toServer') : toServer'[i] = g
    BY <1>2 DEF Sent
  <2>1. i + 1 \in 1 .. Len(toServer) /\ toServer[i + 1] = toServer'[i]
    BY <1>1
  <2>. QED
    BY <2>1 DEF Sent
<1>3. Sent(Head(toServer))
  <2>1. 1 \in 1 .. Len(toServer) /\ toServer[1] = Head(toServer)
    BY <1>1
  <2>. QED
    BY <2>1 DEF Sent
<1>. QED
  BY <1>1, <1>2, <1>3

\* The frames differ from each other.
LEMMA FrameKinds ==
    /\ CloseFrame \in Frame /\ <<"qos", NoMessage>> \in Frame /\ <<"cancel", NoMessage>> \in Frame
    /\ <<"qos", NoMessage>> # CloseFrame /\ <<"cancel", NoMessage>> # CloseFrame
    /\ \A m \in Message :
          /\ <<"ack", m>> \in Frame /\ <<"nack", m>> \in Frame
          /\ CloseFrame # <<"ack", m>> /\ CloseFrame # <<"nack", m>>
          /\ \A x \in Message : <<"ack", x>> # <<"nack", m>> /\ (x # m => <<"ack", x>> # <<"ack", m>>)
          /\ <<"qos", NoMessage>> # <<"ack", m>> /\ <<"cancel", NoMessage>> # <<"ack", m>>
  BY DEF Frame, CloseFrame

----------------------------------------------------------------------------
(* Types *)

CallTyped ==
    /\ call \in {"opening", "qos", "pending", "resolved", "rejected"} /\ timed \in BOOLEAN
    /\ consume \in {"none", "asked", "answered", "registered", "known", "rejected", "over"}
    /\ ended \in BOOLEAN /\ settled \in BOOLEAN /\ timer \in BOOLEAN
    /\ verdict \in Verdict
    /\ cleaning \in [{"own", "late"} -> Cleanup]
    /\ cancel \in C!Reply /\ close \in C!Reply /\ closed \in BOOLEAN /\ link \in BOOLEAN
    /\ connClosed \in BOOLEAN /\ silent \in BOOLEAN
    /\ callback \in [Message -> C!Place] /\ given \in Message \cup {NoMessage}
    /\ toServer \in Seq(Frame)
    /\ serving \in BOOLEAN /\ consuming \in BOOLEAN /\ unacked \in Message \cup {NoMessage}
    /\ ready \in SUBSET Message /\ consumed \in SUBSET Message
    /\ overtaken \in SUBSET Message /\ stranded \in BOOLEAN /\ unheard \in BOOLEAN

\* CallTyped is TypeOK with names for its sets.
LEMMA TypedIsTypeOK == CallTyped <=> C!TypeOK
  BY DEF CallTyped, C!TypeOK, Verdict, Cleanup, Frame

\* The call starts with values of their types.
LEMMA InitTyped == C!Init => CallTyped
<1> SUFFICES ASSUME C!Init PROVE CallTyped
  OBVIOUS
<1>1. cleaning \in [{"own", "late"} -> Cleanup] /\ callback \in [Message -> C!Place]
  BY DEF C!Init, Cleanup, C!Place
<1>2. toServer \in Seq(Frame) /\ verdict \in Verdict /\ given \in Message \cup {NoMessage} /\ unacked \in Message \cup {NoMessage}
  BY DEF C!Init, Verdict
<1>3. ready \in SUBSET Message /\ consumed \in SUBSET Message /\ overtaken \in SUBSET Message
  BY DEF C!Init
<1>. QED
  BY <1>1, <1>2, <1>3 DEF C!Init, CallTyped, C!Reply

----------------------------------------------------------------------------
(* The inductive invariant *)

\* Nothing happens before basicConsume is asked.
StageInv ==
    /\ call \in {"opening", "qos"} => consume = "none"
    /\ call = "pending" => consume # "none"
    /\ consume = "none" => /\ ~settled /\ ~timer /\ ~consuming /\ consumed = {} /\ given = NoMessage
                           /\ \A m \in Message : callback[m] = "none" /\ ~AckSent(m)
\* The call settles with the verdict of finish.  The callback that gave it is over, and the
\* ones still at work when finish was called are overtaken.
VerdictInv ==
    /\ Done => settled \/ consume = "none"
    /\ Done /\ verdict \in Message => given = verdict
    /\ verdict \in Message => settled /\ callback[verdict] = "over"
    /\ settled => \A m \in Message : callback[m] \in {"decoding", "acking"} => m \in overtaken
\* Who acknowledges a message settles the call with it, or was overtaken.
AckInv ==
    \A m \in Message : m \in consumed \/ AckSent(m) =>
        \/ callback[m] = "acking"
        \/ callback[m] = "over" /\ settled /\ (verdict = m \/ m \in overtaken)
\* finish cleans up once; the cleanup of a consumer that came too late finds the channel
\* closed.
CleanInv ==
    /\ settled <=> cleaning["own"] # "none"
    /\ cleaning["own"] = "cancelling" => consume = "known" /\ close = "none"
    /\ cleaning["own"] \in {"closing", "done"} => closed
    /\ cleaning["late"] \in {"none", "done"}
    /\ close # "none" => closed /\ cleaning["own"] \in {"closing", "done"}
\* A channel that is closed and not by close(), or whose close is settled, is not served, and
\* none is without a connection.
BrokerInv ==
    /\ ~serving => ~consuming /\ unacked = NoMessage
    /\ ~link => ~serving
    /\ closed /\ close = "none" => ~serving
    /\ close \in {"answered", "rejected"} => ~serving
    /\ cleaning["own"] = "done" => ~serving
    /\ Done => ~serving
\* Channel.Close is under way only for ch.close.
CloseIsAsked == Sent(CloseFrame) => close # "none"
CallInv == StageInv /\ VerdictInv /\ AckInv /\ CleanInv /\ BrokerInv

\* ch.close() was called on an open channel; it is rejected for want of a socket only.
CloseBegun == closed' /\ close' \in {"asked", "rejected"} /\ (close' = "rejected" => ~link)

\* ch.close(), unless the channel is closed
LEMMA LeaveFacts ==
    ASSUME CallTyped, NEW k \in {"own", "late"}, C!Leave(k)
    PROVE  /\ cleaning' \in [{"own", "late"} -> Cleanup] /\ close' \in C!Reply /\ closed' = TRUE
           /\ toServer' \in Seq(Frame) /\ \A m \in Message : AckSent(m)' => AckSent(m)
           /\ Sent(CloseFrame)' => Sent(CloseFrame) \/ close' # "none"
           /\ \A j \in {"own", "late"} : j # k => cleaning'[j] = cleaning[j]
           /\ \/ closed /\ cleaning'[k] = "done" /\ close' = close /\ toServer' = toServer
              \/ ~closed /\ cleaning'[k] = "closing" /\ CloseBegun
<1>1. CASE closed
  <2>1. cleaning' = [cleaning EXCEPT ![k] = "done"] /\ UNCHANGED <<closed, close, toServer>>
    BY <1>1 DEF C!Leave
  <2>. QED
    BY <1>1, <2>1 DEF CallTyped, Cleanup, AckSent, Sent
<1>2. CASE ~closed
  <2>1. /\ cleaning' = [cleaning EXCEPT ![k] = "closing"] /\ closed' = TRUE
        /\ close' = IF link THEN "asked" ELSE "rejected"
        /\ C!Write(<<"close", NoMessage>>)
    BY <1>2 DEF C!Leave
  <2>3. toServer' \in Seq(Frame) /\ \A m \in Message : AckSent(m)' => AckSent(m)
    BY <2>1, FrameKinds, WriteFrame DEF CallTyped, AckSent, CloseFrame
  <2>5. CloseBegun /\ close' # "none" /\ close' \in C!Reply
    BY <2>1 DEF CloseBegun, C!Reply
  <2>4. /\ cleaning' \in [{"own", "late"} -> Cleanup] /\ cleaning'[k] = "closing"
        /\ \A j \in {"own", "late"} : j # k => cleaning'[j] = cleaning[j]
    BY <2>1 DEF CallTyped, Cleanup
  <2>. QED
    BY <1>2, <2>1, <2>3, <2>4, <2>5
<1>. QED
  BY <1>1, <1>2

\* consumer.cancel(), or straight to ch.close()
LEMMA CleanUpFacts ==
    ASSUME CallTyped, NEW k \in {"own", "late"}, NEW known \in BOOLEAN, C!CleanUp(k, known)
    PROVE  /\ timer' = FALSE /\ cancel' \in C!Reply
           /\ cleaning' \in [{"own", "late"} -> Cleanup] /\ close' \in C!Reply /\ closed' \in BOOLEAN
           /\ toServer' \in Seq(Frame) /\ \A m \in Message : AckSent(m)' => AckSent(m)
           /\ Sent(CloseFrame)' => Sent(CloseFrame) \/ close' # "none"
           /\ \A j \in {"own", "late"} : j # k => cleaning'[j] = cleaning[j]
           /\ \/ known /\ ~closed /\ cleaning'[k] = "cancelling" /\ close' = close /\ closed' = closed
              \/ closed /\ closed' /\ cleaning'[k] = "done" /\ close' = close
              \/ ~closed /\ cleaning'[k] = "closing" /\ CloseBegun
<1>1. CASE known /\ ~closed /\ ~connClosed
  <2>1. /\ timer' = FALSE /\ cleaning' = [cleaning EXCEPT ![k] = "cancelling"]
        /\ cancel' = IF cancel = "none" THEN "asked" ELSE cancel
        /\ toServer' = IF cancel = "none" THEN Append(toServer, <<"cancel", NoMessage>>) ELSE toServer
        /\ UNCHANGED <<closed, close>>
    BY <1>1 DEF C!CleanUp
  <2>3. /\ toServer' \in Seq(Frame) /\ \A m \in Message : AckSent(m)' => AckSent(m)
        /\ Sent(CloseFrame)' => Sent(CloseFrame)
    <3>1. CASE cancel = "none"
      BY <3>1, <2>1, FrameKinds, AppendFrame DEF CallTyped, AckSent, Sent
    <3>2. CASE cancel # "none"
      BY <3>2, <2>1 DEF CallTyped, AckSent, Sent
    <3>. QED
      BY <3>1, <3>2
  <2>4. /\ cleaning' \in [{"own", "late"} -> Cleanup] /\ cleaning'[k] = "cancelling"
        /\ \A j \in {"own", "late"} : j # k => cleaning'[j] = cleaning[j]
    BY <2>1 DEF CallTyped, Cleanup
  <2>5. cancel' \in C!Reply
    BY <2>1 DEF CallTyped, C!Reply
  <2>. QED
    BY <1>1, <2>1, <2>3, <2>4, <2>5 DEF CallTyped
<1>2. CASE ~(known /\ ~closed /\ ~connClosed)
  <2>1. timer' = FALSE /\ C!Leave(k) /\ cancel' = cancel
    BY <1>2 DEF C!CleanUp
  <2>. QED
    BY <1>2, <2>1, LeaveFacts DEF CallTyped
<1>. QED
  BY <1>1, <1>2

\* finish does nothing the second time.
LEMMA FinishFacts ==
    ASSUME CallTyped, NEW v \in Verdict, C!Finish(v)
    PROVE  /\ settled' = TRUE /\ verdict' \in Verdict /\ timer' \in BOOLEAN /\ overtaken' \in SUBSET Message
           /\ cleaning' \in [{"own", "late"} -> Cleanup] /\ cleaning'["late"] = cleaning["late"]
           /\ cancel' \in C!Reply /\ close' \in C!Reply /\ closed' \in BOOLEAN
           /\ toServer' \in Seq(Frame) /\ \A m \in Message : AckSent(m)' => AckSent(m)
           /\ Sent(CloseFrame)' => Sent(CloseFrame) \/ close' # "none"
           /\ \/ /\ settled
                 /\ UNCHANGED <<settled, verdict, timer, cleaning, cancel, close, closed, toServer, overtaken>>
              \/ /\ ~settled /\ verdict' = v /\ timer' = FALSE
                 /\ overtaken' = overtaken \cup {m \in Message : callback[m] \in {"decoding", "acking"} /\ m # v}
                 /\ \/ /\ consume = "known" /\ ~closed /\ cleaning'["own"] = "cancelling"
                       /\ close' = close /\ closed' = closed
                    \/ closed /\ closed' /\ cleaning'["own"] = "done" /\ close' = close
                    \/ ~closed /\ cleaning'["own"] = "closing" /\ CloseBegun
<1>1. CASE settled
  <2>1. UNCHANGED <<settled, verdict, timer, cleaning, cancel, close, closed, toServer, overtaken>>
    BY <1>1 DEF C!Finish
  <2>2. /\ \A m \in Message : AckSent(m)' => AckSent(m)
        /\ Sent(CloseFrame)' => Sent(CloseFrame)
    BY <2>1 DEF AckSent, Sent
  <2>3. settled' = TRUE
    BY <1>1, <2>1 DEF CallTyped
  <2>. QED
    BY <1>1, <2>1, <2>2, <2>3 DEF CallTyped
<1>2. CASE ~settled
  <2>1. /\ settled' = TRUE /\ verdict' = v
        /\ overtaken' = overtaken \cup {m \in Message : callback[m] \in {"decoding", "acking"} /\ m # v}
        /\ C!CleanUp("own", consume = "known")
    BY <1>2 DEF C!Finish
  <2>2. overtaken' \in SUBSET Message
    BY <2>1 DEF CallTyped
  <2>3. (consume = "known") \in BOOLEAN
    OBVIOUS
  <2>4. /\ timer' = FALSE /\ cancel' \in C!Reply
        /\ cleaning' \in [{"own", "late"} -> Cleanup] /\ close' \in C!Reply /\ closed' \in BOOLEAN
        /\ toServer' \in Seq(Frame) /\ \A m \in Message : AckSent(m)' => AckSent(m)
        /\ Sent(CloseFrame)' => Sent(CloseFrame) \/ close' # "none"
        /\ cleaning'["late"] = cleaning["late"]
        /\ \/ /\ consume = "known" /\ ~closed /\ cleaning'["own"] = "cancelling"
              /\ close' = close /\ closed' = closed
           \/ closed /\ closed' /\ cleaning'["own"] = "done" /\ close' = close
           \/ ~closed /\ cleaning'["own"] = "closing" /\ CloseBegun
    <3>1. "own" \in {"own", "late"} /\ "late" \in {"own", "late"} /\ "own" # "late"
      OBVIOUS
    <3>. QED
      BY <2>1, <2>3, <3>1, CleanUpFacts
  <2>. QED
    BY <1>2, <2>1, <2>2, <2>4
<1>. QED
  BY <1>1, <1>2 DEF CallTyped

\* A step that calls finish keeps the types.
LEMMA TypedFinish ==
    ASSUME CallTyped, NEW v \in Verdict, C!Finish(v), callback' \in [Message -> C!Place],
           consume' \in {"none", "asked", "answered", "registered", "known", "rejected", "over"},
           UNCHANGED <<call, given, timed, ended, link, connClosed, silent, serving, consuming, unacked, ready, consumed,
                       stranded, unheard>>
    PROVE  CallTyped'
<1>1. /\ settled' \in BOOLEAN /\ verdict' \in Verdict /\ timer' \in BOOLEAN /\ overtaken' \in SUBSET Message
      /\ cleaning' \in [{"own", "late"} -> Cleanup]
      /\ cancel' \in C!Reply /\ close' \in C!Reply /\ closed' \in BOOLEAN
      /\ toServer' \in Seq(Frame)
  BY FinishFacts
<1>. QED
  BY <1>1 DEF CallTyped

\* The promise jobs keep the types.
LEMMA TypedJobs ==
    ASSUME CallTyped, C!Jobs
    PROVE  CallTyped'
<1>. USE DEF CallTyped, C!callVars, C!chanVars, C!connVars, C!brokerVars, C!history
<1>1. CASE C!Settle
  BY <1>1 DEF C!Settle
<1>2. CASE C!Opened
  <2>1. <<"qos", NoMessage>> \in Frame
    BY DEF Frame
  <2>2. toServer' \in Seq(Frame)
    BY <1>2, <2>1, WriteFrame DEF C!Opened
  <2>. QED
    BY <1>2, <2>2 DEF C!Opened
<1>3. CASE C!Register
  BY <1>3 DEF C!Register
<1>4. CASE C!Then
  <2>1. CASE settled /\ C!CleanUp("late", TRUE)
    <3>1. /\ timer' = FALSE /\ cancel' \in C!Reply
          /\ cleaning' \in [{"own", "late"} -> Cleanup] /\ close' \in C!Reply /\ closed' \in BOOLEAN
          /\ toServer' \in Seq(Frame)
      BY <2>1, CleanUpFacts
    <3>2. /\ consume' = "known"
          /\ UNCHANGED <<call, settled, verdict, given, timed, ended, link, connClosed, silent, callback, serving, consuming,
                         unacked, ready, consumed, overtaken, stranded, unheard>>
      BY <1>4 DEF C!Then
    <3>3. timer' \in BOOLEAN
      BY <3>1
    <3>. QED
      BY <3>1, <3>2, <3>3
  <2>2. CASE ~settled /\ timer' = timed /\ UNCHANGED <<cleaning, cancel, close, closed, toServer>>
    BY <1>4, <2>2 DEF C!Then
  <2>. QED
    BY <1>4, <2>1, <2>2 DEF C!Then
<1>5. CASE C!ConsumeFails
  <2>1. "failed" \in Verdict /\ C!Finish("failed") /\ consume' = "over"
    BY <1>5 DEF C!ConsumeFails, Verdict
  <2>. QED
    BY <1>5, <2>1, TypedFinish DEF C!ConsumeFails
<1>6. CASE C!WaitEnds
  <2>1. "ended" \in Verdict /\ C!Finish("ended")
    BY <1>6 DEF C!WaitEnds, Verdict
  <2>. QED
    BY <1>6, <2>1, TypedFinish DEF C!WaitEnds
<1>7. ASSUME NEW k \in {"own", "late"}, C!CancelSettled(k) PROVE CallTyped'
  <2>1. /\ C!Leave(k)
        /\ UNCHANGED <<call, settled, verdict, timer, given, timed, consume, ended, cancel, link, connClosed, silent, callback,
                       serving, consuming, unacked, ready, consumed, overtaken, stranded, unheard>>
    BY <1>7 DEF C!CancelSettled
  <2>2. /\ cleaning' \in [{"own", "late"} -> Cleanup] /\ close' \in C!Reply /\ closed' \in BOOLEAN
        /\ toServer' \in Seq(Frame)
    BY <2>1, LeaveFacts
  <2>. QED
    BY <2>1, <2>2
<1>8. ASSUME NEW k \in {"own", "late"}, C!CloseSettled(k) PROVE CallTyped'
  BY <1>8 DEF C!CloseSettled, Cleanup
<1>9. ASSUME NEW m \in Message, C!Deliver(m) PROVE CallTyped'
  <2>1. callback' \in [Message -> C!Place]
    BY <1>9 DEF C!Deliver, C!Place
  <2>2. toServer' \in Seq(Frame)
    <3>1. <<"nack", m>> \in Frame
      BY DEF Frame
    <3>. QED
      BY <1>9, <3>1, WriteFrame DEF C!Deliver
  <2>. QED
    BY <1>9, <2>1, <2>2 DEF C!Deliver
<1>10. ASSUME NEW m \in Message, C!Decoded(m) PROVE CallTyped'
  <2>1. callback' \in [Message -> C!Place]
    BY <1>10 DEF C!Decoded, C!Place
  <2>2. CASE ~closed /\ link
    <3>1. <<"ack", m>> \in Frame
      BY DEF Frame
    <3>2. toServer' \in Seq(Frame)
      BY <1>10, <2>2, <3>1, WriteFrame DEF C!Decoded
    <3>. QED
      BY <1>10, <2>1, <2>2, <3>2 DEF C!Decoded
  <2>3. CASE closed \/ ~link
    <3>1. "failed" \in Verdict /\ C!Finish("failed")
      BY <1>10, <2>3 DEF C!Decoded, Verdict
    <3>. QED
      BY <1>10, <2>1, <3>1, TypedFinish DEF C!Decoded
  <2>. QED
    BY <2>2, <2>3
<1>11. ASSUME NEW m \in Message, C!DecodeFails(m) \/ C!Acked(m) PROVE CallTyped'
  <2>1. callback' \in [Message -> C!Place]
    BY <1>11 DEF C!DecodeFails, C!Acked, C!Place
  <2>2. PICK v \in Verdict : C!Finish(v)
    BY <1>11 DEF C!DecodeFails, C!Acked, Verdict
  <2>. QED
    BY <1>11, <2>1, <2>2, TypedFinish DEF C!DecodeFails, C!Acked
<1>12. ASSUME NEW m \in Message, C!Nacked(m) PROVE CallTyped'
  <2>1. callback' \in [Message -> C!Place]
    BY <1>12 DEF C!Nacked, C!Place
  <2>. QED
    BY <1>12, <2>1 DEF C!Nacked
<1>. QED
  BY <1>1, <1>2, <1>3, <1>4, <1>5, <1>6, <1>7, <1>8, <1>9, <1>10, <1>11, <1>12 DEF C!Jobs

\* So do the broker, the timer and the faults.
LEMMA TypedRest ==
    ASSUME CallTyped, C!Answers \/ C!Faults \/ C!TimerFires \/ \E m \in Message : C!Dispatch(m)
    PROVE  CallTyped'
<1>. USE DEF CallTyped, C!callVars, C!chanVars, C!connVars, C!brokerVars, C!history
<1>1. CASE C!TimerFires
  <2>1. "timeout" \in Verdict /\ C!Finish("timeout")
    BY <1>1 DEF C!TimerFires, Verdict
  <2>. QED
    BY <1>1, <2>1, TypedFinish DEF C!TimerFires
<1>2. CASE C!QosOk
  BY <1>2, TakeFrame DEF C!QosOk, C!Sends
<1>3. CASE C!ConsumeOk
  BY <1>3 DEF C!ConsumeOk
<1>4. CASE C!CancelOk
  <2>1. /\ toServer' \in Seq(Frame) /\ consuming' \in BOOLEAN /\ cancel' \in C!Reply /\ ended' \in BOOLEAN
        /\ UNCHANGED <<call, settled, verdict, timer, cleaning, given, timed, consume,
                       close, closed, link, connClosed, silent, callback, serving, unacked,
                       ready, consumed, overtaken, stranded, unheard>>
    BY <1>4, TakeFrame DEF C!CancelOk, C!Sends, C!Reply
  <2>. QED
    BY <2>1
<1>5. CASE C!CloseOk
  <2>1. toServer' \in Seq(Frame) /\ close' \in C!Reply
    BY <1>5, TakeFrame DEF C!CloseOk, C!Sends, C!Reply
  <2>2. /\ serving' \in BOOLEAN /\ consuming' \in BOOLEAN /\ unacked' \in Message \cup {NoMessage}
        /\ ready' \in SUBSET Message /\ consumed' \in SUBSET Message
    BY <1>5 DEF C!CloseOk, C!Requeue
  <2>3. UNCHANGED <<call, settled, verdict, timer, cleaning, given, timed, consume, ended, cancel, closed,
                    link, connClosed, silent, callback, overtaken, stranded, unheard>>
    BY <1>5 DEF C!CloseOk
  <2>. QED
    BY <2>1, <2>2, <2>3
<1>6. ASSUME NEW m \in Message, C!TakeAck(m) \/ C!TakeNack(m) PROVE CallTyped'
  BY <1>6, TakeFrame DEF C!TakeAck, C!TakeNack, C!Sends
<1>7. ASSUME NEW m \in Message, C!Dispatch(m) PROVE CallTyped'
  <2>1. callback' \in [Message -> C!Place]
    BY <1>7 DEF C!Dispatch, C!Place
  <2>. QED
    BY <1>7, <2>1 DEF C!Dispatch
<1>8. CASE C!ServerCancels
  <2>1. /\ consuming' \in BOOLEAN /\ ended' \in BOOLEAN
        /\ UNCHANGED <<call, settled, verdict, timer, cleaning, given, timed, consume, cancel, close, closed,
                       link, connClosed, silent, callback, toServer, serving, unacked, ready, consumed, overtaken, stranded, unheard>>
    BY <1>8 DEF C!ServerCancels
  <2>. QED
    BY <2>1
<1>9. CASE C!ServerCloses \/ C!ConnectionLost \/ C!ConnectionCloseOk
  <2>1. /\ C!ChannelEnds /\ link' \in BOOLEAN /\ timed' = timed
        /\ connClosed' \in BOOLEAN /\ silent' = silent
    BY <1>9 DEF C!ServerCloses, C!ConnectionLost, C!ConnectionCloseOk, C!ChannelEnds
  <2>2. /\ consume' \in {"none", "asked", "answered", "registered", "known", "rejected", "over"}
        /\ ended' \in BOOLEAN /\ closed' \in BOOLEAN /\ stranded' \in BOOLEAN
    BY <2>1 DEF C!ChannelEnds, C!SetClosed
  <2>3. cancel' \in C!Reply
    BY <2>1 DEF C!ChannelEnds, C!SetClosed, C!Reply
  <2>4. /\ serving' \in BOOLEAN /\ consuming' \in BOOLEAN /\ unacked' \in Message \cup {NoMessage}
        /\ ready' \in SUBSET Message /\ consumed' \in SUBSET Message
    BY <2>1 DEF C!ChannelEnds, C!Requeue
  <2>5. call' \in {"opening", "qos", "pending", "resolved", "rejected"} /\ toServer' \in Seq(Frame)
    BY <2>1 DEF C!ChannelEnds
  <2>6. UNCHANGED <<settled, verdict, timer, cleaning, given, timed, close, callback, overtaken, unheard>>
    BY <2>1 DEF C!ChannelEnds
  <2>. QED
    BY <2>1, <2>2, <2>3, <2>4, <2>5, <2>6
<1>10. CASE C!ClientCloses
  BY <1>10 DEF C!ClientCloses
<1>11. CASE C!LostSilently
  <2>1. /\ serving' \in BOOLEAN /\ consuming' \in BOOLEAN /\ unacked' \in Message \cup {NoMessage}
        /\ ready' \in SUBSET Message /\ consumed' \in SUBSET Message
    BY <1>11 DEF C!LostSilently, C!Requeue
  <2>4. toServer' \in Seq(Frame)
    BY <1>11 DEF C!LostSilently
  <2>3. stranded' \in BOOLEAN /\ link' \in BOOLEAN /\ connClosed' \in BOOLEAN /\ silent' \in BOOLEAN
    BY <1>11 DEF C!LostSilently
  <2>2. UNCHANGED <<call, settled, verdict, timer, cleaning, given, timed, consume, ended, cancel, close,
                    closed, callback, overtaken, unheard>>
    BY <1>11 DEF C!LostSilently
  <2>. QED
    BY <2>1, <2>2, <2>3, <2>4
<1>12. CASE C!WriteFails
  <2>1. /\ call' \in {"opening", "qos", "pending", "resolved", "rejected"}
        /\ consume' \in {"none", "asked", "answered", "registered", "known", "rejected", "over"}
        /\ cancel' \in C!Reply /\ close' \in C!Reply
    BY <1>12 DEF C!WriteFails, C!Reply
  <2>2. UNCHANGED <<settled, verdict, timer, cleaning, given, timed, ended, closed, link, connClosed, silent,
                    callback, toServer, serving, consuming, unacked, ready, consumed, overtaken,
                    stranded, unheard>>
    BY <1>12 DEF C!WriteFails
  <2>. QED
    BY <2>1, <2>2
<1>. QED
  BY <1>1, <1>2, <1>3, <1>4, <1>5, <1>6, <1>7, <1>8, <1>9, <1>10, <1>11, <1>12 DEF C!Answers, C!Faults

\* finish, by the timer, the end of the consumer, a failure or the callback that has
\* acknowledged its message, keeps the invariant.
LEMMA FinishKeeps ==
    ASSUME CallTyped, CallInv, NEW v \in Verdict, v # "none", C!Finish(v),
           consume # "none", consume' = consume \/ (consume = "rejected" /\ consume' = "over"),
           callback' \in [Message -> C!Place],
           \A m \in Message : \/ callback'[m] = callback[m]
                              \/ callback[m] \in {"decoding", "acking"} /\ callback'[m] = "over",
           v \in Message => callback[v] = "acking" /\ callback'[v] = "over",
           UNCHANGED <<call, given, link, serving, consuming, unacked, consumed>>
    PROVE  CallInv'
<1>f. /\ settled' = TRUE
      /\ cleaning'["late"] = cleaning["late"] /\ \A m \in Message : AckSent(m)' => AckSent(m)
      /\ \/ /\ settled
            /\ UNCHANGED <<settled, verdict, cleaning, close, closed, overtaken>>
         \/ /\ ~settled /\ verdict' = v
            /\ overtaken' = overtaken \cup {m \in Message : callback[m] \in {"decoding", "acking"} /\ m # v}
            /\ \/ /\ consume = "known" /\ ~closed /\ cleaning'["own"] = "cancelling"
                  /\ close' = close /\ closed' = closed
               \/ closed /\ closed' /\ cleaning'["own"] = "done" /\ close' = close
               \/ ~closed /\ cleaning'["own"] = "closing" /\ CloseBegun
  BY FinishFacts
<1>1. StageInv'
  BY DEF CallInv, StageInv
<1>2. VerdictInv'
  <2>1. CASE settled
    <3>1. UNCHANGED <<settled, verdict, overtaken, call, given>>
      BY <1>f, <2>1
    <3>2. verdict \in Message => callback'[verdict] = "over"
      BY DEF CallInv, VerdictInv
    <3>3. \A m \in Message : callback'[m] \in {"decoding", "acking"} => m \in overtaken
      BY <2>1 DEF CallInv, VerdictInv
    <3>. QED
      BY <2>1, <3>1, <3>2, <3>3 DEF CallInv, VerdictInv, Done
  <2>2. CASE ~settled
    <3>1. verdict' = v /\ ~Done
      BY <1>f, <2>2 DEF CallInv, VerdictInv
    <3>2. \A m \in Message : callback'[m] \in {"decoding", "acking"} => m \in overtaken'
      <4> SUFFICES ASSUME NEW m \in Message, callback'[m] \in {"decoding", "acking"} PROVE m \in overtaken'
        OBVIOUS
      <4>1. callback[m] = callback'[m] /\ m # v
        OBVIOUS
      <4>. QED
        BY <4>1, <1>f, <2>2
    <3>. QED
      BY <3>1, <3>2, <1>f DEF VerdictInv, Done
  <2>. QED
    BY <2>1, <2>2
<1>3. AckInv'
  <2> SUFFICES ASSUME NEW m \in Message, m \in consumed \/ AckSent(m)
               PROVE  \/ callback'[m] = "acking"
                      \/ callback'[m] = "over" /\ (verdict' = m \/ m \in overtaken')
    BY <1>f DEF AckInv
  <2>1. CASE callback[m] = "acking" /\ callback'[m] = "over"
    <3>1. CASE settled
      BY <2>1, <3>1, <1>f DEF CallInv, VerdictInv
    <3>2. CASE ~settled
      BY <2>1, <3>2, <1>f
    <3>. QED
      BY <3>1, <3>2
  <2>2. CASE ~(callback[m] = "acking" /\ callback'[m] = "over")
    <3>1. callback[m] = "acking" \/ (callback[m] = "over" /\ settled /\ (verdict = m \/ m \in overtaken))
      BY DEF CallInv, AckInv
    <3>2. callback'[m] = callback[m]
      BY <2>2, <3>1
    <3>. QED
      BY <3>1, <3>2, <1>f
  <2>. QED
    BY <2>1, <2>2
<1>4. CleanInv'
  <2>1. CASE settled
    BY <1>f, <2>1 DEF CallInv, CleanInv
  <2>2. CASE ~settled
    <3>1. cleaning["own"] = "none" /\ close = "none"
      BY <2>2 DEF CallInv, CleanInv
    <3>. QED
      BY <1>f, <2>2, <3>1 DEF CallInv, CleanInv, CloseBegun
  <2>. QED
    BY <2>1, <2>2
<1>5. BrokerInv'
  <2>1. CASE settled
    BY <1>f, <2>1 DEF CallInv, BrokerInv, Done
  <2>2. CASE ~settled
    <3>1. cleaning["own"] = "none" /\ close = "none"
      BY <2>2 DEF CallInv, CleanInv
    <3>2. /\ ~serving => ~consuming /\ unacked = NoMessage
          /\ closed => ~serving
          /\ ~link => ~serving
          /\ Done => ~serving
      BY <3>1 DEF CallInv, BrokerInv
    <3>3. /\ closed' /\ close' = "none" => closed
          /\ close' # "answered" /\ (close' = "rejected" => ~link)
          /\ cleaning'["own"] = "done" => closed
      <4>1. closed \in BOOLEAN /\ closed' \in BOOLEAN
        BY FinishFacts DEF CallTyped
      <4>. QED
        BY <1>f, <2>2, <3>1, <4>1 DEF CloseBegun
    <3>4. UNCHANGED <<call, link, serving, consuming, unacked>>
      OBVIOUS
    <3>5. ~link' => ~serving'
      BY <3>2, <3>4
    <3>6. closed' /\ close' = "none" => ~serving'
      BY <3>2, <3>3, <3>4
    <3>7. close' \in {"answered", "rejected"} => ~serving'
      BY <3>2, <3>3, <3>4
    <3>8. cleaning'["own"] = "done" => ~serving'
      BY <3>2, <3>3, <3>4
    <3>. QED
      BY <3>2, <3>4, <3>5, <3>6, <3>7, <3>8 DEF BrokerInv, Done
  <2>. QED
    BY <2>1, <2>2
<1>. QED
  BY <1>1, <1>2, <1>3, <1>4, <1>5 DEF CallInv

\* The promise jobs keep the invariant, one by one.
LEMMA JobsKeep ==
    ASSUME CallTyped, CallInv, C!Jobs
    PROVE  CallInv'
<1>. USE DEF C!callVars, C!chanVars, C!connVars, C!brokerVars, C!history
<1>t. CallTyped'
  BY TypedJobs
<1>1. CASE C!Settle
  <2>1. /\ call = "pending" /\ settled /\ cleaning["own"] = "done"
        /\ IF verdict \in Message THEN call' = "resolved" /\ given' = verdict
                                  ELSE call' = "rejected" /\ UNCHANGED given
        /\ UNCHANGED <<settled, verdict, timer, cleaning, consume, close, closed, callback, toServer,
                       link, serving, consuming, unacked, consumed, overtaken>>
    BY <1>1 DEF C!Settle, C!CleanedUp
  <2>2. StageInv'
    BY <2>1 DEF CallInv, StageInv, AckSent, Sent
  <2>3. VerdictInv'
    BY <2>1 DEF CallInv, VerdictInv, Done
  <2>4. AckInv' /\ CleanInv'
    BY <2>1 DEF CallInv, AckInv, CleanInv, AckSent, Sent
  <2>5. BrokerInv'
    BY <2>1 DEF CallInv, BrokerInv, Done
  <2>. QED
    BY <2>2, <2>3, <2>4, <2>5 DEF CallInv
<1>2. CASE C!Opened
  <2>2. \A m \in Message : AckSent(m)' => AckSent(m)
    BY <1>2, FrameKinds, WriteFrame DEF C!Opened, CallTyped, AckSent, Sent
  <2>. QED
    BY <1>2, <2>2 DEF C!Opened, CallInv, StageInv, VerdictInv, AckInv, CleanInv, BrokerInv, Done
<1>3. CASE C!Register
  BY <1>3 DEF C!Register, CallInv, StageInv, VerdictInv, AckInv, CleanInv, BrokerInv, Done, AckSent, Sent
<1>4. CASE C!Then
  <2>0. /\ consume = "registered" /\ consume' = "known"
        /\ UNCHANGED <<call, settled, verdict, given, callback, link, serving, consuming, unacked, consumed, overtaken>>
    BY <1>4 DEF C!Then
  <2>1. CASE settled /\ C!CleanUp("late", TRUE)
    <3>1. cleaning["own"] \in {"closing", "done"} /\ closed
      <4>1. cleaning["own"] \in Cleanup
        BY DEF CallTyped
      <4>. QED
        BY <2>0, <2>1, <4>1 DEF CallInv, CleanInv, Cleanup
    <3>2. /\ cleaning'["own"] = cleaning["own"] /\ cleaning'["late"] = "done" /\ close' = close
          /\ closed' /\ \A m \in Message : AckSent(m)' => AckSent(m)
      BY <2>1, <3>1, CleanUpFacts
    <3>3. StageInv' /\ VerdictInv' /\ AckInv'
      BY <2>0, <3>2 DEF CallInv, StageInv, VerdictInv, AckInv, Done
    <3>4. CleanInv' /\ BrokerInv'
      BY <2>0, <3>1, <3>2 DEF CallInv, CleanInv, BrokerInv, Done
    <3>. QED
      BY <3>3, <3>4 DEF CallInv
  <2>2. CASE ~settled /\ UNCHANGED <<cleaning, cancel, close, closed, toServer>>
    BY <2>0, <2>2 DEF CallInv, StageInv, VerdictInv, AckInv, CleanInv, BrokerInv, Done, AckSent, Sent
  <2>. QED
    BY <1>4, <2>1, <2>2 DEF C!Then
<1>5. CASE C!ConsumeFails
  <2>1. C!Finish("failed") /\ "failed" \in Verdict /\ "failed" \notin Message
    BY <1>5 DEF C!ConsumeFails, Verdict
  <2>. QED
    BY <1>5, <1>t, <2>1, FinishKeeps DEF C!ConsumeFails, CallTyped
<1>6. CASE C!WaitEnds
  <2>1. C!Finish("ended") /\ "ended" \in Verdict /\ "ended" \notin Message
    BY <1>6 DEF C!WaitEnds, Verdict
  <2>. QED
    BY <1>6, <1>t, <2>1, FinishKeeps DEF C!WaitEnds, CallTyped
<1>7. ASSUME NEW k \in {"own", "late"}, C!CancelSettled(k) PROVE CallInv'
  <2>1. /\ k = "own" /\ cleaning["own"] = "cancelling" /\ close = "none" /\ C!Leave("own")
        /\ settled /\ consume = "known"
        /\ UNCHANGED <<call, settled, verdict, given, consume, timer, callback, link, serving, consuming, unacked,
                       consumed, overtaken>>
    BY <1>7 DEF C!CancelSettled, CallInv, CleanInv
  <2>2. /\ closed' = TRUE /\ \A m \in Message : AckSent(m)' => AckSent(m)
        /\ cleaning'["late"] = cleaning["late"]
        /\ \/ closed /\ cleaning'["own"] = "done" /\ close' = close
           \/ ~closed /\ cleaning'["own"] = "closing" /\ CloseBegun
    BY <2>1, LeaveFacts
  <2>3. StageInv' /\ VerdictInv' /\ AckInv'
    BY <2>1, <2>2 DEF CallInv, StageInv, VerdictInv, AckInv, Done
  <2>4. CleanInv'
    BY <2>1, <2>2 DEF CallInv, CleanInv, CloseBegun
  <2>5. BrokerInv'
    BY <2>1, <2>2 DEF CallInv, BrokerInv, Done, CloseBegun
  <2>. QED
    BY <2>3, <2>4, <2>5 DEF CallInv
<1>8. ASSUME NEW k \in {"own", "late"}, C!CloseSettled(k) PROVE CallInv'
  <2>1. /\ k = "own" /\ close \in {"answered", "rejected"} /\ cleaning["own"] = "closing"
        /\ cleaning' = [cleaning EXCEPT !["own"] = "done"]
        /\ UNCHANGED <<call, settled, verdict, given, consume, timer, close, closed, callback, toServer,
                       link, serving, consuming, unacked, consumed, overtaken>>
    BY <1>8 DEF C!CloseSettled, CallInv, CleanInv
  <2>2. cleaning'["own"] = "done" /\ cleaning'["late"] = cleaning["late"]
    BY <2>1 DEF CallTyped
  <2>3. StageInv' /\ VerdictInv' /\ AckInv'
    BY <2>1 DEF CallInv, StageInv, VerdictInv, AckInv, Done, AckSent, Sent
  <2>4. CleanInv' /\ BrokerInv'
    BY <2>1, <2>2 DEF CallInv, CleanInv, BrokerInv, Done
  <2>. QED
    BY <2>3, <2>4 DEF CallInv
<1>9. ASSUME NEW m \in Message, C!Deliver(m) PROVE CallInv'
  <2>1. /\ callback[m] = "arrived"
        /\ callback' = [callback EXCEPT ![m] =
             IF ended \/ (settled /\ closed) THEN "over" ELSE IF settled THEN "nacking" ELSE "decoding"]
        /\ toServer' = toServer \/ C!Write(<<"nack", m>>)
        /\ UNCHANGED <<call, settled, verdict, timer, cleaning, given, consume, close, closed,
                       link, serving, consuming, unacked, consumed, overtaken>>
    BY <1>9 DEF C!Deliver, C!TooLate
  <2>2. \A x \in Message : AckSent(x)' => AckSent(x)
    <3>2. CASE toServer' = toServer
      BY <3>2 DEF AckSent, Sent
    <3>3. CASE C!Write(<<"nack", m>>)
      <4>1. toServer \in Seq(Frame) /\ <<"nack", m>> \in Frame
        BY FrameKinds DEF CallTyped
      <4>2. \A g \in Frame : g # <<"nack", m>> /\ Sent(g)' => Sent(g)
        BY <3>3, <4>1, WriteFrame
      <4>. QED
        BY <4>2, FrameKinds DEF AckSent
    <3>. QED
      BY <2>1, <3>2, <3>3
  <2>3. /\ \A x \in Message : x # m => callback'[x] = callback[x]
        /\ callback'[m] \in {"over", "nacking", "decoding"} /\ (callback'[m] = "decoding" => ~settled)
    BY <2>1 DEF CallTyped
  <2>4. m \notin consumed /\ ~AckSent(m) /\ verdict # m /\ consume # "none"
    BY <2>1 DEF CallInv, AckInv, VerdictInv, StageInv
  <2>5. StageInv'
    BY <2>1, <2>4 DEF CallInv, StageInv
  <2>6. VerdictInv'
    BY <2>1, <2>3, <2>4 DEF CallInv, VerdictInv, Done
  <2>7. AckInv'
    BY <2>1, <2>2, <2>3, <2>4 DEF CallInv, AckInv
  <2>8. CleanInv' /\ BrokerInv'
    BY <2>1 DEF CallInv, CleanInv, BrokerInv, Done
  <2>. QED
    BY <2>5, <2>6, <2>7, <2>8 DEF CallInv
<1>10. ASSUME NEW m \in Message, C!Decoded(m) PROVE CallInv'
  <2>0. callback[m] = "decoding" /\ consume # "none"
    BY <1>10 DEF C!Decoded, CallInv, StageInv
  <2>1. CASE closed \/ ~link
    <3>1. C!Finish("failed") /\ "failed" \in Verdict /\ "failed" \notin Message
      BY <1>10, <2>1 DEF C!Decoded, Verdict
    <3>2. \A x \in Message : \/ callback'[x] = callback[x]
                             \/ callback[x] \in {"decoding", "acking"} /\ callback'[x] = "over"
      BY <1>10, <2>0, <2>1 DEF C!Decoded, CallTyped
    <3>. QED
      BY <1>10, <1>t, <2>0, <3>1, <3>2, FinishKeeps DEF C!Decoded, CallTyped
  <2>2. CASE ~closed /\ link
    <3>1. /\ callback' = [callback EXCEPT ![m] = "acking"]
          /\ C!Write(<<"ack", m>>)
          /\ UNCHANGED <<call, settled, verdict, timer, cleaning, given, consume, close, closed,
                         link, serving, consuming, unacked, consumed, overtaken>>
      BY <1>10, <2>2 DEF C!Decoded
    <3>2. \A x \in Message : x # m => callback'[x] = callback[x] /\ (AckSent(x)' => AckSent(x))
      BY <3>1, FrameKinds, WriteFrame DEF CallTyped, AckSent, Sent
    <3>3. callback'[m] = "acking"
      BY <3>1 DEF CallTyped
    <3>4. StageInv' /\ AckInv'
      BY <2>0, <3>1, <3>2, <3>3 DEF CallInv, StageInv, AckInv
    <3>5. VerdictInv'
      BY <2>0, <3>1, <3>2, <3>3 DEF CallInv, VerdictInv, Done
    <3>6. CleanInv' /\ BrokerInv'
      BY <3>1 DEF CallInv, CleanInv, BrokerInv, Done
    <3>. QED
      BY <3>4, <3>5, <3>6 DEF CallInv
  <2>. QED
    BY <2>1, <2>2
<1>11. ASSUME NEW m \in Message, C!DecodeFails(m) \/ C!Acked(m) PROVE CallInv'
  <2>1. /\ callback[m] \in {"decoding", "acking"} /\ consume # "none"
        /\ callback' = [callback EXCEPT ![m] = "over"]
        /\ UNCHANGED <<call, given, consume, link, serving, consuming, unacked, consumed>>
    BY <1>11 DEF C!DecodeFails, C!Acked, CallInv, StageInv
  <2>2. PICK v \in Verdict : C!Finish(v) /\ v # "none" /\ (v \in Message => v = m /\ callback[m] = "acking")
    BY <1>11 DEF C!DecodeFails, C!Acked, Verdict
  <2>3. \A x \in Message : callback'[x] = IF x = m THEN "over" ELSE callback[x]
    BY <2>1 DEF CallTyped
  <2>. QED
    BY <1>t, <2>1, <2>2, <2>3, FinishKeeps DEF CallTyped
<1>12. ASSUME NEW m \in Message, C!Nacked(m) PROVE CallInv'
  <2>1. /\ callback[m] = "nacking" /\ callback' = [callback EXCEPT ![m] = "over"]
        /\ UNCHANGED <<call, settled, verdict, timer, cleaning, given, consume, close, closed, toServer,
                       link, serving, consuming, unacked, consumed, overtaken>>
    BY <1>12 DEF C!Nacked
  <2>2. callback'[m] = "over" /\ \A x \in Message : x # m => callback'[x] = callback[x]
    BY <2>1 DEF CallTyped
  <2>3. StageInv' /\ VerdictInv'
    BY <2>1, <2>2 DEF CallInv, StageInv, VerdictInv, Done, AckSent, Sent
  <2>4. AckInv'
    BY <2>1, <2>2 DEF CallInv, AckInv, AckSent, Sent
  <2>5. CleanInv' /\ BrokerInv'
    BY <2>1 DEF CallInv, CleanInv, BrokerInv, Done
  <2>. QED
    BY <2>3, <2>4, <2>5 DEF CallInv
<1>. QED
  BY <1>1, <1>2, <1>3, <1>4, <1>5, <1>6, <1>7, <1>8, <1>9, <1>10, <1>11, <1>12 DEF C!Jobs

\* The broker, the timer and the faults keep it.
LEMMA RestKeeps ==
    ASSUME CallTyped, CallInv, CloseIsAsked, C!Answers \/ C!Faults \/ C!TimerFires \/ \E m \in Message : C!Dispatch(m)
    PROVE  CallInv'
<1>. USE DEF C!callVars, C!chanVars, C!connVars, C!brokerVars, C!history
<1>t. CallTyped'
  BY TypedRest
<1>1. CASE C!TimerFires
  <2>1. C!Finish("timeout") /\ "timeout" \in Verdict /\ "timeout" \notin Message /\ consume # "none"
    BY <1>1 DEF C!TimerFires, Verdict, CallInv, StageInv
  <2>. QED
    BY <1>1, <1>t, <2>1, FinishKeeps DEF C!TimerFires, CallTyped
<1>2. CASE C!QosOk
  <2>1. /\ call = "qos" /\ call' = "pending" /\ consume' = "asked"
        /\ toServer # <<>> /\ toServer' = Tail(toServer)
        /\ UNCHANGED <<settled, verdict, timer, cleaning, given, close, closed, callback,
                       link, serving, consuming, unacked, consumed, overtaken>>
    BY <1>2 DEF C!QosOk, C!Sends
  <2>2. \A m \in Message : AckSent(m)' => AckSent(m)
    BY <2>1, TakeFrame, FrameKinds DEF CallTyped, AckSent
  <2>3. StageInv' /\ VerdictInv' /\ AckInv'
    BY <2>1, <2>2 DEF CallInv, StageInv, VerdictInv, AckInv, Done
  <2>4. CleanInv' /\ BrokerInv'
    BY <2>1 DEF CallInv, StageInv, CleanInv, BrokerInv, Done
  <2>. QED
    BY <2>3, <2>4 DEF CallInv
<1>3. CASE C!ConsumeOk
  <2>1. /\ consume = "asked" /\ consume' = "answered" /\ serving
        /\ UNCHANGED <<call, settled, verdict, timer, cleaning, given, close, closed, callback, toServer,
                       link, serving, unacked, consumed, overtaken>>
    BY <1>3 DEF C!ConsumeOk
  <2>2. StageInv' /\ VerdictInv' /\ AckInv'
    BY <2>1 DEF CallInv, StageInv, VerdictInv, AckInv, Done, AckSent, Sent
  <2>3. CleanInv' /\ BrokerInv'
    BY <2>1 DEF CallInv, CleanInv, BrokerInv, Done
  <2>. QED
    BY <2>2, <2>3 DEF CallInv
<1>4. CASE C!CancelOk
  <2>1. /\ toServer # <<>> /\ toServer' = Tail(toServer) /\ consuming' = FALSE
        /\ UNCHANGED <<call, settled, verdict, timer, cleaning, given, consume, close, closed, callback,
                       link, serving, unacked, consumed, overtaken>>
    BY <1>4 DEF C!CancelOk, C!Sends
  <2>2. \A m \in Message : AckSent(m)' => AckSent(m)
    BY <2>1, TakeFrame, FrameKinds DEF CallTyped, AckSent
  <2>3. StageInv' /\ VerdictInv' /\ AckInv'
    BY <2>1, <2>2 DEF CallInv, StageInv, VerdictInv, AckInv, Done
  <2>4. CleanInv' /\ BrokerInv'
    BY <2>1 DEF CallInv, CleanInv, BrokerInv, Done
  <2>. QED
    BY <2>3, <2>4 DEF CallInv
<1>5. CASE C!CloseOk
  <2>1. /\ toServer # <<>> /\ toServer' = Tail(toServer) /\ Head(toServer) = <<"close", NoMessage>>
        /\ serving' = FALSE /\ consuming' = FALSE /\ unacked' = NoMessage /\ close' = "answered"
        /\ UNCHANGED <<call, settled, verdict, timer, cleaning, given, consume, closed, callback,
                       consumed, overtaken>>
    BY <1>5 DEF C!CloseOk, C!Sends, C!Requeue
  <2>2. \A m \in Message : AckSent(m)' => AckSent(m)
    BY <2>1, TakeFrame, FrameKinds DEF CallTyped, AckSent
  <2>3. StageInv' /\ VerdictInv' /\ AckInv'
    BY <2>1, <2>2 DEF CallInv, StageInv, VerdictInv, AckInv, Done
  <2>4. CleanInv' /\ BrokerInv'
    <3>1. close # "none"
      BY <2>1, TakeFrame DEF CallTyped, CloseIsAsked, CloseFrame
    <3>. QED
      BY <2>1, <3>1 DEF CallInv, CleanInv, BrokerInv, Done
  <2>. QED
    BY <2>3, <2>4 DEF CallInv
<1>6. ASSUME NEW m \in Message, C!TakeAck(m) \/ C!TakeNack(m) PROVE CallInv'
  <2>1. /\ toServer # <<>> /\ toServer' = Tail(toServer) /\ unacked' = NoMessage
        /\ Head(toServer) = <<"ack", m>> \/ consumed' = consumed
        /\ consumed' \in {consumed, consumed \cup {m}}
        /\ UNCHANGED <<call, settled, verdict, timer, cleaning, given, consume, close, closed, callback,
                       link, serving, consuming, overtaken>>
    BY <1>6 DEF C!TakeAck, C!TakeNack, C!Sends
  <2>2. \A x \in Message : AckSent(x)' \/ x \in consumed' => AckSent(x) \/ x \in consumed
    BY <2>1, TakeFrame, FrameKinds DEF CallTyped, AckSent
  <2>3. AckInv'
    BY <2>1, <2>2 DEF CallInv, AckInv
  <2>4. StageInv'
    <3>1. consume = "none" => consumed' = {}
      BY <2>2, <1>t DEF CallInv, StageInv, CallTyped
    <3>. QED
      BY <2>1, <2>2, <3>1 DEF CallInv, StageInv
  <2>5. VerdictInv' /\ CleanInv' /\ BrokerInv'
    BY <2>1 DEF CallInv, VerdictInv, CleanInv, BrokerInv, Done
  <2>. QED
    BY <2>3, <2>4, <2>5 DEF CallInv
<1>7. ASSUME NEW m \in Message, C!Dispatch(m) PROVE CallInv'
  <2>1. /\ serving /\ consuming /\ callback[m] = "none" /\ callback' = [callback EXCEPT ![m] = "arrived"]
        /\ UNCHANGED <<call, settled, verdict, timer, cleaning, given, consume, close, closed, toServer,
                       link, serving, consuming, consumed, overtaken>>
    BY <1>7 DEF C!Dispatch
  <2>2. callback'[m] = "arrived" /\ \A x \in Message : x # m => callback'[x] = callback[x]
    BY <2>1 DEF CallTyped
  <2>3. StageInv' /\ VerdictInv'
    BY <2>1, <2>2 DEF CallInv, StageInv, VerdictInv, Done, AckSent, Sent
  <2>4. AckInv'
    BY <2>1, <2>2 DEF CallInv, AckInv, AckSent, Sent
  <2>5. CleanInv' /\ BrokerInv'
    BY <2>1 DEF CallInv, CleanInv, BrokerInv, Done
  <2>. QED
    BY <2>3, <2>4, <2>5 DEF CallInv
<1>8. CASE C!ServerCancels
  <2>1. /\ consuming' = FALSE
        /\ UNCHANGED <<call, settled, verdict, timer, cleaning, given, consume, close, closed, callback,
                       toServer, link, serving, unacked, consumed, overtaken>>
    BY <1>8 DEF C!ServerCancels
  <2>2. StageInv' /\ VerdictInv' /\ AckInv'
    BY <2>1 DEF CallInv, StageInv, VerdictInv, AckInv, Done, AckSent, Sent
  <2>3. CleanInv' /\ BrokerInv'
    BY <2>1 DEF CallInv, CleanInv, BrokerInv, Done
  <2>. QED
    BY <2>2, <2>3 DEF CallInv
<1>9. CASE C!ServerCloses \/ C!ConnectionLost \/ C!ConnectionCloseOk
  <2>1. /\ closed' = TRUE /\ serving' = FALSE /\ consuming' = FALSE /\ unacked' = NoMessage
        /\ toServer' = <<>> /\ consumed' = consumed
        /\ call' = IF call \in {"opening", "qos"} THEN "rejected" ELSE call
        /\ consume' \in {consume, "rejected"} /\ (consume' # consume => consume = "asked")
        /\ UNCHANGED <<settled, verdict, timer, cleaning, given, close, callback, overtaken>>
    BY <1>9 DEF C!ServerCloses, C!ConnectionLost, C!ConnectionCloseOk, C!ChannelEnds, C!SetClosed, C!Requeue
  <2>2. \A m \in Message : ~AckSent(m)'
    BY <2>1 DEF AckSent, Sent
  <2>3. StageInv' /\ AckInv'
    BY <2>1, <2>2 DEF CallInv, StageInv, AckInv
  <2>4. VerdictInv'
    BY <2>1 DEF CallInv, StageInv, VerdictInv, Done
  <2>5. CleanInv'
    BY <2>1 DEF CallInv, CleanInv
  <2>6. BrokerInv'
    BY <2>1 DEF BrokerInv
  <2>. QED
    BY <2>3, <2>4, <2>5, <2>6 DEF CallInv
<1>10. CASE C!ClientCloses
  <2>1. UNCHANGED <<call, settled, verdict, timer, cleaning, given, consume, close, closed, callback, toServer,
                    link, serving, consuming, unacked, consumed, overtaken>>
    BY <1>10 DEF C!ClientCloses
  <2>2. StageInv' /\ VerdictInv' /\ AckInv'
    BY <2>1 DEF CallInv, StageInv, VerdictInv, AckInv, Done, AckSent, Sent
  <2>3. CleanInv' /\ BrokerInv'
    BY <2>1 DEF CallInv, CleanInv, BrokerInv, Done
  <2>. QED
    BY <2>2, <2>3 DEF CallInv
<1>11. CASE C!LostSilently
  <2>1. /\ serving' = FALSE /\ consuming' = FALSE /\ unacked' = NoMessage
        /\ toServer' = <<>> /\ consumed' = consumed
        /\ UNCHANGED <<call, settled, verdict, timer, cleaning, given, consume, close, closed, callback, overtaken>>
    BY <1>11 DEF C!LostSilently, C!Requeue
  <2>2. \A m \in Message : ~AckSent(m)'
    BY <2>1 DEF AckSent, Sent
  <2>3. StageInv' /\ VerdictInv' /\ AckInv'
    BY <2>1, <2>2 DEF CallInv, StageInv, VerdictInv, AckInv, Done
  <2>4. CleanInv' /\ BrokerInv'
    BY <2>1 DEF CallInv, CleanInv, BrokerInv
  <2>. QED
    BY <2>3, <2>4 DEF CallInv
<1>12. CASE C!WriteFails
  <2>1. /\ ~link /\ link' = link
        /\ call' = IF call \in {"opening", "qos"} THEN "rejected" ELSE call
        /\ consume' = IF consume = "asked" THEN "rejected" ELSE consume
        /\ close' = IF close = "asked" THEN "rejected" ELSE close
        /\ UNCHANGED <<settled, verdict, timer, cleaning, given, closed, callback, toServer,
                       serving, consuming, unacked, consumed, overtaken>>
    BY <1>12 DEF C!WriteFails
  <2>2. ~serving
    BY <2>1 DEF CallInv, BrokerInv
  <2>3. StageInv' /\ AckInv'
    BY <2>1 DEF CallInv, StageInv, AckInv, AckSent, Sent
  <2>4. VerdictInv'
    BY <2>1 DEF CallInv, StageInv, VerdictInv, Done
  <2>5. CleanInv'
    BY <2>1 DEF CallInv, CleanInv
  <2>6. BrokerInv'
    BY <2>1, <2>2 DEF CallInv, BrokerInv
  <2>. QED
    BY <2>3, <2>4, <2>5, <2>6 DEF CallInv
<1>. QED
  BY <1>1, <1>2, <1>3, <1>4, <1>5, <1>6, <1>7, <1>8, <1>9, <1>10, <1>11, <1>12 DEF C!Answers, C!Faults

\* Channel.Close is written by ch.close() only, whose promise is never reset.
LEMMA CloseStaysAsked ==
    ASSUME CallTyped, CloseIsAsked, C!Next
    PROVE  CloseIsAsked'
<1>. USE DEF C!callVars, C!chanVars, C!connVars, C!brokerVars, C!history, CloseIsAsked
<1>0. ASSUME UNCHANGED <<toServer, close>> PROVE CloseIsAsked'
  BY <1>0 DEF Sent
<1>1. ASSUME NEW v \in Verdict, C!Finish(v) PROVE CloseIsAsked'
  BY <1>1, FinishFacts DEF CloseBegun
<1>2. ASSUME toServer # <<>>, toServer' = Tail(toServer), close' # "none" \/ close' = close PROVE CloseIsAsked'
  BY <1>2, TakeFrame, FrameKinds DEF CallTyped
<1>3. ASSUME NEW f \in Frame, f # CloseFrame, C!Write(f), close' = close PROVE CloseIsAsked'
  BY <1>3, WriteFrame, FrameKinds DEF CallTyped
<1>9. ASSUME toServer' = <<>> PROVE CloseIsAsked'
  BY <1>9 DEF Sent
<1>4. CASE C!Jobs
  <2>1. CASE C!Settle \/ C!Register
    BY <2>1, <1>0 DEF C!Settle, C!Register
  <2>2. CASE C!Opened
    BY <2>2, <1>3, FrameKinds DEF C!Opened
  <2>3. CASE C!Then
    <3>1. CASE C!CleanUp("late", TRUE)
      BY <3>1, CleanUpFacts DEF CloseBegun
    <3>. QED
      BY <2>3, <3>1, <1>0 DEF C!Then
  <2>4. CASE C!ConsumeFails \/ C!WaitEnds
    BY <2>4, <1>1 DEF C!ConsumeFails, C!WaitEnds, Verdict
  <2>5. ASSUME NEW k \in {"own", "late"}, C!CancelSettled(k) PROVE CloseIsAsked'
    BY <2>5, LeaveFacts DEF C!CancelSettled, CloseBegun
  <2>6. ASSUME NEW k \in {"own", "late"}, C!CloseSettled(k) PROVE CloseIsAsked'
    BY <2>6, <1>0 DEF C!CloseSettled
  <2>7. ASSUME NEW m \in Message, C!Deliver(m) PROVE CloseIsAsked'
    BY <2>7, <1>0, <1>3, FrameKinds DEF C!Deliver
  <2>8. ASSUME NEW m \in Message, C!Decoded(m) PROVE CloseIsAsked'
    BY <2>8, <1>1, <1>3, FrameKinds DEF C!Decoded, Verdict
  <2>9. ASSUME NEW m \in Message, C!DecodeFails(m) \/ C!Acked(m) PROVE CloseIsAsked'
    BY <2>9, <1>1 DEF C!DecodeFails, C!Acked, Verdict
  <2>10. ASSUME NEW m \in Message, C!Nacked(m) PROVE CloseIsAsked'
    BY <2>10, <1>0 DEF C!Nacked
  <2>. QED
    BY <1>4, <2>1, <2>2, <2>3, <2>4, <2>5, <2>6, <2>7, <2>8, <2>9, <2>10 DEF C!Jobs
<1>5. CASE C!Answers
  <2>1. CASE C!ConsumeOk
    BY <2>1, <1>0 DEF C!ConsumeOk
  <2>2. CASE C!QosOk \/ C!CancelOk \/ C!CloseOk
    BY <2>2, <1>2 DEF C!QosOk, C!CancelOk, C!CloseOk, C!Sends
  <2>3. ASSUME NEW m \in Message, C!TakeAck(m) \/ C!TakeNack(m) PROVE CloseIsAsked'
    BY <2>3, <1>2 DEF C!TakeAck, C!TakeNack, C!Sends
  <2>4. CASE C!ConnectionCloseOk
    BY <2>4, <1>9 DEF C!ConnectionCloseOk, C!ConnectionLost, C!ChannelEnds
  <2>. QED
    BY <1>5, <2>1, <2>2, <2>3, <2>4 DEF C!Answers
<1>6. CASE C!TimerFires
  BY <1>6, <1>1 DEF C!TimerFires, Verdict
<1>7. CASE C!Faults
  <2>1. CASE C!ServerCancels
    BY <2>1, <1>0 DEF C!ServerCancels
  <2>2. CASE C!ChannelEnds \/ C!LostSilently
    BY <2>2, <1>9 DEF C!ChannelEnds, C!LostSilently
  <2>3. CASE C!ClientCloses
    BY <2>3, <1>0 DEF C!ClientCloses
  <2>4. CASE C!WriteFails
    BY <2>4 DEF C!WriteFails, Sent
  <2>. QED
    BY <1>7, <2>1, <2>2, <2>3, <2>4 DEF C!Faults, C!ServerCloses, C!ConnectionLost
<1>8. ASSUME NEW m \in Message, C!Dispatch(m) PROVE CloseIsAsked'
  BY <1>8, <1>0 DEF C!Dispatch
<1>. QED
  BY <1>4, <1>5, <1>6, <1>7, <1>8 DEF C!Next

\* A step of something else changes nothing of it.
LEMMA CallStutters ==
    ASSUME CallTyped, CallInv, CloseIsAsked, UNCHANGED C!vars
    PROVE  CallTyped' /\ CallInv' /\ CloseIsAsked'
<1>1. CallTyped'
  BY DEF C!vars, C!callVars, C!chanVars, C!connVars, C!brokerVars, C!history, CallTyped
<1>2. StageInv' /\ VerdictInv' /\ AckInv'
  BY DEF C!vars, C!callVars, C!chanVars, C!connVars, C!brokerVars, C!history, CallInv, StageInv, VerdictInv, AckInv, Done, AckSent, Sent
<1>3. CleanInv' /\ BrokerInv'
  BY DEF C!vars, C!callVars, C!chanVars, C!connVars, C!brokerVars, C!history, CallInv, CleanInv, BrokerInv, Done
<1>4. CloseIsAsked'
  BY DEF C!vars, C!callVars, C!chanVars, C!connVars, CloseIsAsked, Sent
<1>. QED
  BY <1>1, <1>2, <1>3, <1>4 DEF CallInv

\* The invariant holds before the call.
LEMMA InitCall == C!Init => CallInv /\ CloseIsAsked
<1> SUFFICES ASSUME C!Init PROVE CallInv /\ CloseIsAsked
  OBVIOUS
<1>1. (\A m \in Message : ~AckSent(m)) /\ ~Sent(CloseFrame)
  <2>1. toServer = <<>> /\ Len(toServer) = 0
    BY DEF C!Init
  <2>. QED
    BY <2>1 DEF AckSent, Sent
<1>2. StageInv /\ VerdictInv /\ AckInv
  BY <1>1 DEF C!Init, StageInv, VerdictInv, AckInv, Done
<1>3. CleanInv /\ BrokerInv
  BY DEF C!Init, CleanInv, BrokerInv, Done
<1>. QED
  BY <1>1, <1>2, <1>3 DEF CallInv, CloseIsAsked

\* Through every interleaving of the callback, the timer, the end of the consumer, the cleanup
\* and the broker, consumeOne keeps its account of what it has acknowledged and closed.
THEOREM ConsumeOneInvariant == C!Spec => [](CallTyped /\ CallInv /\ CloseIsAsked)
<1>1. C!Init => CallTyped /\ CallInv /\ CloseIsAsked
  BY InitTyped, InitCall
<1>2. CallTyped /\ CallInv /\ CloseIsAsked /\ [C!Next]_(C!vars) => (CallTyped /\ CallInv /\ CloseIsAsked)'
  BY TypedJobs, TypedRest, JobsKeep, RestKeeps, CloseStaysAsked, CallStutters DEF C!Next
<1>. QED
  BY <1>1, <1>2, PTL DEF C!Spec

\* consumeOne's flags, promises and frames have their types, for any messages.
THEOREM ConsumeOneTypeCorrect == C!Spec => []C!TypeOK
  BY ConsumeOneInvariant, TypedIsTypeOK, PTL

\* For a queue of any messages: a message the call has removed from the queue is the one it
\* returns, unless its time limit, a failure or the end of the consumer overtook the callback
\* that was decoding or acknowledging it (consumeOne's settled flag and finish).
THEOREM ConsumedIsGivenHolds == C!Spec => []ConsumedIsGiven
<1>1. CallTyped /\ CallInv => ConsumedIsGiven
  <2> SUFFICES ASSUME CallTyped, CallInv, Done, NEW m \in consumed PROVE m \in {given} \cup overtaken
    BY DEF ConsumedIsGiven
  <2>1. m \in Message /\ settled
    BY DEF CallTyped, CallInv, StageInv, VerdictInv
  <2>2. CASE callback[m] = "acking"
    BY <2>1, <2>2 DEF CallInv, VerdictInv
  <2>3. CASE verdict = m \/ m \in overtaken
    BY <2>1, <2>3 DEF CallInv, VerdictInv
  <2>. QED
    BY <2>1, <2>2, <2>3 DEF CallInv, AckInv
<1>. QED
  BY <1>1, ConsumeOneInvariant, PTL

\* When the call settles, its consumer is gone from the broker and no message of it is left
\* unacknowledged, for a queue of any messages (cleanup, awaited by finish).
THEOREM LeavesNothingHolds == C!Spec => []LeavesNothing
<1>1. CallInv => LeavesNothing
  BY DEF LeavesNothing, CallInv, BrokerInv
<1>. QED
  BY <1>1, ConsumeOneInvariant, PTL
=============================================================================
