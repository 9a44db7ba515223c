----------------------------- MODULE Operations ------------------------------
(***************************************************************************)
(* The operations of queue and exchange handles on the two channels a      *)
(* session shares: opsChannel, on which operations take turns              *)
(* (withOpsChannel), and confirmChannel, on which confirmed publishes run  *)
(* side by side.  Both are opened on first use, and again after they were  *)
(* closed by the broker or lost with the connection.                       *)
(*                                                                         *)
(* An operation is one call of an application.  The broker takes the       *)
(* frames of a channel in order; an operation it refuses closes the        *)
(* channel, an unconfirmed publish too, though nobody awaits that one.     *)
(* One queue name is followed: "declare" and "delete" are session.queue    *)
(* and AMQPQueue.delete of that queue.                                     *)
(***************************************************************************)
EXTENDS Naturals, Sequences, FiniteSets

CONSTANTS
    Op,
    MaxChannel,  \* bound: channels opened
    MaxLoss,     \* bound: how often the connection is lost
    None

ASSUME OperationsAssumption ==
    MaxChannel \in Nat /\ MaxLoss \in Nat /\ None \notin Op /\ None \notin 1 .. MaxChannel

Channel == 1 .. MaxChannel

VARIABLES
    kind, bad,           \* the operations, and the ones the broker refuses
    place, on, result,   \* where an operation is, on which channel, how it ended
    opsLock, after,      \* AMQPSession.opsLock; what each operation's then() hangs on
    calls,               \* history: the calls of withOpsChannel, in order
    slot,                \* opsChannel and confirmChannel
    slotPromise,         \* opsChannelPromise and confirmChannelPromise
    role, phase, shut,   \* the channels: for which slot, how far, AMQPChannel.closed
    wire,                \* the frames the broker has not taken
    up, losses,          \* the connection
    blocked, alarm,      \* AMQPBaseClient.blocked; the broker does block this connection
    queues, removals,    \* the cached handle of the queue; how often it was removed
    handle,              \* what session.queue returned, and at which count of removals
    disturbed,           \* history: operations the end of a connection met at work
    blockedInVain        \* history: publishes refused as blocked that the broker would take

plan == <<kind, bad>>
ops == <<place, on, result>>
chain == <<opsLock, after, calls>>
slots == <<slot, slotPromise>>
channels == <<role, phase, shut>>
conn == <<up, losses, blocked, alarm>>
handles == <<queues, removals, handle>>
history == <<disturbed, blockedInVain>>
vars == <<plan, ops, chain, slots, channels, wire, conn, handles, history>>

Role == {"ops", "confirm"}

\* declare  session.queue                    delete  AMQPQueue.delete
\* rpc      bind, unbind, purge, get, exchange, ...
\* publish  publish with confirm: false      confirmed  publish
Kind == {"declare", "delete", "rpc", "publish", "confirmed"}

\* queued: its then() waits for the operation before; opening: it awaits a channel
\* sent: it awaits the answer, the confirm or the write
\* returned: delete has its answer and has not removed the handle
Place == {"new", "queued", "opening", "sent", "returned", "settled"}

\* opening: Channel.Open is sent           opened: answered, its then() is due
\* selecting: Confirm.Select is sent       selected: answered, the continuation is due
\* ready: stored in its slot               failed: rejected, the catch() is due
Phase == {"unused", "opening", "opened", "selecting", "selected", "ready", "failed", "spent"}

TypeOK ==
    /\ kind \in [Op -> Kind] /\ bad \in SUBSET Op
    /\ place \in [Op -> Place] /\ on \in [Op -> Channel \cup {None}]
    /\ result \in [Op -> {"none", "ok", "closed", "blocked", "nacked"}]
    /\ opsLock \in Op \cup {None} /\ after \in [Op -> Op \cup {None}] /\ calls \in Seq(Op)
    /\ slot \in [Role -> Channel \cup {None}] /\ slotPromise \in [Role -> Channel \cup {None}]
    /\ role \in [Channel -> Role] /\ phase \in [Channel -> Phase] /\ shut \in SUBSET Channel
    /\ wire \in [Channel -> Seq(Op)]
    /\ up \in BOOLEAN /\ losses \in Nat /\ blocked \in BOOLEAN /\ alarm \in BOOLEAN
    /\ queues \in Op \cup {None} /\ removals \in Nat
    /\ handle \in [Op -> [made : Op \cup {None}, age : Nat]]
    /\ disturbed \in SUBSET Op /\ blockedInVain \in SUBSET Op

Init ==
    /\ kind \in [Op -> Kind] /\ bad \in SUBSET Op
    /\ place = [o \in Op |-> "new"] /\ on = [o \in Op |-> None] /\ result = [o \in Op |-> "none"]
    /\ opsLock = None /\ after = [o \in Op |-> None] /\ calls = <<>>
    /\ slot = [r \in Role |-> None] /\ slotPromise = [r \in Role |-> None]
    /\ role = [c \in Channel |-> "ops"] /\ phase = [c \in Channel |-> "unused"] /\ shut = {}
    /\ wire = [c \in Channel |-> <<>>]
    /\ up = TRUE /\ losses = 0 /\ blocked = FALSE /\ alarm = FALSE
    /\ queues = None /\ removals = 0 /\ handle = [o \in Op |-> [made |-> None, age |-> 0]]
    /\ disturbed = {} /\ blockedInVain = {}

----------------------------------------------------------------------------
(* Getting a channel *)

Settle(o, how) ==
    /\ place' = [place EXCEPT ![o] = "settled"]
    /\ result' = [result EXCEPT ![o] = how]

\* Mutant: getOpsChannel does not look at closed.
Stored_Any(r) == slot[r] # None
\* the channel of the slot can be used
Stored(r) == slot[r] # None /\ slot[r] \notin shut

\* Mutant: there is no promise of a channel being opened.
Shared_Never(r) == FALSE
\* a channel for the slot is being opened
Shared(r) == slotPromise[r] # None

Await(o, c) == place' = [place EXCEPT ![o] = "opening"] /\ on' = [on EXCEPT ![o] = c]

\* client.channel() for the slot r
OpenChannel(o, r, c) ==
    /\ phase[c] = "unused" /\ \A d \in 1 .. (c - 1) : phase[d] # "unused"
    /\ phase' = [phase EXCEPT ![c] = "opening"] /\ role' = [role EXCEPT ![c] = r]
    /\ slotPromise' = [slotPromise EXCEPT ![r] = c]
    /\ Await(o, c)

\* getOpsChannel and getConfirmChannel, called by o
GetChannel(o, r) ==
    \/ Stored(r) /\ Await(o, slot[r]) /\ UNCHANGED <<result, slotPromise, role, phase, disturbed>>
    \/ /\ ~Stored(r) /\ Shared(r)
       /\ Await(o, slotPromise[r]) /\ UNCHANGED <<result, slotPromise, role, phase, disturbed>>
    \/ /\ ~Stored(r) /\ ~Shared(r) /\ up
       /\ \E c \in Channel : OpenChannel(o, r, c)
       /\ UNCHANGED <<result, disturbed>>
    \/ /\ ~Stored(r) /\ ~Shared(r) /\ ~up
       /\ Settle(o, "closed") /\ disturbed' = disturbed \cup {o}
       /\ UNCHANGED <<on, slotPromise, role, phase>>

\* The then() of getOpsChannel: the channel is stored, though it may be closed by now.
\* getConfirmChannel goes on with confirmSelect.
Opened(c) ==
    /\ phase[c] = "opened"
    /\ \/ /\ role[c] = "ops"
          /\ phase' = [phase EXCEPT ![c] = "ready"]
          /\ slot' = [slot EXCEPT !["ops"] = c] /\ slotPromise' = [slotPromise EXCEPT !["ops"] = None]
       \/ /\ role[c] = "confirm"
          /\ phase' = [phase EXCEPT ![c] = IF c \in shut THEN "failed" ELSE "selecting"]
          /\ UNCHANGED slots
    /\ UNCHANGED <<plan, ops, chain, role, shut, wire, conn, handles, history>>

Selected(c) ==
    /\ phase[c] = "selected"
    /\ phase' = [phase EXCEPT ![c] = "ready"]
    /\ slot' = [slot EXCEPT !["confirm"] = c]
    /\ slotPromise' = [slotPromise EXCEPT !["confirm"] = None]
    /\ UNCHANGED <<plan, ops, chain, role, shut, wire, conn, handles, history>>

\* The catch() of the promise: it is forgotten, whichever is stored.
OpeningFailed(c) ==
    /\ phase[c] = "failed"
    /\ phase' = [phase EXCEPT ![c] = "spent"]
    /\ slotPromise' = [slotPromise EXCEPT ![role[c]] = None]
    /\ UNCHANGED <<plan, ops, chain, slot, role, shut, wire, conn, handles, history>>

----------------------------------------------------------------------------
(* An operation *)

OnOps(o) == kind[o] # "confirmed"

\* withOpsChannel, up to its return; session.queue looks for a cached handle first.
Call(o) ==
    /\ place[o] = "new" /\ OnOps(o)
    /\ \/ /\ kind[o] = "declare" /\ queues # None
          /\ Settle(o, "ok") /\ handle' = [handle EXCEPT ![o] = [made |-> queues, age |-> removals]]
          /\ UNCHANGED chain
       \/ /\ ~(kind[o] = "declare" /\ queues # None)
          /\ place' = [place EXCEPT ![o] = "queued"]
          /\ after' = [after EXCEPT ![o] = opsLock] /\ opsLock' = o
          /\ calls' = Append(calls, o)
          /\ UNCHANGED <<result, handle>>
    /\ UNCHANGED <<plan, on, slots, channels, wire, conn, queues, removals, history>>

Over(o) == place[o] \in {"returned", "settled"}

\* Mutant: withOpsChannel does not wait for the operation before.
ItsTurn_Now(o) == TRUE
\* Mutant: opsLock has no catch().
ItsTurn_Uncaught(o) == after[o] # None => Over(after[o]) /\ result[after[o]] = "ok"
\* opsLock at the time of the call has settled, either way.
ItsTurn(o) == after[o] # None => Over(after[o])

Acquire(o) ==
    /\ place[o] = "queued" /\ ItsTurn(o)
    /\ GetChannel(o, "ops")
    /\ UNCHANGED <<plan, chain, slot, shut, wire, conn, handles, blockedInVain>>

\* publish with confirm: true
Confirmed(o) ==
    /\ place[o] = "new" /\ ~OnOps(o)
    /\ GetChannel(o, "confirm")
    /\ UNCHANGED <<plan, chain, slot, shut, wire, conn, handles, blockedInVain>>

IsPublish(o) == kind[o] \in {"publish", "confirmed"}
IsRpc(o) == ~IsPublish(o)

\* The awaited channel is there: fn(ch), or basicPublish on the confirm channel.
Start(o) ==
    /\ place[o] = "opening" /\ phase[on[o]] = "ready"
    /\ \/ on[o] \in shut /\ Settle(o, "closed") /\ UNCHANGED <<wire, blockedInVain>>
       \/ /\ on[o] \notin shut /\ IsPublish(o) /\ blocked
          /\ Settle(o, "blocked")
          /\ blockedInVain' = IF alarm THEN blockedInVain ELSE blockedInVain \cup {o}
          /\ UNCHANGED wire
       \/ /\ on[o] \notin shut /\ ~(IsPublish(o) /\ blocked)
          /\ place' = [place EXCEPT ![o] = "sent"]
          /\ wire' = [wire EXCEPT ![on[o]] = Append(@, o)]
          /\ UNCHANGED <<result, blockedInVain>>
    /\ UNCHANGED <<plan, on, chain, slots, channels, conn, handles, disturbed>>

\* The awaited channel could not be opened.
StartFailed(o) ==
    /\ place[o] = "opening" /\ phase[on[o]] = "spent"
    /\ Settle(o, "closed")
    /\ UNCHANGED <<plan, on, chain, slots, channels, wire, conn, handles, history>>

\* An unconfirmed publish is done when it is written; without a socket the write may fail.
Written(o) ==
    /\ place[o] = "sent" /\ kind[o] = "publish"
    /\ Settle(o, "ok") \/ (~up /\ Settle(o, "closed"))
    /\ UNCHANGED <<plan, on, chain, slots, channels, wire, conn, handles, history>>

\* Mutant: a declare that was answered does not look for a handle a second time.
Existing_None == None
\* this.queues.get(res.name), after the answer
Existing == queues

\* The answer of the RPC o; the rest of session.queue.
Answer(o) ==
    /\ place' = [place EXCEPT ![o] = IF kind[o] = "delete" THEN "returned" ELSE "settled"]
    /\ result' = [result EXCEPT ![o] = "ok"]
    /\ \/ /\ kind[o] = "declare"
          /\ queues' = IF Existing = None THEN o ELSE Existing
          /\ handle' = [handle EXCEPT ![o] = [made |-> queues', age |-> removals]]
       \/ kind[o] # "declare" /\ UNCHANGED <<queues, handle>>

\* The rest of AMQPQueue.delete: cancelAll and removeQueue
DeleteReturned(o) ==
    /\ place[o] = "returned"
    /\ place' = [place EXCEPT ![o] = "settled"]
    /\ queues' = None /\ removals' = removals + 1
    /\ UNCHANGED <<plan, on, result, chain, slots, channels, wire, conn, handle, history>>

----------------------------------------------------------------------------
(* The broker and the connection *)

\* setClosed of the channels cs rejects what awaits an answer or a confirm on them.
Rejected(cs) == {o \in Op : place[o] = "sent" /\ on[o] \in cs /\ kind[o] # "publish"}
RejectAll(cs) ==
    /\ place' = [o \in Op |-> IF o \in Rejected(cs) THEN "settled" ELSE place[o]]
    /\ result' = [o \in Op |-> IF o \in Rejected(cs) THEN "closed" ELSE result[o]]

OpenOk(c) ==
    /\ up /\ phase[c] = "opening" /\ phase' = [phase EXCEPT ![c] = "opened"]
    /\ UNCHANGED <<plan, ops, chain, slots, role, shut, wire, conn, handles, history>>

SelectOk(c) ==
    /\ up /\ phase[c] = "selecting" /\ phase' = [phase EXCEPT ![c] = "selected"]
    /\ UNCHANGED <<plan, ops, chain, slots, role, shut, wire, conn, handles, history>>

\* A delete whose answer was read goes on before the next read.
Process(c) ==
    /\ up /\ c \notin shut /\ wire[c] # <<>>
    /\ \A d \in Op : place[d] # "returned"
    /\ LET o == Head(wire[c]) IN
       \/ /\ o \in bad
          /\ shut' = shut \cup {c} /\ wire' = [wire EXCEPT ![c] = <<>>]
          /\ RejectAll({c})
          /\ UNCHANGED <<queues, handle>>
       \/ /\ o \notin bad
          /\ wire' = [wire EXCEPT ![c] = Tail(@)]
          /\ \/ IsRpc(o) /\ Answer(o)
             \/ kind[o] = "publish" /\ UNCHANGED <<place, result, queues, handle>>
             \/ /\ kind[o] = "confirmed"
                /\ Settle(o, "ok") \/ Settle(o, "nacked")
                /\ UNCHANGED <<queues, handle>>
          /\ UNCHANGED shut
    /\ UNCHANGED <<plan, on, chain, slots, role, phase, conn, removals, history>>

\* The handler of a lost connection: the channels are closed, then the slots cleared.
ConnectionLost ==
    /\ up /\ losses < MaxLoss
    /\ up' = FALSE /\ losses' = losses + 1 /\ alarm' = FALSE
    /\ shut' = {c \in Channel : phase[c] # "unused"}
    /\ phase' = [c \in Channel |-> IF phase[c] \in {"opening", "selecting"} THEN "failed" ELSE phase[c]]
    /\ wire' = [c \in Channel |-> <<>>]
    /\ RejectAll(Channel)
    /\ slot' = [r \in Role |-> None] /\ slotPromise' = [r \in Role |-> None]
    /\ disturbed' = disturbed \cup {o \in Op : place[o] \in {"opening", "sent"}}
    /\ UNCHANGED <<plan, on, chain, role, blocked, handles, blockedInVain>>

Jobs ==
    \/ \E c \in Channel : Opened(c) \/ Selected(c) \/ OpeningFailed(c)
    \/ \E o \in Op : Acquire(o) \/ Start(o) \/ StartFailed(o) \/ DeleteReturned(o)

\* Promise jobs do not wait for a socket to connect.
Drained ==
    /\ \A c \in Channel : phase[c] \notin {"opened", "selected", "failed"}
    /\ \A o \in Op : /\ place[o] = "queued" => ~ItsTurn(o)
                     /\ place[o] = "opening" => phase[on[o]] \notin {"ready", "spent"}
                     /\ place[o] # "returned"

Reconnected ==
    /\ ~up /\ Drained /\ up' = TRUE
    /\ UNCHANGED <<plan, ops, chain, slots, channels, wire, losses, blocked, alarm, handles, history>>

\* Connection.Blocked and Connection.Unblocked
GotBlocked ==
    /\ up /\ ~alarm /\ alarm' = TRUE /\ blocked' = TRUE
    /\ UNCHANGED <<plan, ops, chain, slots, channels, wire, up, losses, handles, history>>
\* Mutant: Connection.Unblocked is not heeded.
Unblocked_Kept == blocked
Unblocked == FALSE
GotUnblocked ==
    /\ up /\ alarm /\ alarm' = FALSE /\ blocked' = Unblocked
    /\ UNCHANGED <<plan, ops, chain, slots, channels, wire, up, losses, handles, history>>

----------------------------------------------------------------------------
Application == \E o \in Op : Call(o) \/ Confirmed(o)
Writes == \E o \in Op : Written(o)
Broker == \E c \in Channel : OpenOk(c) \/ SelectOk(c) \/ Process(c)

Next ==
    \/ Application \/ Jobs \/ Writes \/ Broker
    \/ ConnectionLost \/ Reconnected \/ GotBlocked \/ GotUnblocked

\* Promise jobs run, writes end, and the broker takes what it is sent while it is there.
Spec == Init /\ [][Next]_vars /\ WF_vars(Jobs) /\ WF_vars(Writes) /\ WF_vars(Broker)

----------------------------------------------------------------------------
(* What callers may rely on *)

\* A refused publish may close the channel under later operations: on the ops channel an
\* unconfirmed one, which nobody awaits, on the confirm channel any.
Spoiled(o) == on[o] # None /\ \E p \in bad : p # o /\ on[p] = on[o] /\ IsPublish(p)

\* An operation fails for a closed channel only if it was refused itself, or the
\* connection ended under it, or a publish spoiled its channel: never because of another
\* RPC, and never because a channel was closed before its turn.
FailsForCause ==
    \A o \in Op : result[o] = "closed" => o \in bad \/ o \in disturbed \/ Spoiled(o)

\* Concurrent callers share one channel: a slot never has two that are open or opening.
OneChannelEach ==
    \A c, d \in Channel :
        (c # d /\ role[c] = role[d] /\ c \notin shut /\ d \notin shut)
            => phase[c] = "unused" \/ phase[d] = "unused"

\* Two calls of session.queue return the same handle, unless it was removed in between:
\* a second handle would not be the one whose subscriptions are recovered.
OneHandle ==
    \A o, p \in Op :
        (handle[o].made # None /\ handle[p].made # None /\ handle[o].age = handle[p].age)
            => handle[o].made = handle[p].made

\* A publish is refused as blocked though the broker blocks nothing only if the
\* connection that was blocked has been lost: nothing resets blocked.
BlockedForCause == blockedInVain # {} => losses > 0

\* Every operation settles, whatever became of the ones before: there are finitely many
\* calls, and in the end none is pending.
EverySettles == <>[](\A o \in Op : place[o] \in {"new", "settled"})

\* withOpsChannel implements TakingTurns.
Called(o) == \E i \in DOMAIN calls : calls[i] = o
Turn == [o \in Op |-> IF ~Called(o) THEN "none"
                     ELSE IF place[o] = "queued" THEN "waiting"
                     ELSE IF Over(o) THEN "over" ELSE "running"]
Turns == INSTANCE TakingTurns WITH Op <- Op, calls <- calls, turn <- Turn
TurnsSpec == Turns!Spec
=============================================================================
