--------------------------- MODULE PublishConfirms ---------------------------
(***************************************************************************)
(* basicPublish and publisher confirms on one open AMQPChannel.             *)
(*                                                                         *)
(* From Confirm.SelectOk on, the client numbers its publishes (confirmId)  *)
(* and keeps the ones not confirmed in a list; Ack and Nack name a number. *)
(* The broker numbers the publishes it takes after Confirm.Select.  The    *)
(* promise of a publish needs both its write and its confirm; its buffer   *)
(* goes back to the connection's pool when the promise is settled.         *)
(***************************************************************************)
EXTENDS Naturals, Sequences

CONSTANTS
    Publish,     \* calls of basicPublish
    Buffer,      \* AMQPView objects that basicPublish may create
    MaxSelects   \* bound on the calls of confirmSelect

ASSUME MaxSelectsAssumption == MaxSelects \in Nat

VARIABLES
    closed,       \* AMQPChannel.closed
    attached,     \* the channel is in the connection's table
    sock,         \* "up", "broken" (no 'close' event yet) or "gone" (undefined)
    ending,       \* the client has set AMQPBaseClient.closed itself
    confirmId,    \* AMQPChannel.confirmId; 0: confirms are off
    unconfirmed,  \* AMQPChannel.unconfirmedPublishes, in the order of their tags
    tag,          \* the number in the list entry of a publish; 0: no entry
    confirm,      \* wait4Confirm, the promise of the entry
    write,        \* sendFrames, the promise of the socket write
    result,       \* the promise basicPublish returned
    pool, buffer, \* AMQPBaseClient.bufferPool, and the buffer of a publish
    selects,      \* calls of confirmSelect not answered, and calls made
    toServer, toClient, \* frames of the channel, in the order they were sent
    serverSeq,    \* the broker's next number; 0: not in confirm mode
    seq,          \* the broker's number of a publish; 0: not counted
    fate,         \* what the broker did with a publish it counted
    skewed        \* history: the two numberings no longer agree

chanVars   == <<closed, attached, sock, ending>>
clientVars == <<confirmId, unconfirmed, tag, confirm, write, result, pool, buffer>>
serverVars == <<serverSeq, seq, fate>>
vars == <<chanVars, clientVars, selects, toServer, toClient, serverVars, skewed>>

None == "none"
Elems(s) == {s[i] : i \in DOMAIN s}
Select == "select"
Close  == "close"
Frame == [method : {"SelectOk", "CloseOk", "Close"}]
         \cup [method : {"Ack", "Nack"}, tag : Nat \ {0}, multiple : BOOLEAN]
SelectOk    == [method |-> "SelectOk"]
CloseOk     == [method |-> "CloseOk"]
CloseMethod == [method |-> "Close"]

\* The frame of a publish is told from those of the two RPCs.
ASSUME PublishAssumption == Select \notin Publish /\ Close \notin Publish

TypeOK ==
    /\ closed \in BOOLEAN /\ attached \in BOOLEAN
    /\ sock \in {"up", "broken", "gone"} /\ ending \in BOOLEAN
    /\ confirmId \in Nat /\ serverSeq \in Nat
    /\ unconfirmed \in Seq(Publish)
    /\ tag \in [Publish -> Nat] /\ seq \in [Publish -> Nat]
    /\ confirm \in [Publish -> {None, "pending", "acked", "nacked", "closed"}]
    /\ write \in [Publish -> {None, "pending", "ok", "failed"}]
    /\ result \in [Publish -> {None, "pending", "resolved", "rejected"}]
    /\ pool \in SUBSET Buffer /\ buffer \in [Publish -> Buffer \cup {None}]
    /\ selects \in [open : Nat, made : 0 .. MaxSelects]
    /\ toServer \in Seq(Publish \cup {Select, Close}) /\ toClient \in Seq(Frame)
    /\ fate \in [Publish -> {None, "open", "acked", "nacked"}]
    /\ skewed \in BOOLEAN

Init ==
    /\ closed = FALSE /\ attached = TRUE /\ sock = "up" /\ ending = FALSE
    /\ confirmId = 0 /\ serverSeq = 0 /\ unconfirmed = <<>>
    /\ tag = [p \in Publish |-> 0] /\ seq = [p \in Publish |-> 0]
    /\ confirm = [p \in Publish |-> None] /\ write = [p \in Publish |-> None]
    /\ result = [p \in Publish |-> None] /\ fate = [p \in Publish |-> None]
    /\ pool = {} /\ buffer = [p \in Publish |-> None]
    /\ selects = [open |-> 0, made |-> 0]
    /\ toServer = <<>> /\ toClient = <<>>
    /\ skewed = FALSE

----------------------------------------------------------------------------
(* The application *)

Send(frame) == toServer' = IF sock = "up" THEN Append(toServer, frame) ELSE toServer

\* confirmSelect is an RPC; without a socket it changes nothing here.
ConfirmSelect ==
    /\ selects.made < MaxSelects
    /\ ~closed /\ sock = "up"
    /\ selects' = [open |-> selects.open + 1, made |-> selects.made + 1]
    /\ Send(Select)
    /\ UNCHANGED <<chanVars, clientVars, toClient, serverVars, skewed>>

\* The channel is closed, or the broker has blocked the connection, which may be so
\* at the time of any call.
Refuse(p) ==
    /\ result[p] = None
    /\ result' = [result EXCEPT ![p] = "rejected"]
    /\ UNCHANGED <<chanVars, confirmId, unconfirmed, tag, confirm, write, pool, buffer,
                   selects, toServer, toClient, serverVars, skewed>>

\* bufferPool.pop(), or a new buffer
Free(b) == b \in pool \/ (pool = {} /\ \A p \in Publish : buffer[p] # b)

\* Mutant: ++confirmId for confirmId++.
RegisterNext(p) ==
    /\ confirmId' = confirmId + 1
    /\ tag' = [tag EXCEPT ![p] = confirmId + 1]
    /\ unconfirmed' = Append(unconfirmed, p)
    /\ confirm' = [confirm EXCEPT ![p] = "pending"]
\* The list entry is made as soon as the write is started, whatever becomes of it.
Register(p) ==
    /\ confirmId' = confirmId + 1
    /\ tag' = [tag EXCEPT ![p] = confirmId]
    /\ unconfirmed' = Append(unconfirmed, p)
    /\ confirm' = [confirm EXCEPT ![p] = "pending"]

\* The broker counts a publish behind a Select that the client has no answer to.
BasicPublish(p, b) ==
    /\ result[p] = None /\ ~closed
    /\ Free(b)
    /\ pool' = pool \ {b} /\ buffer' = [buffer EXCEPT ![p] = b]
    /\ Send(p)
    /\ write' = [write EXCEPT ![p] = "pending"]
    /\ result' = [result EXCEPT ![p] = "pending"]
    /\ \/ confirmId > 0 /\ Register(p)
       \/ confirmId = 0 /\ UNCHANGED <<confirmId, unconfirmed, tag, confirm>>
    /\ skewed' = (skewed \/ (confirmId = 0 /\ selects.open > 0))
    /\ UNCHANGED <<chanVars, selects, toClient, serverVars>>

\* AMQPChannel.close
CloseChannel ==
    /\ ~closed /\ closed' = TRUE
    /\ Send(Close)
    /\ UNCHANGED <<attached, sock, ending, clientVars, selects, toClient, serverVars, skewed>>

\* AMQPBaseClient.close marks the connection, not its channels.
CloseConnection ==
    /\ sock = "up" /\ ~ending /\ ending' = TRUE
    /\ UNCHANGED <<closed, attached, sock, clientVars, selects, toServer, toClient, serverVars, skewed>>

----------------------------------------------------------------------------
(* Promises: sendFrames.then(() => wait4Confirm).finally(() => push the buffer) *)

\* Mutant: the promise does not wait for the write.
HastyOutcome(p, w, c) ==
    IF w = "failed" THEN "rejected"
    ELSE IF c = "pending" \/ (c = None /\ w = "pending") THEN "pending"
    ELSE IF c \in {"nacked", "closed"} THEN "rejected" ELSE "resolved"
\* The promise of a publish, given the write and the confirm it depends on
Outcome(p, w, c) ==
    IF w = "failed" THEN "rejected"
    ELSE IF w = "pending" \/ c = "pending" THEN "pending"
    ELSE IF c \in {"nacked", "closed"} THEN "rejected" ELSE "resolved"

Promises(w, c) ==
    LET now(p) == IF result[p] = "pending" THEN Outcome(p, w[p], c[p]) ELSE result[p]
    IN  /\ write' = w /\ confirm' = c
        /\ result' = [p \in Publish |-> now(p)]
        /\ pool' = pool \cup {buffer[p] : p \in {q \in Publish : result[q] = "pending"
                                                                /\ now(q) # "pending"}}

WriteDone(p, w) ==
    /\ write[p] = "pending"
    /\ Promises([write EXCEPT ![p] = w], confirm)
    /\ UNCHANGED <<chanVars, confirmId, unconfirmed, tag, buffer, selects, toServer, toClient,
                   serverVars, skewed>>
Written(p)     == sock = "up" /\ WriteDone(p, "ok")
WriteFailed(p) == sock # "up" /\ WriteDone(p, "failed")

Verdict(S, v) == [p \in Publish |-> IF p \in S /\ confirm[p] = "pending" THEN v ELSE confirm[p]]

----------------------------------------------------------------------------
(* Frames from the broker *)

Receive(method) ==
    /\ sock = "up" /\ toClient # <<>> /\ Head(toClient).method = method
    /\ toClient' = Tail(toClient)
    /\ UNCHANGED <<sock, ending, tag, buffer, serverVars>>

\* select-ok starts the numbering, or starts it again.
GotSelectOk ==
    /\ Receive("SelectOk") /\ attached
    /\ confirmId' = 1
    /\ selects' = [selects EXCEPT !.open = @ - 1]
    /\ skewed' = (skewed \/ confirmId > 1)
    /\ UNCHANGED <<closed, attached, unconfirmed, confirm, write, result, pool, toServer>>

\* publishConfirmed: the position of the tag in the list, 0 if it is not there
Index(t) ==
    LET found == {i \in DOMAIN unconfirmed : tag[unconfirmed[i]] = t}
    IN  IF found = {} THEN 0 ELSE CHOOSE i \in found : \A j \in found : i <= j

\* Mutant: multiple is ignored.
FirstOnly(i, multiple) == i
\* Mutant: every ack is taken for a multiple one.
FirstAlways(i, multiple) == 1
\* splice(0, idx + 1) if multiple, splice(idx, 1) if not
First(i, multiple) == IF multiple THEN 1 ELSE i
PublishConfirmed(t, multiple, verdict) ==
    LET i == Index(t)
        from == First(i, multiple)
    IN  IF i = 0 THEN UNCHANGED <<unconfirmed, confirm, write, result, pool>>
        ELSE /\ unconfirmed' = SubSeq(unconfirmed, 1, from - 1)
                               \o SubSeq(unconfirmed, i + 1, Len(unconfirmed))
             /\ Promises(write, Verdict({unconfirmed[j] : j \in from .. i}, verdict))

GotConfirm ==
    LET f == Head(toClient)
    IN  /\ attached
        /\ \/ Receive("Ack")  /\ PublishConfirmed(f.tag, f.multiple, "acked")
           \/ Receive("Nack") /\ PublishConfirmed(f.tag, f.multiple, "nacked")
        /\ UNCHANGED <<closed, attached, confirmId, selects, toServer, skewed>>

\* Mutant: the list is cleared, the promises are left.
SetClosedSilently ==
    /\ closed' = TRUE
    /\ unconfirmed' = IF closed THEN unconfirmed ELSE <<>>
    /\ UNCHANGED <<confirm, write, result, pool>>
\* AMQPChannel.setClosed: a no-op on a closed channel
SetClosed ==
    /\ closed' = TRUE
    /\ \/ closed /\ UNCHANGED <<unconfirmed, confirm, write, result, pool>>
       \/ /\ ~closed
          /\ unconfirmed' = <<>>
          /\ Promises(write, Verdict(Elems(unconfirmed), "closed"))

\* close-ok, or close from the broker: setClosed, delete from the table
ChannelClosed ==
    /\ attached /\ (Receive("CloseOk") \/ Receive("Close"))
    /\ SetClosed
    /\ attached' = FALSE
    /\ UNCHANGED <<confirmId, selects, toServer, skewed>>

\* AMQPBaseClient.channels.forEach(setClosed), and a new table
TellChannel ==
    /\ \/ attached /\ SetClosed
       \/ ~attached /\ UNCHANGED <<closed, unconfirmed, confirm, write, result, pool>>
    /\ attached' = FALSE

\* Connection.CloseOk, the last frame on the connection
ConnectionCloseOk ==
    /\ ending /\ sock = "up" /\ toClient = <<>>
    /\ TellChannel
    /\ sock' = "gone"
    /\ UNCHANGED <<ending, confirmId, tag, buffer, selects, toServer, toClient, serverVars, skewed>>

\* The socket's close event: of an AMQPClient that had set `closed` it tells no channel, of
\* an AMQPWebSocketClient it tells them all.
SocketClosed ==
    /\ sock = "broken" /\ sock' = "gone"
    /\ \/ TellChannel
       \/ ending /\ UNCHANGED <<closed, attached, unconfirmed, confirm, write, result, pool>>
    /\ UNCHANGED <<ending, confirmId, tag, buffer, selects, toServer, toClient, serverVars, skewed>>

\* Heartbeat timeout: closeSocket sets `closed` ahead of the close event.
HeartbeatTimeout ==
    /\ sock # "gone" /\ sock' = "gone" /\ ending' = TRUE
    /\ toServer' = <<>> /\ toClient' = <<>>
    /\ UNCHANGED <<closed, attached, clientVars, selects, serverVars, skewed>>

----------------------------------------------------------------------------
(* The broker and the network *)

Closing == \E i \in DOMAIN toClient : toClient[i] \in {CloseOk, CloseMethod}
Serving == sock = "up" /\ attached /\ ~Closing

Take ==
    LET f == Head(toServer)
    IN  /\ Serving /\ toServer # <<>> /\ toServer' = Tail(toServer)
        /\ \/ /\ f = Select
              /\ serverSeq' = IF serverSeq = 0 THEN 1 ELSE serverSeq
              /\ toClient' = Append(toClient, SelectOk)
              /\ UNCHANGED <<seq, fate>>
           \/ /\ f \in Publish /\ serverSeq > 0
              /\ seq' = [seq EXCEPT ![f] = serverSeq] /\ serverSeq' = serverSeq + 1
              /\ fate' = [fate EXCEPT ![f] = "open"]
              /\ UNCHANGED toClient
           \/ f \in Publish /\ serverSeq = 0 /\ UNCHANGED <<serverVars, toClient>>
           \/ /\ f = Close
              /\ toClient' = Append(toClient, CloseOk)
              /\ UNCHANGED serverVars
        /\ UNCHANGED <<chanVars, clientVars, selects, skewed>>

\* The broker confirms each publish it counted once, alone or with the earlier ones.
Confirm(p, multiple, verdict) ==
    LET S == IF multiple THEN {q \in Publish : fate[q] = "open" /\ seq[q] <= seq[p]} ELSE {p}
    IN  /\ Serving /\ fate[p] = "open"
        /\ fate' = [q \in Publish |-> IF q \in S THEN verdict ELSE fate[q]]
        /\ toClient' = Append(toClient,
                [method |-> IF verdict = "acked" THEN "Ack" ELSE "Nack",
                 tag |-> seq[p], multiple |-> multiple])
        /\ UNCHANGED <<chanVars, clientVars, selects, toServer, serverSeq, seq, skewed>>

ServerCloses ==
    /\ Serving /\ toClient' = Append(toClient, CloseMethod)
    /\ UNCHANGED <<chanVars, clientVars, selects, toServer, serverVars, skewed>>

SocketBreaks ==
    /\ sock = "up" /\ sock' = "broken"
    /\ toServer' = <<>> /\ toClient' = <<>>
    /\ UNCHANGED <<closed, attached, ending, clientVars, selects, serverVars, skewed>>

----------------------------------------------------------------------------
Next ==
    \/ \E p \in Publish : \/ \E b \in Buffer : BasicPublish(p, b)
                          \/ Refuse(p) \/ Written(p) \/ WriteFailed(p)
                          \/ \E m \in BOOLEAN, v \in {"acked", "nacked"} : Confirm(p, m, v)
    \/ ConfirmSelect \/ CloseChannel \/ CloseConnection
    \/ GotSelectOk \/ GotConfirm \/ ChannelClosed
    \/ ConnectionCloseOk \/ SocketClosed \/ HeartbeatTimeout
    \/ Take \/ ServerCloses \/ SocketBreaks

Spec == Init /\ [][Next]_vars

----------------------------------------------------------------------------
(* What a publisher may rely on *)

\* A publish waits for its confirm exactly as long as the list has its entry: no
\* ack, nack or close drops an entry without settling it, or settles one it keeps.
ListIsPending == \A p \in Publish : confirm[p] = "pending" <=> p \in Elems(unconfirmed)

\* The list is sorted by tag, which is what makes the prefix that publishConfirmed
\* cuts off the publishes up to that tag.
TagsAscend ==
    ~skewed => /\ \A i, j \in DOMAIN unconfirmed : i < j => tag[unconfirmed[i]] < tag[unconfirmed[j]]
               /\ \A p \in Publish : tag[p] > 0 => tag[p] < confirmId

\* A publish gets the verdict the broker gave on it, not on another publish.
VerdictIsOwn ==
    ~skewed => \A p \in Publish : confirm[p] \in {"acked", "nacked"} => fate[p] = confirm[p]

\* Every ack or nack under way finds its entry ("Cant find unconfirmed deliveryTag").
AcksFind ==
    ~skewed /\ attached =>
        \A i \in DOMAIN toClient :
            toClient[i].method \in {"Ack", "Nack"} =>
                \E p \in Elems(unconfirmed) : tag[p] = toClient[i].tag

\* The list is what publishConfirmed takes it to be: the publishes that wait, in the order
\* of their tags, with an entry for each tag the broker may still name.
ListIsOrderly == ListIsPending /\ TagsAscend /\ AcksFind

\* The buffer of a publish that is still being written is not given to another one.
BufferIsExclusive ==
    \A p \in Publish : write[p] = "pending" =>
        /\ buffer[p] \notin pool
        /\ \A q \in Publish \ {p} : write[q] = "pending" => buffer[q] # buffer[p]

\* The connection of an open channel is gone, and setClosed was not called: the client had
\* marked the connection as closed before its socket's close event, by close() or because of
\* a heartbeat timeout.
Untold == ending /\ attached /\ sock = "gone"

\* When nothing is left to be written, served, confirmed or handled, every publish is
\* settled if the numberings agree, unless its channel's own close() has left its entry
\* in the list of a closed channel, or nobody has told the channel of its connection's end.
AtRest ==
    /\ sock # "broken" /\ \A p \in Publish : write[p] # "pending"
    /\ attached => toClient = <<>>
    /\ Serving => toServer = <<>> /\ \A p \in Publish : fate[p] # "open"
SettledAtRest ==
    AtRest /\ ~skewed =>
        \A p \in Publish : result[p] = "pending" =>
            p \in Elems(unconfirmed) /\ (closed \/ Untold)
=============================================================================
