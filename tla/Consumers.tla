------------------------------ MODULE Consumers ------------------------------
(***************************************************************************)
(* The consumers of one AMQPChannel: basicConsume, deliveries, cancel, wait *)
(* and what closing the channel does to them.                              *)
(*                                                                         *)
(* One socket read may hold several frames.  They are parsed one after the *)
(* other; what they leave to promises and to queueMicrotask runs after the *)
(* last of them, first in first out: the variable jobs.  A message is      *)
(* assembled from a method frame, a header and body frames.                *)
(*                                                                         *)
(* An answer finds its request (see ChannelRpc); here it names it.         *)
(***************************************************************************)
EXTENDS Naturals, Sequences

LOCAL INSTANCE SequencesExt

CONSTANTS
    Consumer,   \* calls of basicConsume; the tag of the consumer it creates
    Message,
    Waiter,     \* calls of AMQPConsumer.wait
    MaxBodies,  \* bound on the body frames of a message
    MaxWire,    \* bound: nothing is sent while more frames than this are under way
    None

ASSUME ConsumersAssumption ==
    /\ MaxBodies \in Nat /\ MaxWire \in Nat
    /\ None \notin Consumer \cup Message \cup Waiter
    /\ {"none", "asked", "empty", "rejected"} \cap Message = {}   \* see the promise get

VARIABLES
    closed,     \* AMQPChannel.closed
    attached,   \* the channel is in the connection's table
    sock,       \* the connection has a socket
    consumers,  \* AMQPChannel.consumers, by tag
    partial,    \* AMQPChannel.delivery, getMessage and returned
    missing,    \* the body frames that the message being assembled lacks
    consume,    \* the promise of basicConsume
    ended,      \* AMQPConsumer.closed and closedError
    cancel,     \* AMQPConsumer.cancelPromise
    get,        \* the promise of basicGet
    handed,     \* the messages each consumer's callback was called with
    returned,   \* the messages onReturn was called with
    dropped,    \* the messages no consumer was found for
    holder,     \* whose resolveWait an AMQPConsumer has
    timer,      \* whose timer an AMQPConsumer has in timeoutId
    timers,     \* the waiters whose timers run
    waits,      \* the promise of each wait, and the consumer it is about
    parsing,    \* between two frames of one socket read
    jobs,       \* the microtask queue
    toClient,   \* the frames of the channel that are under way
    serving,    \* the broker: the channel is open; the consumers it delivers to
    sent,       \* history: the messages sent for each consumer
    used        \* history: the messages sent

chanVars   == <<closed, attached, sock, consumers, partial, missing>>
promises   == <<consume, cancel, get>>
handVars   == <<handed, returned, dropped>>
waitVars   == <<holder, timer, timers, waits>>
serverVars == <<serving, sent, used>>
vars == <<chanVars, promises, ended, handVars, waitVars, parsing, jobs, toClient, serverVars>>

Pending == {"asked", "answered"}
PromiseState == Pending \cup {"none", "fulfilled", "rejected"}
Job == [do : {"register", "cancelled"}, consumer : Consumer]
       \cup [do : {"deliver"}, consumer : Consumer, message : Message]
Frame ==
    [frame : {"ConsumeOk", "CancelOk", "Cancel"}, consumer : Consumer]
    \cup [frame : {"Deliver"}, consumer : Consumer, message : Message]
    \cup [frame : {"GetOk", "Return"}, message : Message]
    \cup [frame : {"Header"}, bodies : 0 .. MaxBodies]
    \cup [frame : {"Body", "GetEmpty", "Close", "CloseOk"}]

TypeOK ==
    /\ closed \in BOOLEAN /\ attached \in BOOLEAN /\ sock \in BOOLEAN /\ parsing \in BOOLEAN
    /\ consumers \in SUBSET Consumer
    /\ partial \in [delivery : Message \cup {None}, consumer : Consumer \cup {None},
                    getMessage : Message \cup {None}, returned : Message \cup {None}]
    /\ missing \in 0 .. MaxBodies
    /\ consume \in [Consumer -> PromiseState] /\ cancel \in [Consumer -> PromiseState]
    /\ get \in {"none", "asked", "empty", "rejected"} \cup Message
    /\ ended \in [Consumer -> {"no", "closed", "error"}]
    /\ handed \in [Consumer -> Seq(Message)] /\ sent \in [Consumer -> Seq(Message)]
    /\ returned \in Seq(Message) /\ dropped \in SUBSET Message /\ used \in SUBSET Message
    /\ holder \in [Consumer -> Waiter \cup {None}] /\ timer \in [Consumer -> Waiter \cup {None}]
    /\ timers \in SUBSET Waiter
    /\ waits \in [Waiter -> [on : Consumer \cup {None}, state : {"none", "pending", "resolved", "rejected"}]]
    /\ jobs \in Seq(Job) /\ toClient \in Seq(Frame)
    /\ serving \in [open : BOOLEAN, consumers : SUBSET Consumer]

Nothing == [delivery |-> None, consumer |-> None, getMessage |-> None, returned |-> None]
Init ==
    /\ closed = FALSE /\ attached = TRUE /\ sock = TRUE /\ parsing = FALSE
    /\ consumers = {} /\ partial = Nothing /\ missing = 0
    /\ consume = [c \in Consumer |-> "none"] /\ cancel = [c \in Consumer |-> "none"]
    /\ get = "none"
    /\ ended = [c \in Consumer |-> "no"]
    /\ handed = [c \in Consumer |-> <<>>] /\ sent = [c \in Consumer |-> <<>>]
    /\ returned = <<>> /\ dropped = {} /\ used = {}
    /\ holder = [c \in Consumer |-> None] /\ timer = [c \in Consumer |-> None]
    /\ timers = {} /\ waits = [w \in Waiter |-> [on |-> None, state |-> "none"]]
    /\ jobs = <<>> /\ toClient = <<>>
    /\ serving = [open |-> TRUE, consumers |-> {}]

----------------------------------------------------------------------------
(* The broker puts a message on the wire whole *)

Content(method, bodies) ==
    <<method, [frame |-> "Header", bodies |-> bodies]>> \o [i \in 1 .. bodies |-> [frame |-> "Body"]]

Put(frames) == Len(toClient) <= MaxWire /\ toClient' = toClient \o frames

\* The broker's answer to a request is put on the wire with the request: what it sends
\* in between is what it had sent before.  It discards requests after it has sent close.
Answer(frames, consuming) ==
    \/ /\ serving.open
       /\ Put(frames) /\ serving' = [serving EXCEPT !.consumers = consuming]
    \/ /\ ~serving.open
       /\ UNCHANGED <<toClient, serving>>

----------------------------------------------------------------------------
(* The application: it runs between jobs, never while a read is parsed *)

Usable == ~closed /\ sock

BasicConsume(c) ==
    /\ ~parsing /\ consume[c] = "none"
    /\ \/ /\ Usable
          /\ Answer(<<[frame |-> "ConsumeOk", consumer |-> c]>>, serving.consumers \cup {c})
          /\ consume' = [consume EXCEPT ![c] = "asked"]
       \/ /\ ~Usable /\ UNCHANGED <<toClient, serving>>
          /\ consume' = [consume EXCEPT ![c] = "rejected"]
    /\ UNCHANGED <<chanVars, cancel, get, ended, handVars, waitVars, parsing, jobs, sent, used>>

BasicGet ==
    /\ ~parsing /\ get = "none" /\ Usable
    /\ get' = "asked"
    /\ \/ Answer(<<[frame |-> "GetEmpty"]>>, serving.consumers) /\ UNCHANGED used
       \/ \E m \in Message \ used, k \in 0 .. MaxBodies :
             /\ Answer(Content([frame |-> "GetOk", message |-> m], k), serving.consumers)
             /\ used' = used \cup {m}
    /\ UNCHANGED <<chanVars, consume, cancel, ended, handVars, waitVars, parsing, jobs, sent>>

\* AMQPConsumer.cancel: at once on a closed channel, and one request however often
Cancel(c) ==
    /\ ~parsing /\ consume[c] = "fulfilled" /\ cancel[c] = "none"
    /\ \/ /\ Usable
          /\ Answer(<<[frame |-> "CancelOk", consumer |-> c]>>, serving.consumers \ {c})
          /\ cancel' = [cancel EXCEPT ![c] = "asked"]
       \/ /\ ~Usable /\ UNCHANGED <<toClient, serving>>
          /\ cancel' = [cancel EXCEPT ![c] = IF closed THEN "fulfilled" ELSE "rejected"]
    /\ UNCHANGED <<chanVars, consume, get, ended, handVars, waitVars, parsing, jobs, sent, used>>

\* AMQPConsumer.wait, with a timeout or without.  A second wait takes the place of
\* the first one's callbacks, and its timer, if it has one, that of the first.
Wait(w, c, timed) ==
    /\ ~parsing /\ consume[c] = "fulfilled" /\ waits[w].state = "none"
    /\ \/ /\ ended[c] # "no"
          /\ waits' = [waits EXCEPT ![w] = [on |-> c, state |->
                            IF ended[c] = "error" THEN "rejected" ELSE "resolved"]]
          /\ UNCHANGED <<holder, timer, timers>>
       \/ /\ ended[c] = "no"
          /\ waits' = [waits EXCEPT ![w] = [on |-> c, state |-> "pending"]]
          /\ holder' = [holder EXCEPT ![c] = w]
          /\ timer' = IF timed THEN [timer EXCEPT ![c] = w] ELSE timer
          /\ timers' = IF timed THEN timers \cup {w} ELSE timers
    /\ UNCHANGED <<chanVars, promises, ended, handVars, parsing, jobs, toClient, serverVars>>

Settle(W, outcome) ==
    [w \in Waiter |-> IF w \in W /\ waits[w].state = "pending"
                      THEN [waits[w] EXCEPT !.state = outcome] ELSE waits[w]]

Timeout(w) ==
    /\ ~parsing /\ jobs = <<>> /\ w \in timers
    /\ timers' = timers \ {w}
    /\ waits' = Settle({w}, "rejected")
    /\ UNCHANGED <<chanVars, promises, ended, handVars, holder, timer, parsing, jobs, toClient,
                   serverVars>>

\* AMQPChannel.close; the broker answers it after its own close too.
CloseChannel ==
    /\ ~parsing /\ Usable /\ closed' = TRUE
    /\ Put(<<[frame |-> "CloseOk"]>>)
    /\ serving' = [open |-> FALSE, consumers |-> {}]
    /\ UNCHANGED <<attached, sock, consumers, partial, missing, promises, ended, handVars,
                   waitVars, parsing, jobs, sent, used>>

----------------------------------------------------------------------------
(* Closing *)

\* Mutant: the waits are not settled.
EndUntold(C, how) ==
    /\ ended' = [c \in Consumer |-> IF c \in C THEN how ELSE ended[c]]
    /\ timers' = timers \ {timer[c] : c \in C}
    /\ UNCHANGED <<holder, timer, waits>>
\* AMQPConsumer.setClosed for the consumers in C: the wait that holds the callbacks
\* is settled and the last timer cleared.
EndConsumers(C, how) ==
    /\ ended' = [c \in Consumer |-> IF c \in C THEN how ELSE ended[c]]
    /\ timers' = timers \ {timer[c] : c \in C}
    /\ waits' = Settle({holder[c] : c \in C}, IF how = "error" THEN "rejected" ELSE "resolved")
    /\ UNCHANGED <<holder, timer>>

\* Mutant: the consumer stays in the map.
ForgetNone(C) == consumers' = consumers
Forget(C) == consumers' = consumers \ C

\* AMQPChannel.setClosed: a no-op on a closed channel
SetClosed(how) ==
    /\ closed' = TRUE
    /\ \/ closed /\ UNCHANGED <<consumers, ended, waitVars, promises>>
       \/ /\ ~closed
          /\ EndConsumers(consumers, how)
          /\ consumers' = {}
          /\ consume' = [c \in Consumer |-> IF consume[c] = "asked" THEN "rejected" ELSE consume[c]]
          /\ cancel' = [c \in Consumer |-> IF cancel[c] = "asked" THEN "rejected" ELSE cancel[c]]
          /\ get' = IF get = "asked" THEN "rejected" ELSE get

----------------------------------------------------------------------------
(* Frames from the broker: parseFrames *)

\* The next frame; the read may hold another one.  Jobs run before the next read.
Receive(frame) ==
    /\ sock /\ toClient # <<>> /\ Head(toClient).frame = frame
    /\ parsing \/ jobs = <<>>
    /\ toClient' = Tail(toClient)
    /\ parsing' \in {FALSE, Tail(toClient) # <<>>}
    /\ UNCHANGED <<sock, handed, dropped, serverVars>>

SkipFrame ==
    /\ ~attached /\ toClient # <<>> /\ Receive(Head(toClient).frame)
    /\ UNCHANGED <<closed, attached, consumers, partial, missing, promises, ended, returned,
                   waitVars, jobs>>

\* Mutant: last in, first out.
Sooner(job) == jobs' = <<job>> \o jobs
Later(job) == jobs' = Append(jobs, job)

\* consume-ok, cancel-ok: the promise of the request is settled, its callback runs later.
GotConsumeOk ==
    LET c == Head(toClient).consumer
    IN  /\ attached /\ Receive("ConsumeOk")
        /\ consume' = [consume EXCEPT ![c] = "answered"]
        /\ Later([do |-> "register", consumer |-> c])
        /\ UNCHANGED <<closed, attached, consumers, partial, missing, cancel, get, ended, returned,
                       waitVars>>

GotCancelOk ==
    LET c == Head(toClient).consumer
    IN  /\ attached /\ Receive("CancelOk")
        /\ cancel' = [cancel EXCEPT ![c] = "answered"]
        /\ Later([do |-> "cancelled", consumer |-> c])
        /\ UNCHANGED <<closed, attached, consumers, partial, missing, consume, get, ended, returned,
                       waitVars>>

\* cancel from the broker takes effect at once, for a consumer the channel knows.
GotCancel ==
    LET C == {Head(toClient).consumer} \cap consumers
    IN  /\ attached /\ Receive("Cancel")
        /\ EndConsumers(C, "error")
        /\ Forget(C)
        /\ UNCHANGED <<closed, attached, partial, missing, promises, returned, jobs>>

GotGetEmpty ==
    /\ attached /\ Receive("GetEmpty")
    /\ get' = "empty"
    /\ UNCHANGED <<closed, attached, consumers, partial, missing, consume, cancel, ended, returned,
                   waitVars, jobs>>

\* deliver, get-ok, return: the message that the header and the bodies belong to
GotMethod ==
    LET f == Head(toClient)
    IN  /\ attached
        /\ \/ /\ Receive("Deliver")
              /\ partial' = [partial EXCEPT !.delivery = f.message, !.consumer = f.consumer]
           \/ Receive("GetOk")  /\ partial' = [partial EXCEPT !.getMessage = f.message]
           \/ Receive("Return") /\ partial' = [partial EXCEPT !.returned = f.message]
        /\ UNCHANGED <<closed, attached, consumers, missing, promises, ended, returned, waitVars,
                       jobs>>

\* Mutant: channel.delivery is not deleted.
DeliveryKept(p) == p
DeliveryDone(p) == [p EXCEPT !.delivery = None, !.consumer = None]
GetDone(p) == [p EXCEPT !.getMessage = None]

\* onMessageReady: to a consumer later, to basicGet or onReturn now
OnMessageReady ==
    \/ /\ partial.delivery # None
       /\ partial' = DeliveryDone(partial)
       /\ Later([do |-> "deliver", consumer |-> partial.consumer, message |-> partial.delivery])
       /\ UNCHANGED <<get, returned>>
    \/ /\ partial.delivery = None /\ partial.getMessage # None
       /\ partial' = GetDone(partial)
       /\ get' = partial.getMessage
       /\ UNCHANGED <<returned, jobs>>
    \/ /\ partial.delivery = None /\ partial.getMessage = None
       /\ partial' = [partial EXCEPT !.returned = None]
       /\ returned' = Append(returned, partial.returned)
       /\ UNCHANGED <<get, jobs>>

\* `if (bodySize === 0)`, `if (message.bodyPos === message.bodySize)`
Ready(left) == left = 0
Expect(left) ==
    /\ missing' = left
    /\ \/ Ready(left)  /\ OnMessageReady
       \/ ~Ready(left) /\ UNCHANGED <<partial, get, returned, jobs>>
    /\ UNCHANGED <<closed, attached, consumers, consume, cancel, ended, waitVars>>

GotHeader == attached /\ Receive("Header") /\ Expect(Head(toClient).bodies)
GotBody   == attached /\ Receive("Body") /\ Expect(missing - 1)

\* close from the broker, close-ok: setClosed, delete from the table
GotClose ==
    /\ attached
    /\ \/ Receive("Close")   /\ SetClosed("error")
       \/ Receive("CloseOk") /\ SetClosed("closed")
    /\ attached' = FALSE
    /\ UNCHANGED <<partial, missing, returned, jobs>>

\* Connection.Close and a lost socket are errors, Connection.CloseOk is none; a socket
\* that drops while the client closes the connection tells the channels nothing.
ConnectionEnds ==
    /\ sock /\ sock' = FALSE
    /\ \/ attached /\ (parsing \/ jobs = <<>>) /\ SetClosed("error") /\ attached' = FALSE
       \/ attached /\ (parsing \/ jobs = <<>>) /\ SetClosed("closed") /\ attached' = FALSE
       \/ /\ ~parsing /\ jobs = <<>>
          /\ UNCHANGED <<attached, closed, consumers, ended, waitVars, promises>>
    /\ toClient' = <<>> /\ parsing' = FALSE
    /\ UNCHANGED <<partial, missing, handVars, jobs, serverVars>>

----------------------------------------------------------------------------
(* Jobs *)

Run(do) ==
    /\ ~parsing /\ jobs # <<>> /\ Head(jobs).do = do
    /\ jobs' = Tail(jobs)
    /\ UNCHANGED <<closed, attached, sock, partial, missing, get, returned, parsing, toClient,
                   serverVars>>

\* basicConsume's callback creates the consumer.
Register ==
    LET c == Head(jobs).consumer
    IN  /\ Run("register")
        /\ consumers' = consumers \cup {c}
        /\ consume' = [consume EXCEPT ![c] = "fulfilled"]
        /\ UNCHANGED <<cancel, ended, handed, dropped, waitVars>>

\* basicCancel's callback closes the consumer.
Cancelled ==
    LET c == Head(jobs).consumer
        C == {c} \cap consumers
    IN  /\ Run("cancelled")
        /\ EndConsumers(C, "closed")
        /\ Forget(C)
        /\ cancel' = [cancel EXCEPT ![c] = "fulfilled"]
        /\ UNCHANGED <<consume, handed, dropped>>

Deliver ==
    LET c == Head(jobs).consumer
        m == Head(jobs).message
    IN  /\ Run("deliver")
        /\ \/ /\ c \in consumers
              /\ handed' = [handed EXCEPT ![c] = Append(@, m)] /\ UNCHANGED dropped
           \/ /\ c \notin consumers
              /\ dropped' = dropped \cup {m} /\ UNCHANGED handed
        /\ UNCHANGED <<consumers, consume, cancel, ended, waitVars>>

----------------------------------------------------------------------------
(* The broker *)

Server == UNCHANGED <<chanVars, promises, ended, handVars, waitVars, parsing, jobs>>

ServerDelivers(c, m, bodies) ==
    /\ sock /\ c \in serving.consumers /\ m \notin used
    /\ used' = used \cup {m}
    /\ sent' = [sent EXCEPT ![c] = Append(@, m)]
    /\ Put(Content([frame |-> "Deliver", consumer |-> c, message |-> m], bodies))
    /\ UNCHANGED serving /\ Server

ServerReturns(m, bodies) ==
    /\ sock /\ serving.open /\ m \notin used
    /\ used' = used \cup {m}
    /\ Put(Content([frame |-> "Return", message |-> m], bodies))
    /\ UNCHANGED <<serving, sent>> /\ Server

\* The queue of a consumer is deleted.
ServerCancels(c) ==
    /\ sock /\ c \in serving.consumers
    /\ serving' = [serving EXCEPT !.consumers = @ \ {c}]
    /\ Put(<<[frame |-> "Cancel", consumer |-> c]>>)
    /\ UNCHANGED <<sent, used>> /\ Server

ServerCloses ==
    /\ sock /\ serving.open
    /\ serving' = [open |-> FALSE, consumers |-> {}]
    /\ Put(<<[frame |-> "Close"]>>)
    /\ UNCHANGED <<sent, used>> /\ Server

----------------------------------------------------------------------------
Application ==
    \/ \E c \in Consumer : \/ BasicConsume(c) \/ Cancel(c)
                           \/ \E w \in Waiter, timed \in BOOLEAN : Wait(w, c, timed)
    \/ BasicGet \/ CloseChannel

Handler ==
    \/ SkipFrame \/ GotConsumeOk \/ GotCancelOk \/ GotCancel \/ GotGetEmpty
    \/ GotMethod \/ GotHeader \/ GotBody \/ GotClose
    \/ Register \/ Cancelled \/ Deliver

Broker ==
    \/ ServerCloses
    \/ \E c \in Consumer : ServerCancels(c)
    \/ \E m \in Message, k \in 0 .. MaxBodies :
            ServerReturns(m, k) \/ \E c \in Consumer : ServerDelivers(c, m, k)

Next == Application \/ Handler \/ Broker \/ ConnectionEnds \/ \E w \in Waiter : Timeout(w)

\* What arrives is handled, and jobs run.
Spec == Init /\ [][Next]_vars /\ WF_vars(Handler)

----------------------------------------------------------------------------
(* What a consumer may rely on *)

\* A consumer's callback is called with the messages the broker sent it, in order, each
\* once, none left out, up to the one at which it stops: also when the answer to
\* basicConsume and the first deliveries are in one read.
Handed == \A c \in Consumer : IsPrefix(handed[c], sent[c])

\* When all that has arrived is handled, every message has gone where it belongs, be it in
\* one body frame, in several or in none: a delivery to its consumer, the answer to
\* basicGet to its caller, a returned one to onReturn.
NothingWithheld ==
    LET delivered == UNION {ToSet(sent[c]) : c \in Consumer}
    IN  sock /\ attached /\ toClient = <<>> /\ jobs = <<>> =>
            /\ (UNION {ToSet(handed[c]) : c \in Consumer}) \cup dropped = delivered
            /\ used \ delivered = ToSet(returned) \cup ({get} \cap Message)
            /\ get # "asked"

\* Deliveries reach their consumer in order, and no message is withheld.
HandedInOrder == Handed /\ NothingWithheld

\* A message is dropped ("not available on channel") only if the broker cancelled its
\* consumer or the channel is closed; a consumer the client cancels gets all of its own.
DroppedForCause ==
    \A m \in dropped : closed \/ \E c \in Consumer : m \in ToSet(sent[c]) /\ ended[c] = "error"

\* The callback is not called after the consumer has ended.
EndedIsQuiet == [][\A c \in Consumer : ended[c] # "no" => handed'[c] = handed[c]]_vars

\* A wait that is pending when its consumer ends is settled, if its callbacks were not
\* replaced by another wait's.
EndedIsTold ==
    \A w \in Waiter : waits[w].state = "pending" /\ ended[waits[w].on] # "no" => holder[waits[w].on] # w
=============================================================================
