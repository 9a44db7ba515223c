# A verification project for amqp-client.js

TLA+ models of `@cloudamqp/amqp-client`, an AMQP 0-9-1 client in TypeScript (`src/src/`),
checked with TLC on small instances, and theorems about them checked with TLAPS.
Paths below are relative to the repository; line numbers are those of the modelled commit.

1. [The system](#the-system) and its components
2. [The modules](#the-modules) and how they follow the code
3. [The runs](#the-runs): what each checks, bounds, fairness
4. [The proofs](#the-proofs)
5. [What disagrees](#what-disagrees) with the documentation
6. [What is not modelled](#what-is-not-modelled)

## The system

JavaScript runs one callback at a time. What makes this client concurrent is the order of
callbacks: socket events, timers and the jobs of promises (*microtasks*) interleave, and
almost every method gives up control at an `await` or a `.then` and goes on in a world that
has changed.

```
 AMQPQueue / AMQPExchange / AMQPRPCClient / AMQPRPCServer      handles of a session
        |  withOpsChannel, getConfirmChannel, openChannel
 AMQPSession ---- reconnectLoop, recoverQueues, stop
        |  channel(), connect(), close(), ondisconnect
 AMQPBaseClient --- channels[], parseFrames, connect/close promises, bufferPool
   |         |  setClosed, resolveRPC, publishConfirmed, onMessageReady
   |     AMQPChannel --- rpcQueue, rpcCallbacks, unconfirmedPublishes, consumers
   |         |  onMessage, setClosed
   |     AMQPConsumer / AMQPGeneratorConsumer / AMQPSubscription
   |  send, onRead / handleMessage, closeSocket
 AMQPClient (net.Socket)      AMQPWebSocketClient (WebSocket)
```

| Component | State it keeps | Operations | What makes it correct |
|---|---|---|---|
| Channel RPCs (`amqp-channel.ts`, `amqp-base-client.ts`) | `rpcQueue`, a chain of promises; `rpcCallbacks`; `closed`; the table `channels` | every method that waits for an answer, `close`, the `-Ok` methods, Channel.Close, the ends of a connection | no promise is lost; an answer settles the call that asked; `close` is the last; a failed write fails its own call only |
| Publisher confirms (`amqp-channel.ts`) | `confirmId`, `unconfirmedPublishes`, the connection's `bufferPool` | `basicPublish`, `confirmSelect`, Ack, Nack, `setClosed` | each publish gets its own verdict; every ack finds its entries; a buffer has one user |
| Frame assembly (`amqp-socket-client.ts`, `amqp-websocket-client.ts`) | `frameBuffer`, `framePos`, `frameSize` | `onRead`, `handleMessage`, `connect` | the frames of the stream, whole, in order, however it is cut |
| Consumers (`amqp-channel.ts`, `amqp-consumer.ts`) | `consumers`, `delivery`, `getMessage`, `returned`; of a consumer `closed`, `resolveWait`, `timeoutId` | `basicConsume`, `basicCancel`, `basicGet`, `wait`, deliveries, Basic.Cancel, closes | deliveries reach their consumer in order and none after its end; whoever waits for the end is told |
| Session and recovery (`amqp-session.ts`, `amqp-queue.ts`, `amqp-subscription.ts`) | `reconnecting`, `stopped`, `reconnectAttempts`; the tracked subscriptions and their consumers | `reconnectLoop`, `waitBeforeRetry`, `recoverQueues`, `subscribe`, `cancel`, `stop`, `ondisconnect` | a lost connection is replaced, or given up after `maxRetries`, or stopped; each subscription comes back once |
| RPC client (`amqp-rpc-client.ts`) | `pending`, its timers, `correlationId`, `ch`, `closed` | `start`, `call`, `recover`, `close`, the reply consumer | a call gets its own reply, or is rejected; none is forgotten |
| Subscriptions as streams (`amqp-consumer.ts`, `amqp-subscription.ts`, `amqp-message.ts`) | `messageQueue` and `messageResolver` of an `AMQPGeneratorConsumer`; `stopped` and `consumerReady` of an `AMQPGeneratorSubscription`; `acked` of a message | the async iterators, `setConsumer`, `cancel`, `ack`, `nack` | messages are yielded in order and settled once; the iterator goes on after a reconnection, and ends |
| Queue handle operations (`amqp-queue.ts`, `amqp-exchange.ts`) | per call: `settled`, a timer, a consumer | `consumeOne`, `get`, `publish`, `declare` ... | `consumeOne` settles once, and its message is acked or requeued |
| Operations channels (`amqp-session.ts`) | `opsChannel`, `confirmChannel`, their opening promises, `opsLock`, the cache `queues` | `getOpsChannel`, `getConfirmChannel`, `withOpsChannel`, `queue`, `publish` | operations take turns; one channel for all; none fails for another's error; one handle per queue |
| Connection and sockets (`amqp-base-client.ts`, `amqp-socket-client.ts`, `amqp-websocket-client.ts`) | `socket`, `closed`, `connectPromise`, `closePromise`, `onUpdateSecretOk` | `connect`, Start, Tune, OpenOk, `close`, `updateSecret`, time limits, the sockets' events | an attempt is settled once, by its own socket, and none is left open |
| RPC server (`amqp-rpc-server.ts`) | a subscription | `start`, `close` | those of subscriptions |
| Encoding (`amqp-view.ts`, `amqp-frame.ts`, `amqp-codec-registry.ts`) | none | reading and writing of fields, lookup of coders | round trips |

The hard behaviours, each with its line, are the `hazards` of `PROJECT.json`. In short:
answers that carry no correlation are matched by position; a channel number is used again
while frames of its former owner are under way; `closed` is set at the beginning of a close
and read at its end; a loop over a set awaits in its body; a timer races an answer; what was
read before an `await` is used after it.

## The modules

| Module | What | Code |
|---|---|---|
| `ChannelRpc` | channels, calls, the wire per channel number | `amqp-channel.ts` `sendRpc`, `resolveRPC`, `setClosed`, `close`; `amqp-base-client.ts` `channel`, `close`, `parseFrames`; the socket's end |
| `RpcOrder` | what `ChannelRpc` promises: outstanding calls per channel, oldest first | abstract |
| `PublishConfirms` | publishes, their tags, buffers | `basicPublish`, `confirmSelect`, `publishConfirmed` |
| `FrameAssembly` | bytes by position, one action per turn of the handler's loop | `onRead`, `handleMessage` |
| `Consumers` | consumers, messages, the microtask queue | `basicConsume`, `deliver`, `onMessageReady`, `amqp-consumer.ts` |
| `Streams` | the iterator of a subscription over its consumers, acks and nacks | `AMQPGeneratorConsumer`, `AMQPGeneratorSubscription`, `amqp-message.ts` |
| `Session` | the loop, recovery, stop | `amqp-session.ts`, `subscribe`, `recover`, `cancel` |
| `Operations` | the two shared channels, the lock, the handle cache, blocked | `getOpsChannel`, `getConfirmChannel`, `withOpsChannel`, `queue`, `AMQPQueue.delete`, `publish` |
| `TakingTurns` | what `withOpsChannel` promises: operations one at a time, in order | abstract |
| `OneMessage`, `ConsumeOne` | what a call and the broker see of it and may rely on; the call, its channel, consumer, timer and cleanup | `AMQPQueue.consumeOne` |
| `Connection`, `Sockets` | what the caller of `connect` sees and may rely on; attempts to connect, the handshake, ends of connections | `connect`, `closeSocket`, `parseFrames` (Connection methods), `close`, `updateSecret` |
| `RpcClient` | calls over direct reply-to | `amqp-rpc-client.ts` |
| `...Proofs` | theorems of the module, see [below](#the-proofs); `OperationsProofs` has those of `ConsumeOne`, `FrameAssemblyProofs` those of `Sockets` | |
| `MC...` | instances for TLC: symmetry sets, the stream of frames, the order of operations | |

**Atomicity.** An action is what runs between two points at which another callback can come:
a method up to its first `await`, one turn of `parseFrames` (one frame), a timer, a socket
event, a promise job. Where promise jobs run before the next event and the difference
matters, the module says so: `ChannelRpc.Drained` and `NextEvent`, `Consumers.jobs` (the
microtask queue itself), `Session.Quiet`, `Operations.Drained`. Where it does not matter jobs
may come at any time, which allows more than the code does.

**`ChannelRpc`.** A call waits in `rpcQueue` until the writes before it are done (`Step`),
then pushes its callbacks and writes (`Written`, `WriteFailed`). The answers shift the first
callbacks (`ResolveRPC`). Channel numbers are given again after a close, and the broker
answers, raises channel exceptions (`ServeError`), closes channels and the connection. The
names on the wire (`call` in a frame) exist for the properties only: the client never reads
them.

**`PublishConfirms`.** The client counts publishes from Select-Ok on, the broker from Select
on; `skewed` records that publishes or a second `confirmSelect` came in between, after which
the numberings differ. The promise of a publish needs its write and its confirm (`Promises`),
and gives its buffer back when it settles. The connection ends with the client's `close`
(`CloseConnection`, then `ConnectionCloseOk`), with a broken socket (`SocketClosed`) or with a
heartbeat timeout; `ending` is the connection's `closed`, which makes the TCP client's close
event pass over the channels.

**`FrameAssembly`.** The stream is a sequence of frame boundaries; a read brings any number
of bytes. Bytes are positions, so that a byte lost, repeated or taken from an older
connection is seen in `parsed`.

**`Consumers`.** Several frames may be in one read: handlers run one after the other, what
they leave to `.then` and `queueMicrotask` runs after the last, in order. A message is a
method frame, a header and `MaxBodies` bodies at most.

**`Streams`.** `at` is the place of the one reader, through three nested loops: the
application's, the iterator's (`while (!this.stopped)`) and the generator's of the consumer
`from`. `Pull` is `next()` of the generator, `Leave` and `Left` its `finally` block.
`Recovered` makes the next consumer of the subscription, `SetConsumer` is its
`consumerReady?.()`. `RecoveredTooLate` is a Consume-Ok in one read with the end of the
connection. A Basic.Cancel is answered (`CancelOk`), ends with its channel (`ChannelGone`), or
is not written because the socket is broken (`CancelFails`). A connection ends with its
channels told (`ConnectionLost`) or not (`LostSilently`); after the latter nothing reconnects.

**`Session`.** `loop` is the place in `reconnectLoop`; `Iterate` is the head of the loop,
reached from every `continue`. A subscription has the consumer the client knows (`own`) and
consumers the client has forgotten but the broker still has (`orphans`). `silent` records
that the connection was lost to a heartbeat timeout, which the code does not report.

**`Operations`.** An operation is one call of a handle's method. `slot` and `slotPromise` are
the stored channel and the one being opened, of the ops and of the confirm channel; `phase`
follows a channel through its opening and the promise jobs behind it (`Opened`, `Selected`,
`OpeningFailed`). `after[o]` is what `opsLock` was when `o` was called, and `ItsTurn` that it
has settled. `bad` is the set of operations the broker refuses, by a channel exception.

**`ConsumeOne`.** `Finish` is the function all outcomes call, `CleanUp` its cleanup, in hand
twice when the consumer is there only after the call has settled (`"own"`, `"late"`).
`connClosed` is the connection's `closed`, which `cleanup` looks at; behind Connection.Close the
broker reads nothing (`Write`). `LostSilently` is a heartbeat timeout, or the socket's close
event after the client's own close; `WriteFails` is an RPC caught in the middle of its write.

**`Sockets`.** Each attempt has a socket, numbered; events of all of them act on one client,
which has one `socket` and one `connectPromise`. `Reply` writes to `this.socket`, whichever
that is; `abandoned` and `meddled` record that an attempt timed out and that its socket has
had its say since.

**`RpcClient`.** A call is at `serializeAndEncode`, has an entry in `pending`, or has its
reply decoded. The connection, the broker and the loop are reduced to what this client sees.

**Refinement.** `ChannelRpc` implements `RpcOrder` (`Order == INSTANCE RpcOrder WITH
outstanding <- ...`, the callbacks followed by the queue), and `Operations` implements
`TakingTurns` (`Turns == INSTANCE TakingTurns WITH turn <- Turn`, the place of a called
operation as waiting, running or over). Both are checked as a PROPERTY of a run and proved.

## The runs

| Run | Module | Checks | Instance |
|---|---|---|---|
| `rpc_safety` | `ChannelRpc` | `PendingIsHeld`, `WritingIsLast`, `AnswerIsOwn`, `NeverStuck`, `RejectedForCause`; `OrderSpec`: the channel implements `RpcOrder` | 4 calls, 3 channel objects, 2 numbers |
| `confirms` | `PublishConfirms` | `ListIsOrderly`, `VerdictIsOwn`, `BufferIsExclusive`, `SettledAtRest` | 3 publishes, 3 buffers, 1 select |
| `frames` | `FrameAssembly` | `FramesInOrder`, `HandlerEnds` | frames of 8, 12, 9 and 8 bytes, every cut |
| `consumers` | `Consumers` | `HandedInOrder`, `DroppedForCause`, `EndedIsTold`, `EndedIsQuiet` | 2 consumers, 2 messages, 1 waiter, 1 body, 2 frames under way |
| `streams` | `Streams` | `ReaderIsServed`, `YieldedInOrder`, `SettledOnce`, `CancelEnds` | 2 consumers in turn, 2 deliveries each |
| `streams_stall` | `Streams` | `ContinuesYielding` is violated | 2 consumers, 1 delivery |
| `session` | `Session` | `NeverLeftDown`, `SubscriptionsRecovered`, `LeaksInRecoveryOnly`, `StopCloses`, `Reconnects` | 2 subscriptions, 2 attempts |
| `session_heartbeat` | `Session` | `EveryLossIsSeen` is violated | 1 subscription |
| `operations` | `Operations` | `FailsForCause`, `OneChannelEach`, `OneHandle`, `BlockedForCause`, `EverySettles`; `TurnsSpec`: the lock implements `TakingTurns` | 3 operations of any kind, 5 channels, 1 loss |
| `consume_one` | `ConsumeOne` | `ConsumedIsGiven`, `LeavesNothing`, `EndsWhenDue` | 3 messages |
| `sockets` | `Sockets` | `OpenIsUsable`, `NothingLeaks`, `CallsSettle` | 3 attempts, TCP and WebSocket |
| `rpc_client` | `RpcClient` | `PendingIsHeld`, `ReplyIsOwn`, `StrandedForCause` | 2 calls, 3 channels |

What each property says is the comment above it. Every property of a passing run has a
mutant in `PROJECT.json`: a plausible bug in the code, under which TLC finds that property
violated. The mutated definitions stand beside the real ones (`\* Mutant:`), so that what
they change can be read there. The invariants `TypeOK` are proved or were checked in the same
instances.

**Bounds.** Calls, publishes, operations, messages, subscriptions are consumed, which bounds
the behaviours.
- Four calls on three objects that may share or not share a number: one call being written,
  one answered, one waiting and one that closes. Two objects on one number are a replaced
  channel and its successor; on two numbers, two channels whose closes interleave; three on
  one number, one that gets what was left behind by the other two. Numbers are only compared,
  so they are interchangeable like the objects.
- Three publishes: one acked alone, then two by a multiple ack, and the other way round.
- The stream has a frame of the smallest size, one that fills `frameBuffer`, one of header,
  one byte and end byte, so that reads end at, before and behind every place where the
  handler decides; the handlers see a frame at a time and keep nothing else.
- Two consumers in one read with two messages: one before and one after the other's end.
  `MaxWire` bounds the frames under way; more only repeat what two show.
- Two consumers of an iterator: one lost, one recovered. Three deliveries: one acknowledged,
  one in hand, one queued.
- Two subscriptions: one being recovered, one before or behind it in the set. Two attempts:
  one that is not the last and the last.
- Three operations: one that runs, one that waits behind it, one behind that or one that came
  before and spoiled the channel. They come in the order of their kinds, as which is which
  does not matter, and all on one of the two channels, which share the connection only. Each
  opens one channel at most.
- Three messages of `consumeOne`: the one that settles it, one that comes too late, one that
  stays. A message is not dispatched again after a nack.
- Three attempts: one that is given up, one in which its late events fall, and one after it.
- Two calls of the RPC client: a late reply of one can meet the entry of the other. Three
  channels: the first, one recovered, and one opened behind a close.

**Symmetry** is used where a run checks invariants and action properties over interchangeable
values; the runs with a liveness property do without.

**Fairness** is what the event loop and a live peer give.
- `ChannelRpc`: ready callbacks run, frames that have arrived are parsed, an open broker
  answers what it was asked; nobody has to make a call and nothing has to fail.
- `FrameAssembly`: the handler's loop goes on. `Consumers`: what arrived is handled.
- `Session`: timers fire, an attempt to connect ends, the broker answers. `OnDisconnect`,
  `Stop` and every failure are free not to happen. `Reconnects` then says that the client is
  not left without a connection; it may be lost again and again, and attempts may fail until
  `maxRetries`.
- `Streams`: the reader's promise jobs run, its writes end, the broker answers a cancel on a
  live connection, and a broken socket has its close event or the heartbeat times out
  (`BrokenEnds`), which of the two being free; the application need not ask for the next
  message, nor the broker deliver.
- `Operations`: promise jobs run, writes end, and the broker takes the frames of a channel
  while there is a connection. Reconnection is not fair: what waits for a channel settles
  without it.
- `ConsumeOne`: promise jobs run, a timer that was started fires, the broker answers, a
  Connection.Close too. That a socket closes or a write fails is not assumed.
- `Sockets`: time limits fire, a socket that has ended has its close event, the broker answers
  `close` and `updateSecret`. The handshake may stop anywhere.

**Liveness by safety.** In `ChannelRpc` and `PublishConfirms` every behaviour ends, because
calls are consumed. `NeverStuck` (a pending call of a live channel has something to come,
`SomethingIsDue`: the guards of the steps that `Fairness` says are taken) and `SettledAtRest`
(when nothing is left to come everything is settled that is not excepted) then say that calls
are settled, and can be checked on larger instances than a temporal formula.

**Deadlock** is not checked where the application or the broker may simply do nothing more;
`frames` checks it.

## The proofs

TLAPS checks these for every value of the constants.

| Theorem | Property | Argument |
|---|---|---|
| `ChannelRpcProofs!TypeCorrect` | `TypeOK` | inductive with `Numbered`: a waiting call's object has its number |
| `ChannelRpcProofs!EveryPendingCallIsHeld` | `PendingIsHeld` | `HeldInv`, below |
| `ChannelRpcProofs!FailedWriteIsLast` | `WritingIsLast` | `HeldInv` |
| `ChannelRpcProofs!RejectionsHaveCause` | `RejectedForCause` | from `HeldInv` for each step |
| `ChannelRpcProofs!DetachedAreClosed` | `TableIsLive` | `TableInv`: with `SlotNumbered`, an object in the table has the number of its place |
| `ChannelRpcProofs!ImplementsOrder` | `OrderSpec` | step simulation under `outstanding == rpcCallbacks \o rpcQueue` |
| `ChannelRpcProofs!AnswersAreOwn` | `AnswerIsOwn` | `WireInv` |
| `ChannelRpcProofs!NeverStuckHolds` | `NeverStuck` | `DueInv`, on all of the others |
| `PublishConfirmsProofs!TypeCorrect` | `TypeOK` | inductive with `SelectsCounted`: a SelectOk has a call that waits for it |
| `PublishConfirmsProofs!BufferIsExclusiveHolds` | `BufferIsExclusive` | `BuffersOwned` of `ListInv` |
| `PublishConfirmsProofs!ListIsOrderlyHolds` | `ListIsOrderly` | `NumberInv` |
| `PublishConfirmsProofs!VerdictIsOwnHolds` | `VerdictIsOwn` | `NumberInv` |
| `PublishConfirmsProofs!SettledAtRestHolds` | `SettledAtRest` | from `NumberInv` |
| `FrameAssemblyProofs!TypeCorrect` | `TypeOK` | `FrameInv` |
| `FrameAssemblyProofs!FramesInOrderHolds` | `FramesInOrder` | `FrameInv` |
| `FrameAssemblyProofs!SocketsTypeCorrect` | `TypeOK` of `Sockets` | inductive |
| `FrameAssemblyProofs!OpenSocketIsUsable` | `OpenIsUsable` | `SocketsInv` |
| `FrameAssemblyProofs!NoSocketLeaks` | `NothingLeaks` | `SocketsInv` |
| `ConsumersProofs!TypeCorrect` | `TypeOK` | `BaseInv`: the frames on the wire are whole messages |
| `ConsumersProofs!HandedInOrderHolds` | `HandedInOrder` | `FlowInv`, `AllDue`, `OtherInv` |
| `ConsumersProofs!EndedIsQuietHolds` | `EndedIsQuiet` | from `RegInv` for each step |
| `ConsumersProofs!DroppedForCauseHolds` | `DroppedForCause` | `CauseInv`, on `FlowInv` |
| `ConsumersProofs!EndedIsToldHolds` | `EndedIsTold` | inductive with the type of `waits` |
| `StreamsProofs!TypeCorrect` | `TypeOK` | `StreamInv` |
| `StreamsProofs!ReaderIsServedHolds` | `ReaderIsServed` | `StreamInv` |
| `StreamsProofs!YieldedInOrderHolds` | `YieldedInOrder` | `StreamInv` |
| `StreamsProofs!SettledOnceHolds` | `SettledOnce` | `StreamInv` |
| `SessionProofs!TypeCorrect` | `TypeOK` | inductive |
| `SessionProofs!NeverLeftDownHolds` | `NeverLeftDown` | `LoopInv` |
| `SessionProofs!GivesUpAfterMaxHolds` | `GivesUpAfterMax` | `LoopInv` |
| `SessionProofs!StopClosesHolds` | `StopCloses` | `LoopInv` |
| `SessionProofs!SubscriptionsRecoveredHolds` | `SubscriptionsRecovered` | `RecoveryInv` |
| `SessionProofs!LeaksInRecoveryOnlyHolds` | `LeaksInRecoveryOnly` | `RecoveryInv` |
| `OperationsProofs!TypeCorrect` | `TypeOK` | inductive |
| `OperationsProofs!ImplementsTurns` | `TurnsSpec` | step simulation from `WireInv` and `TurnInv` |
| `OperationsProofs!OneHandleHolds` | `OneHandle` | `HandleInv` |
| `OperationsProofs!BlockedForCauseHolds` | `BlockedForCause` | `BlockedInv` |
| `OperationsProofs!OneChannelEachHolds` | `OneChannelEach` | `SlotInv` |
| `OperationsProofs!FailsForCauseHolds` | `FailsForCause` | `CauseInv`, on all of the others |
| `OperationsProofs!ConsumeOneTypeCorrect` | `TypeOK` of `ConsumeOne` | inductive |
| `OperationsProofs!ConsumedIsGivenHolds` | `ConsumedIsGiven` | `CallInv` |
| `OperationsProofs!LeavesNothingHolds` | `LeavesNothing` | `CallInv` |
| `RpcClientProofs!TypeCorrect` | `TypeOK` | inductive |
| `RpcClientProofs!PendingIsHeldHolds` | `PendingIsHeld` | `WaitInv` |
| `RpcClientProofs!ReplyIsOwnHolds` | `ReplyIsOwn` | `WaitInv` |
| `RpcClientProofs!OneChannelUnlessRaced` | `LeaksWhenRaced` | `HoldInv` |
| `RpcClientProofs!StrandedForCauseHolds` | `StrandedForCause` | `StrandInv`, on `HoldInv` |

Assumptions, each an `ASSUME` of the module it is about that TLC evaluates in every run:
`None`, and the names `Select` and `Close` of frames, differ from every call, object, number,
publish, message, operation and subscription; a message is none of the other values of
basicGet's promise or of the verdicts of `consumeOne`; the bounds are natural numbers. `StreamAssumption` says of the stream of
`FrameAssembly` what AMQP and the negotiated frameMax say: a frame has a header and an end
byte at least, and fits in `frameBuffer`. The sets are arbitrary, infinite ones included,
except for the numbered ones (channels, attempts, tags), which are any interval from 1.

*`HeldInv`.* `PendingIsHeld` is not inductive: a step of the chain or an answer moves or drops
the first element of a sequence, and what remains is held only if no element occurs twice.
`HeldOnce` says so. A failed write pops the last callbacks, which are the failing call's only by
`WritingIsLast`, and that in turn needs `HeldOnce` to know the writing call is not elsewhere.
The three together are inductive.

*`OrderSpec`.* Every step of `ChannelRpc` changes the concatenation of callbacks and queue by
at most an append, the head leaving, one element leaving (a failed write, a rejected step) or
a prefix being dropped (`setClosed`). The steps of the wire and the broker stutter. The failed
write takes the last of the callbacks, which is an inner element of the concatenation.

*`WireInv`.* Nothing on the wire says whose answer a frame is, so `AnswerIsOwn` is about
positions. On a number that no frame of a replaced object crosses, the callbacks of the
object in the table are, in order, the calls of the answers on the way to the client and of
the requests on the way to the server (`InStep`). A channel exception breaks that: until the
client reads the Close, frames before it are still in step (`ToldToClose`); from the client's
close-ok to the server's reading it, the requests ahead of it are those the server drops, and
those behind it are a new object's (`Draining`). Every number is in one of the three.

*`DueInv`.* Of `NeverStuck` the steps in the client are easy: what the chain, the socket or the
parser holds is due (`EndsInv`; the frames that may be under way are `TrafficInv`). What is
left is a call whose callbacks are in the list while the wire of its number is empty. `WireInv`
excludes that on a number that is not in `crossed`, and says nothing of the others. `PhaseInv`
holds on all: a number that the broker does not close has at least as many answers and
requests under way as callbacks (`Enough`; a replaced object may have sent one more); if it
does close it, its Close is under way (`Closing`), or the client's close-ok, with a request
behind it for each of the callbacks (`Answered`), or neither (`CloseForgotten`). The last was
found in the attempt to prove the three others invariant: it takes a third channel object, and
is a fault of the program ([below](#what-disagrees)). `WireInv` then shows that the number is
in `crossed`.

*`ListInv`, `NumberInv`.* A buffer has one owner: a pending promise, or the pool. From there a
publish is in the list once, and as long as it waits for its confirm. That a confirm finds
its publish needs the two counts to agree all the way, which is true if nothing was published
between `confirmSelect` and its answer (`~skewed`): before the answer nothing is numbered
(`Unnumbered`), after it the publishes on the wire have the numbers the broker will give
(`Numbered`), what the broker has numbered has the client's number (`Agreed`), each confirm
under way is about publishes no other one covers (`ConfirmsOnce`) and is the broker's verdict
on them (`Covered`). `SettledAtRest` also needs `TableOK`: a channel that left the table is
closed, and one that is still in it when the socket is gone is there only because `closed` of
the connection was set before (`ending`), so that nobody has told it (`Untold`). The two searches and the splice of `publishConfirmed` are lemmas about
sequences in order.

*`FrameInv`.* What is in the handler's hands, whatever the cuts: the place in the stream is
that of the coming frame plus `framePos` (`AtTheFrame`), the bytes copied so far are its bytes,
and it is not complete (`PartIsPart`), its size being known after its header only.

*`SocketsInv`.* Every promise and every event handler acts on `this.socket` and
`this.connectPromise`, which are those of the latest attempt or nothing (`AttemptInv`). A
socket on its way up, or up, is the client's, unless its attempt timed out (`HeldInv`), and how
far the handshake on it has come agrees with its promise (`PhaseInv`); `closed` is false only
when it is done (`UsableInv`). The four together are inductive as long as no socket that was
given up has its say (`~meddled`), for any number of attempts.

*`BaseInv`, `FlowInv`, `RegInv`.* What is due to happen on a channel is a row: the microtasks,
the delivery being assembled, the frames on the wire (`Due`). Every step takes the first of
the jobs away, moves a frame that says nothing out of the row, adds at the end, or cuts off
all that is not a job yet, so most steps are covered by one lemma each about such a move
(`Moves`). `BaseInv` says that messages on the wire are whole (`Whole`), without which a body
could complete another message. `Answered` places the answer to basicConsume ahead of the
deliveries of its consumer, which is why these find it registered; `DueInOrder` says that
before a delivery everything sent earlier and not handed over is due. `CauseInv` adds that
nothing for a consumer follows the answer to its cancel.

*`AllDue`, `OtherInv`.* For `HandedInOrder` nothing may be lost either: as long as the channel
is open at both ends, what was sent was handed over, dropped or is due (`AllDue`), and each
message that is no delivery is in one of the places from the wire to the application
(`NoneLost`), never among the deliveries (`Told`). A basicGet has one answer under way
(`GetInv`), and a channel the broker closed has a close on the wire (`ShutInv`), so that at
rest both ends are open and the row is empty.

*`StreamInv`.* The queue of a consumer holds its latest deliveries (`QueueInv`), nothing was
taken from a consumer the reader has not come to (`FreshInv`), and of the one it reads all
that was taken was yielded or nacked, but for the message in hand (`ReaderInv`); so neither
acknowledgement, nack nor yield can come twice.

*`LoopInv`.* `NeverLeftDown` depends on what `loop` says about the connection
(`LinkFollowsLoop`): a loss while the loop runs does not start it, so it must be at a place
from which it looks at `closed` again. `AttemptsAreCounted` relates `reconnectAttempts` to the
attempts made at each place of the loop; `StopEndsAttempts` carries what `stop` saw.

*`RecoveryInv`.* That every subscription is recovered needs what is true half way: those the
loop has visited have a consumer or were reported (`VisitedAreRecovered`), nothing survives
its connection (`DeadWithConnection`), the one in hand is a visited one
(`HandlesAreOrderly`), and what recovery will do twice or in vain is recorded
(`RacedAreKnown`).

*`TurnInv`.* The lock is a chain of promises, each operation hanging on the one before
(`ChainFollowsCalls`, `LockIsLast`); that the turns follow the calls is `OneAtATime`: who is
not queued any more has only ended ones before him. It holds because the one before is in the
list exactly once (`CalledOnce`). A step that changes several places, the end of a channel,
changes one called operation at most, so the abstract specification has one step for it.

*`SlotInv`.* That a slot has one channel needs the whole life of an opening: a channel being
opened is the one in `slotPromise` (`OpeningIsShared`), an open one is stored or about to be,
what is stored may be closed but is closed whenever something else is being opened, and all
of it ends with the connection (`DownIsShut`).

*`CauseInv`.* Who is on a closed channel has a cause to fail. The step that matters is the
broker's refusal: everyone on that channel fails, and if the refused one is an RPC there is
nobody else on it, because of `TurnInv` (`OneRuns`). That nobody gets on a channel that is
closed already is `SlotInv`.

*`CallInv`.* `finish` is called from five places, and what each leaves behind is what the others
must find: the callback that settles the call is over, and those at work then are in
`overtaken` (`VerdictInv`); whoever has acknowledged a message, or has the acknowledgement under
way, is one of these (`AckInv`). The cleanup runs once, the second one finds the channel closed
(`CleanInv`). That a settled call leaves nothing at the broker is `BrokerInv`: a channel that is
closed otherwise than by `close()`, or whose close is answered, is not served any more, and
neither is one whose connection is gone; a close that is rejected was refused for want of a
connection.

*`WaitInv`.* An entry of the RPC client is found by its correlationId, so the entry of a reply
is that of its call only as numbers differ from the call on (`IdsAreOwn`); a call is encoded,
pending or decoded, never two of these (`PlacesDiffer`).

*`HoldInv`, `StrandInv`.* `start` runs only while there is no channel and no loss to recover
from (`StartIsAlone`), which gives one channel at most; and what was sent on an older channel
is refused (`ClosedSendsNothing`) or was rejected by `recover`.

TLC checked each property on the instance of its run before it was proved.

The properties of `ConsumeOne` and `Sockets` are in modules of their own, `OneMessage` and
`Connection`, with the variables they speak of: a proof module that is about two components
extends these and takes the rest of the second component by `INSTANCE`.

**Only model-checked.** Every invariant and every action property that a run checks is
proved. Out of the prover's reach are liveness under fairness (`HandlerEnds`, `CancelEnds`,
`Reconnects`, `EverySettles`, `EndsWhenDue`, `CallsSettle`) and `ENABLED`, and induction over
data: what a recursive definition computes for every input. `SomethingIsDue` names the guards
of the actions where `ENABLED` would have taken them from the actions; TLC found the two
equivalent in every state of an instance like that of `rpc_safety`.

## What disagrees

The `findings` of `PROJECT.json` quote the lines.

- **Outstanding calls of a closed channel.** `setClosed` is documented to reject all
  outstanding requests. It does nothing on a channel whose own `close()` has set `closed`, and
  never touches `rpcQueue`: when a Close of the broker crosses the client's, the close and the
  calls behind it are never settled. `NeverStuck` speaks of channels in the table for this.
- **A number the broker keeps closing.** When a Close of the broker crosses the client's close,
  the close-ok comes to whatever object has the number by then and takes it out of the table. A
  Close of the broker that finds no object is skipped and not answered; the open of the next
  channel on that number is discarded by the broker and never settled. `NeverStuck` has that
  exception (`CloseForgotten`), and is proved to have no other.
- **Publishes during `confirmSelect`.** The broker counts them and the client does not; later
  publishes are taken for their predecessors and one is fulfilled that was not confirmed.
  `VerdictIsOwn` holds while the counts agree (`skewed`).
- **A header over three WebSocket messages.** `handleMessage` throws; the socket client's
  `onRead` was repaired for the same case. `FramesInOrder` has that exception.
- **`wait()` after `channel.close()`.** Documented to be fulfilled; it is pending for ever
  (`EndedIsTold` has that exception).
- **A heartbeat timeout** (`session_heartbeat`). `closeSocket` makes the loss look like the
  client's own close: `ondisconnect` is not called and a session does not reconnect.
  `NeverLeftDown` and `Reconnects` hold with that exception (`silent`).
- **Who waits on such a connection.** Its channels are not told either, nor those of a TCP
  connection that breaks while the client's `close` waits for its answer
  (`amqp-socket-client.ts:81`). A confirmed publish stays pending on an open channel (`Untold`
  of `SettledAtRest`). A Basic.Cancel under way is never settled, so `cancel()` of a
  subscription and the iterator's `finally` wait for ever (`NeverAnswered` of `CancelEnds`),
  although `amqp-subscription.ts` provides for a consumer that is gone either way. A
  `consumeOne` without time limit is not told that its consumer has ended (`NeverTold` of
  `EndsWhenDue`), although the comment at `amqp-queue.ts:278` says that it is.
- **`stop` during an attempt.** It returns with nothing closed, and the attempt then succeeds
  and is kept. `StopCloses` holds with that exception.
- **`close` or `cancel` during recovery.** `AMQPRPCClient.start` and `AMQPQueue.recover` do not
  look again after their awaits and keep a channel, a consumer, nobody will close.
  `LeaksWhenRaced` and `LeaksInRecoveryOnly` hold with that exception.
- **A consumer recovered too soon** (`streams_stall`). The iterator makes its `consumerReady`
  only when the old consumer's stream has ended and its channel's cancel is over; a consumer
  that `setConsumer` sets before that is missed, and the iterator waits for ever, or for the
  next reconnection, beside a live consumer that fills its queue.
- **`blocked` outlives its connection.** Nothing but Connection.Unblocked resets it, so after a
  blocked connection was lost every publish of the next one is refused.
- **`consumeOne` and a message in hand.** The timer rejects a call whose message is being
  decoded or acknowledged: the message is gone and nobody has it (`overtaken`).
- **`consumeOne` and a lost connection.** It awaits `ch.close()` before it settles, and a close
  or cancel that loses its connection is not always settled: not if `close()` has marked the
  channel before `setClosed` comes, and not after a silent end (`stranded`). Nor is the end of a
  consumer told that was registered on a closed channel (`unheard`).

Seen on the way, without a line of documentation to set them against:

- `amqp-base-client.ts:276`, `:302` and `:315` pass `this.rejectConnect` without its object to
  `catch`: a write that fails in the handshake throws inside, and the attempt is not rejected
  by it (`Sockets.Reply`).
- A socket whose attempt timed out stays open. Its handshake goes on, on the socket of the next
  attempt; its Open-Ok resolves that attempt's promise, and its close event or its own
  time limit takes that attempt's socket away. The properties of `Sockets` hold until then
  (`meddled`).
- `close` and `updateSecret` are pending for ever if the connection ends under them, and
  `updateSecret` is fulfilled by a Connection.Close (`cutShort`).
- A cancel of an iterator over a consumer that was made on a closed channel does not end it,
  nor one whose Basic.Cancel could not be written before `cancel()` closed the channel
  (`OnDeadConsumer`): nobody calls `setClosed` of that consumer any more.

## What is not modelled

- The content of messages, fields and frames (`amqp-view.ts`, `amqp-frame.ts`), codecs
  (`amqp-codec-registry.ts`) and SASL and tuning values: sequential, without state, and well
  served by round-trip tests. A decode or encode that may fail is an alternative in the models.
- The RPC server: a subscription with a callback, and no state of its own.
- Several queue handles of one session: `recoverQueues` does for each what `Session` does for
  one. `Operations` follows one queue name.
- `basicQos`, `basicRecover`, `basicFlow` and the methods that only send an RPC are one kind of
  call in `ChannelRpc`; `get`, `bind`, `purge` and the like one kind of operation in
  `Operations`.
- The decoding wrapper of callback subscriptions, with its catch of what the callback throws.
- After a heartbeat timeout, or a loss after the client's own close, channel objects stay open
  in the client although their connection is gone. `PublishConfirms`, `Consumers`, `Streams`,
  `ConsumeOne` and `Session` follow that; in `RpcClient`, `Operations` and `ChannelRpc` a lost
  connection always closes its channels, so what these three say of calls that settle is not
  said of a connection that ends silently. A later `connect()` of the same client after a silent
  end, with the old channel objects still in hand, and a silent end that a running recovery loop
  notices, are not followed.
- In `ConsumeOne` the broker may still answer a Basic.Consume that is behind Connection.Close,
  which allows more than the code does.
- `rejectRPC` of `AMQPChannel` has no caller.
