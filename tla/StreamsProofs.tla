---------------------------- MODULE StreamsProofs ----------------------------
(***************************************************************************)
(* Streams for any number of consumers and deliveries: the reader is       *)
(* served, gets each consumer's messages in order, and settles each once.  *)
(*                                                                         *)
(* The argument counts, for each consumer, the messages that have left its *)
(* queue (Taken).  The ones the application was given and the ones that    *)
(* were nacked are among them, and while the reader has the consumer in    *)
(* hand, all of them but for the one it is working on.  A reader that      *)
(* leaves a consumer never comes back to it: it waits for a later one.     *)
(***************************************************************************)
EXTENDS Streams, TLAPS

USE StreamsAssumption

----------------------------------------------------------------------------
(* The inductive invariant *)

TypeInv == TypeOK /\ (reopening => current < MaxConsumer)

LinkTyped == link \in {"up", "broken", "down"} /\ silent \in BOOLEAN

\* how many of the messages of c have left its queue
Taken(c) == delivered[c] - Len(messageQueue[c])
\* the messages of c that came out of the iterator, to the application or to a nack
Seen(c) == Elements(yielded[c]) \cup nacked[c]

\* The queue of a consumer holds its latest messages, in order.
QueueInv ==
    \A c \in Consumer :
        /\ Len(messageQueue[c]) <= delivered[c]
        /\ \A i \in 1 .. Len(messageQueue[c]) : messageQueue[c][i] = Taken(c) + i

\* What was seen or acknowledged has left the queue; what was not acknowledged was not settled.
SettledInv ==
    \A c \in Consumer :
        /\ Seen(c) \cup acked[c] \subseteq 1 .. Taken(c)
        /\ \A t \in Tag : t \notin acked[c] => settlements[c][t] = 0
HistoryInv == SettledInv /\ YieldedInOrder /\ SettledOnce

\* Nothing was taken from a consumer the reader has not come to.
FreshInv ==
    /\ from <= current
    /\ \A c \in Consumer : c > from => Taken(c) = 0
    /\ at \in {"new", "begin"} /\ ~stopped => Taken(current) = 0

Reading == {"pulling", "woken", "acking", "decoding", "nacking", "idle"}
\* t is the last message taken from c, and all before it were seen.
InHand(c, t) ==
    /\ t = Taken(c) /\ t \in Tag /\ 1 .. t - 1 \subseteq Seen(c) /\ t \notin Seen(c) \cup acked[c]
\* The reader has a message in hand.
Holding == at \in {"acking", "decoding"} \/ (at = "woken" /\ closed[from] = "no")
ReaderInv ==
    /\ at \in Reading /\ prev # None => prev \in Elements(yielded[from])
    /\ at \in {"new", "begin", "waiting", "done"} => prev = None
    /\ at = "idle" => prev # None
    /\ Holding => InHand(from, msg)
    /\ at \in {"pulling", "nacking", "idle"} => 1 .. Taken(from) \subseteq Seen(from)

StreamInv == TypeInv /\ QueueInv /\ HistoryInv /\ FreshInv /\ ReaderInv /\ ReaderIsServed

LEMMA InitStream == Init => StreamInv
<1> SUFFICES ASSUME Init PROVE StreamInv
  OBVIOUS
<1>1. TypeInv
  <2>1. 1 \in Consumer /\ 0 \in 0 .. MaxTag
    BY DEF Consumer
  <2>2. messageQueue \in [Consumer -> Seq(Tag)] /\ yielded \in [Consumer -> Seq(Tag)]
    BY DEF Init
  <2>3. /\ delivered \in [Consumer -> 0 .. MaxTag] /\ current \in Consumer /\ from \in Consumer
        /\ settlements \in [Consumer -> [Tag -> Nat]]
    BY <2>1 DEF Init
  <2>4. /\ acked \in [Consumer -> SUBSET Tag] /\ nacked \in [Consumer -> SUBSET Tag]
        /\ channelOpen \in [Consumer -> BOOLEAN]
        /\ closed \in [Consumer -> {"no", "quietly", "error"}]
        /\ cancelPromise \in [Consumer -> {"none", "asked", "settled"}]
    BY DEF Init
  <2>. QED
    BY <2>2, <2>3, <2>4 DEF Init, TypeInv, TypeOK, Place
<1>2. \A c \in Consumer : /\ messageQueue[c] = <<>> /\ delivered[c] = 0 /\ Taken(c) = 0
                          /\ yielded[c] = <<>> /\ acked[c] = {} /\ nacked[c] = {}
                          /\ \A t \in Tag : settlements[c][t] = 0
  BY DEF Init, Taken
<1>3. QueueInv
  BY <1>2 DEF QueueInv
<1>4. HistoryInv
  BY <1>2 DEF HistoryInv, SettledInv, YieldedInOrder, SettledOnce, Seen, Elements
<1>5. FreshInv
  BY <1>2 DEF Init, FreshInv, Consumer
<1>6. ReaderInv /\ ReaderIsServed
  BY DEF Init, ReaderInv, ReaderIsServed, Holding, Reading
<1>. QED
  BY <1>1, <1>3, <1>4, <1>5, <1>6 DEF StreamInv

----------------------------------------------------------------------------
(* Queues and histories *)

LEMMA Counted ==
    ASSUME StreamInv, NEW c \in Consumer
    PROVE  /\ Len(messageQueue[c]) \in Nat /\ delivered[c] \in Nat /\ delivered[c] <= MaxTag
           /\ Taken(c) \in Nat /\ Taken(c) <= MaxTag /\ MaxTag \in Nat
           /\ messageQueue[c] \in Seq(Tag) /\ yielded[c] \in Seq(Tag)
           /\ delivered[c] = Taken(c) + Len(messageQueue[c])
<1>1. /\ Len(messageQueue[c]) \in Nat /\ delivered[c] \in Nat /\ delivered[c] <= MaxTag
      /\ messageQueue[c] \in Seq(Tag) /\ yielded[c] \in Seq(Tag)
  BY DEF StreamInv, TypeInv, TypeOK
<1>2. Len(messageQueue[c]) <= delivered[c]
  BY DEF StreamInv, QueueInv
<1>. QED
  BY <1>1, <1>2 DEF Taken

LEMMA QueueKept ==
    ASSUME StreamInv, UNCHANGED <<delivered, messageQueue>>
    PROVE  QueueInv' /\ \A c \in Consumer : Taken(c)' = Taken(c)
BY DEF StreamInv, QueueInv, Taken

\* messageQueue.shift()
LEMMA QueueTaken ==
    ASSUME StreamInv, NEW c \in Consumer, messageQueue[c] # <<>>, UNCHANGED delivered,
           messageQueue' = [messageQueue EXCEPT ![c] = Take(@).rest]
    PROVE  /\ QueueInv' /\ messageQueue' \in [Consumer -> Seq(Tag)]
           /\ \A d \in Consumer : d # c => Taken(d)' = Taken(d)
           /\ Taken(c)' = Taken(c) + 1 /\ Take(messageQueue[c]).first = Taken(c) + 1
           /\ Taken(c) + 1 \in Tag
<1> DEFINE q == messageQueue[c]
           n == Len(q)
<1>1. q \in Seq(Tag) /\ n \in Nat /\ n # 0 /\ Taken(c) \in Nat /\ delivered[c] = Taken(c) + n
  BY Counted
<1>2. messageQueue'[c] = Tail(q) /\ \A d \in Consumer : d # c => messageQueue'[d] = messageQueue[d]
  BY DEF StreamInv, TypeInv, TypeOK, Take
<1>3. /\ Tail(q) \in Seq(Tag) /\ Len(Tail(q)) = n - 1
      /\ \A i \in 1 .. n - 1 : Tail(q)[i] = q[i + 1]
      /\ Head(q) = q[1]
  BY <1>1
<1>4. messageQueue' \in [Consumer -> Seq(Tag)]
  BY <1>3 DEF StreamInv, TypeInv, TypeOK, Take
<1>5. Taken(c)' = Taken(c) + 1
  <2>1. Taken(c)' = delivered[c] - Len(Tail(q))
    BY <1>2 DEF Taken
  <2>. QED
    BY <1>1, <1>3, <2>1
<1>6. \A d \in Consumer : d # c => Taken(d)' = Taken(d)
  BY <1>2 DEF Taken
<1>7. \A i \in 1 .. n : q[i] = Taken(c) + i
  BY DEF StreamInv, QueueInv
<1>8. Take(q).first = Taken(c) + 1
  BY <1>1, <1>3, <1>7 DEF Take
<1>9. Taken(c) + 1 \in Tag
  <2>1. 1 \in 1 .. n /\ q[1] = Taken(c) + 1
    BY <1>1, <1>7
  <2>. QED
    BY <1>1, <2>1
<1>10. QueueInv'
  <2> SUFFICES ASSUME NEW d \in Consumer
               PROVE  /\ Len(messageQueue'[d]) <= delivered'[d]
                      /\ \A i \in 1 .. Len(messageQueue'[d]) : messageQueue'[d][i] = Taken(d)' + i
    BY DEF QueueInv
  <2>1. CASE d = c
    <3> HIDE DEF q, n
    <3>1. messageQueue'[d] = Tail(q) /\ delivered'[d] = delivered[c] /\ Taken(d)' = Taken(c) + 1
      BY <1>2, <1>5, <2>1
    <3>2. Len(Tail(q)) <= delivered[c]
      BY <1>1, <1>3
    <3>3. \A i \in 1 .. n - 1 : Tail(q)[i] = Taken(c) + 1 + i
      <4> SUFFICES ASSUME NEW i \in 1 .. n - 1 PROVE Tail(q)[i] = Taken(c) + 1 + i
        OBVIOUS
      <4>1. i + 1 \in 1 .. n
        BY <1>1
      <4>2. Tail(q)[i] = Taken(c) + (i + 1)
        BY <1>3, <1>7, <4>1
      <4>3. Taken(c) \in Nat /\ i \in Nat
        BY <1>1
      <4>4. Taken(c) + (i + 1) = Taken(c) + 1 + i
        BY <4>3
      <4>. QED
        BY <4>2, <4>4, Zenon
    <3>. QED
      BY <1>3, <3>1, <3>2, <3>3
  <2>2. CASE d # c
    BY <1>2, <1>6, <2>2 DEF StreamInv, QueueInv
  <2>. QED
    BY <2>1, <2>2
<1>. QED
  BY <1>4, <1>5, <1>6, <1>8, <1>9, <1>10

\* A message is delivered and queued, or goes past the queue to the generator that waits.
LEMMA QueueDelivered ==
    ASSUME StreamInv, NEW c \in Consumer, delivered[c] < MaxTag,
           delivered' = [delivered EXCEPT ![c] = @ + 1],
           \/ messageQueue' = [messageQueue EXCEPT ![c] = Append(@, delivered[c] + 1)]
           \/ messageQueue[c] = <<>> /\ UNCHANGED messageQueue
    PROVE  /\ QueueInv' /\ messageQueue' \in [Consumer -> Seq(Tag)]
           /\ delivered' \in [Consumer -> 0 .. MaxTag]
           /\ \A d \in Consumer : d # c => Taken(d)' = Taken(d)
           /\ UNCHANGED messageQueue =>
                 Taken(c) = delivered[c] /\ Taken(c)' = Taken(c) + 1 /\ Taken(c) + 1 \in Tag
           /\ ~UNCHANGED messageQueue => Taken(c)' = Taken(c)
<1> DEFINE q == messageQueue[c]
           n == Len(q)
           k == delivered[c]
<1>1. q \in Seq(Tag) /\ n \in Nat /\ Taken(c) \in Nat /\ k = Taken(c) + n /\ k \in Nat /\ MaxTag \in Nat
  BY Counted
<1>2. k + 1 \in Tag /\ k + 1 \in 0 .. MaxTag
  BY <1>1 DEF Tag
<1>3. delivered'[c] = k + 1 /\ \A d \in Consumer : d # c => delivered'[d] = delivered[d]
  BY DEF StreamInv, TypeInv, TypeOK
<1>4. delivered' \in [Consumer -> 0 .. MaxTag]
  BY <1>2 DEF StreamInv, TypeInv, TypeOK
<1>5. ASSUME NEW d \in Consumer, d # c, messageQueue'[d] = messageQueue[d]
      PROVE  /\ Taken(d)' = Taken(d) /\ Len(messageQueue'[d]) <= delivered'[d]
             /\ \A i \in 1 .. Len(messageQueue'[d]) : messageQueue'[d][i] = Taken(d)' + i
  <2>1. Taken(d)' = Taken(d)
    BY <1>3, <1>5 DEF Taken
  <2>. QED
    BY <1>3, <1>5, <2>1 DEF StreamInv, QueueInv
<1>6. CASE messageQueue' = [messageQueue EXCEPT ![c] = Append(@, k + 1)]
  <2>1. /\ messageQueue'[c] = Append(q, k + 1)
        /\ \A d \in Consumer : d # c => messageQueue'[d] = messageQueue[d]
        /\ messageQueue' \in [Consumer -> Seq(Tag)]
    <3>1. messageQueue \in [Consumer -> Seq(Tag)]
      BY DEF StreamInv, TypeInv, TypeOK
    <3>2. Append(q, k + 1) \in Seq(Tag)
      BY <1>1, <1>2
    <3> HIDE DEF k
    <3>. QED
      BY <1>6, <3>1, <3>2
  <2>2. /\ Len(Append(q, k + 1)) = n + 1 /\ Append(q, k + 1)[n + 1] = k + 1
        /\ \A i \in 1 .. n : Append(q, k + 1)[i] = q[i]
    BY <1>1
  <2>3. Taken(c)' = Taken(c)
    <3>1. Taken(c)' = (k + 1) - (n + 1)
      BY <1>3, <2>1, <2>2 DEF Taken
    <3>. QED
      BY <1>1, <3>1
  <2>4. \A i \in 1 .. n : q[i] = Taken(c) + i
    BY DEF StreamInv, QueueInv
  <2>5. ~UNCHANGED messageQueue
    BY <1>1, <2>1, <2>2
  <2> HIDE DEF q, n, k
  <2>6. \A i \in 1 .. n + 1 : Append(q, k + 1)[i] = Taken(c) + i
    <3> SUFFICES ASSUME NEW i \in 1 .. n + 1 PROVE Append(q, k + 1)[i] = Taken(c) + i
      OBVIOUS
    <3>1. CASE i = n + 1
      BY <1>1, <2>2, <3>1
    <3>2. CASE i \in 1 .. n
      BY <2>2, <2>4, <3>2
    <3>3. i = n + 1 \/ i \in 1 .. n
      BY <1>1
    <3>. QED
      BY <3>1, <3>2, <3>3
  <2>7. n + 1 <= k + 1
    BY <1>1
  <2>8. QueueInv'
    BY <1>3, <1>5, <2>1, <2>2, <2>3, <2>6, <2>7 DEF QueueInv
  <2>. QED
    BY <1>4, <1>5, <2>1, <2>3, <2>5, <2>8
<1>7. CASE q = <<>> /\ UNCHANGED messageQueue
  <2>1. n = 0 /\ Len(messageQueue'[c]) = 0
    BY <1>7
  <2>2. Taken(c)' = k + 1 /\ Taken(c) = k
    BY <1>1, <1>3, <2>1 DEF Taken
  <2>3. QueueInv'
    BY <1>1, <1>3, <1>5, <1>7, <2>1, <2>2 DEF QueueInv
  <2>4. messageQueue' \in [Consumer -> Seq(Tag)]
    BY <1>7 DEF StreamInv, TypeInv, TypeOK
  <2>. QED
    BY <1>2, <1>4, <1>5, <1>7, <2>2, <2>3, <2>4
<1>. QED
  BY <1>6, <1>7

LEMMA HistoryKept ==
    ASSUME StreamInv, UNCHANGED <<acked, settlements, nacked, yielded>>,
           \A c \in Consumer : Taken(c)' \in Nat /\ Taken(c) <= Taken(c)'
    PROVE  HistoryInv' /\ \A c \in Consumer : Seen(c)' = Seen(c)
<1>1. \A c \in Consumer : Seen(c)' = Seen(c)
  BY DEF Seen
<1>2. \A c \in Consumer : Taken(c) \in Nat
  BY Counted
<1>3. SettledInv'
  BY <1>1, <1>2 DEF StreamInv, HistoryInv, SettledInv
<1>4. YieldedInOrder' /\ SettledOnce'
  BY DEF StreamInv, HistoryInv, YieldedInOrder, SettledOnce
<1>. QED
  BY <1>1, <1>3, <1>4 DEF HistoryInv

LEMMA SettleTyped ==
    ASSUME TypeOK, NEW c \in Consumer, NEW t \in Tag, Settle(c, t)
    PROVE  /\ acked' \in [Consumer -> SUBSET Tag] /\ settlements' \in [Consumer -> [Tag -> Nat]]
           /\ acked'[c] = acked[c] \cup {t} /\ \A d \in Consumer : d # c => acked'[d] = acked[d]
           /\ \A d \in Consumer : d # c => settlements'[d] = settlements[d]
           /\ \A u \in Tag : u # t => settlements'[c][u] = settlements[c][u]
           /\ settlements'[c][t] \in {settlements[c][t], settlements[c][t] + 1}
<1>1. /\ acked' \in [Consumer -> SUBSET Tag]
      /\ acked'[c] = acked[c] \cup {t} /\ \A d \in Consumer : d # c => acked'[d] = acked[d]
  BY DEF TypeOK, Settle
<1>2. settlements \in [Consumer -> [Tag -> Nat]]
  BY DEF TypeOK
<1>3. CASE settlements' = settlements
  BY <1>1, <1>2, <1>3
<1>4. CASE settlements' = [settlements EXCEPT ![c][t] = @ + 1]
  BY <1>1, <1>2, <1>4
<1>. QED
  BY <1>3, <1>4 DEF Settle

\* A message of c is settled: an acknowledged one was yielded, a nacked one was not.
LEMMA HistorySettled ==
    ASSUME StreamInv, NEW c \in Consumer, NEW t \in Tag, Settle(c, t), t \notin acked[c],
           UNCHANGED yielded,
           \A d \in Consumer : Taken(d)' \in Nat /\ Taken(d) <= Taken(d)',
           \/ t \in Elements(yielded[c]) /\ UNCHANGED nacked
           \/ /\ t \notin Elements(yielded[c]) /\ t <= Taken(c)'
              /\ nacked' = [nacked EXCEPT ![c] = @ \cup {t}]
    PROVE  /\ HistoryInv' /\ nacked' \in [Consumer -> SUBSET Tag]
           /\ \A d \in Consumer : Seen(d) \subseteq Seen(d)'
           /\ UNCHANGED nacked => \A d \in Consumer : Seen(d)' = Seen(d)
<1> DEFINE y(d) == Elements(yielded[d])
<1>1. TypeOK /\ \A d \in Consumer : Taken(d) \in Nat
  BY Counted DEF StreamInv, TypeInv
<1>2. /\ acked'[c] = acked[c] \cup {t} /\ \A d \in Consumer : d # c => acked'[d] = acked[d]
      /\ \A d \in Consumer : d # c => settlements'[d] = settlements[d]
      /\ \A u \in Tag : u # t => settlements'[c][u] = settlements[c][u]
      /\ settlements'[c][t] \in {settlements[c][t], settlements[c][t] + 1}
  BY <1>1, SettleTyped
<1>3. /\ nacked \in [Consumer -> SUBSET Tag] /\ nacked' \in [Consumer -> SUBSET Tag]
      /\ \A d \in Consumer : nacked[d] \subseteq nacked'[d] /\ (d # c => nacked'[d] = nacked[d])
      /\ nacked'[c] = nacked[c] \/ (nacked'[c] = nacked[c] \cup {t} /\ t \notin y(c) /\ t <= Taken(c)')
      /\ nacked'[c] = nacked[c] /\ ~(t \in nacked'[c]) => t \in y(c)
  <2>1. nacked \in [Consumer -> SUBSET Tag]
    BY <1>1 DEF TypeOK
  <2>2. CASE t \in y(c) /\ UNCHANGED nacked
    BY <2>1, <2>2
  <2>3. CASE /\ t \notin y(c) /\ t <= Taken(c)'
             /\ nacked' = [nacked EXCEPT ![c] = @ \cup {t}]
    <3> HIDE DEF y
    <3>. QED
      BY <2>1, <2>3
  <2>. QED
    BY <2>2, <2>3
<1>4. \A d \in Consumer : Seen(d) = y(d) \cup nacked[d] /\ Seen(d)' = y(d) \cup nacked'[d]
  BY DEF Seen, Elements
<1>5. ASSUME NEW d \in Consumer
      PROVE  /\ y(d) \cup nacked[d] \cup acked[d] \subseteq 1 .. Taken(d)
             /\ \A u \in Tag : u \notin acked[d] => settlements[d][u] = 0
             /\ acked[d] \ nacked[d] \subseteq y(d) /\ nacked[d] \cap y(d) = {}
             /\ \A u \in Tag : settlements[d][u] <= 1
  BY <1>4 DEF StreamInv, HistoryInv, SettledInv, SettledOnce
<1>6. 1 .. Taken(c) \subseteq 1 .. Taken(c)' /\ \A d \in Consumer : 1 .. Taken(d) \subseteq 1 .. Taken(d)'
  BY <1>1
<1>7. t \in 1 .. Taken(c)'
  BY <1>1, <1>5, <1>6 DEF Tag
<1>8. ASSUME NEW d \in Consumer
      PROVE  Seen(d)' \cup acked'[d] \subseteq 1 .. Taken(d)'
  <2> HIDE DEF y
  <2>1. CASE d = c
    BY <1>2, <1>3, <1>4, <1>5, <1>6, <1>7, <2>1
  <2>2. CASE d # c
    BY <1>2, <1>3, <1>4, <1>5, <1>6, <2>2
  <2>. QED
    BY <2>1, <2>2
<1>9. settlements[c][t] = 0
  BY <1>5
<1>10. SettledInv'
  <2>1. ASSUME NEW d \in Consumer, NEW u \in Tag, u \notin acked'[d] PROVE settlements'[d][u] = 0
    BY <1>2, <1>5, <2>1
  <2>. QED
    BY <1>8, <2>1 DEF SettledInv
<1>11. YieldedInOrder'
  <2> SUFFICES ASSUME NEW d \in Consumer
               PROVE  /\ \A i, j \in DOMAIN yielded[d] : i < j => yielded[d][i] < yielded[d][j]
                      /\ \A i \in DOMAIN yielded[d] : 1 .. yielded[d][i] \subseteq y(d) \cup nacked'[d]
    BY DEF YieldedInOrder, Elements
  <2>1. /\ \A i, j \in DOMAIN yielded[d] : i < j => yielded[d][i] < yielded[d][j]
        /\ \A i \in DOMAIN yielded[d] : 1 .. yielded[d][i] \subseteq y(d) \cup nacked[d]
    BY DEF StreamInv, HistoryInv, YieldedInOrder
  <2> HIDE DEF y
  <2>. QED
    BY <1>3, <2>1
<1>12. SettledOnce'
  <2>1. ASSUME NEW d \in Consumer
        PROVE  /\ acked'[d] \ nacked'[d] \subseteq y(d) /\ nacked'[d] \cap y(d) = {}
               /\ \A u \in Tag : settlements'[d][u] <= 1
    <3> HIDE DEF y
    <3>1. CASE d = c
      <4>1. \A u \in Tag : settlements'[c][u] <= 1
        BY <1>2, <1>5, <1>9
      <4>2. acked'[c] \ nacked'[c] \subseteq y(c) /\ nacked'[c] \cap y(c) = {}
        BY <1>2, <1>3, <1>5
      <4>. QED
        BY <3>1, <4>1, <4>2
    <3>2. CASE d # c
      BY <1>2, <1>3, <1>5, <3>2
    <3>. QED
      BY <3>1, <3>2
  <2>. QED
    BY <2>1 DEF SettledOnce, Elements
<1>. QED
  BY <1>3, <1>4, <1>10, <1>11, <1>12 DEF HistoryInv

----------------------------------------------------------------------------
(* Parts of steps *)

LEMMA Typed ==
    ASSUME StreamInv
    PROVE  /\ TypeOK /\ QueueInv /\ HistoryInv /\ FreshInv /\ ReaderInv /\ ReaderIsServed
           /\ from \in Consumer /\ current \in Consumer /\ from <= current
           /\ MaxConsumer \in Nat /\ Consumer = 1 .. MaxConsumer /\ Tag = 1 .. MaxTag /\ None \notin Tag
           /\ prev \in Tag \cup {None} /\ msg \in Tag \cup {None}
           /\ \A c \in Consumer : Taken(c) \in Nat /\ Seen(c) \cup acked[c] \subseteq 1 .. Taken(c)
           /\ \A c \in Consumer : c > from => Taken(c) = 0
<1>1. \A c \in Consumer : Taken(c) \in Nat
  BY Counted
<1>. QED
  BY <1>1 DEF StreamInv, TypeInv, TypeOK, FreshInv, HistoryInv, SettledInv, Consumer, Tag

\* The reader leaves a generator.
LEMMA LeaveStep ==
    ASSUME StreamInv, NEW c \in Consumer, NEW way \in {"again", "return"}, Leave(c, way),
           QueueInv', messageQueue' \in [Consumer -> Seq(Tag)], HistoryInv',
           acked' \in [Consumer -> SUBSET Tag], nacked' \in [Consumer -> SUBSET Tag],
           settlements' \in [Consumer -> [Tag -> Nat]],
           from' \in Consumer, from' <= current,
           \A d \in Consumer : d > from' => Taken(d)' = 0,
           UNCHANGED <<brokerVars, subVars, autoAck, yielded>>
    PROVE  StreamInv'
<1> USE DEF brokerVars, subVars
<1>1. cancelPromise' \in [Consumer -> {"none", "asked", "settled"}]
  BY DEF Leave, Ask, StreamInv, TypeInv, TypeOK
<1>2. at' = "leaving" /\ exit' = way /\ UNCHANGED <<prev, msg, channelOpen, closed>>
  BY DEF Leave
<1>3. TypeInv'
  BY <1>1, <1>2 DEF StreamInv, TypeInv, TypeOK, Place
<1>4. FreshInv' /\ ReaderInv' /\ ReaderIsServed'
  BY <1>2 DEF FreshInv, ReaderInv, ReaderIsServed, Reading, Holding
<1>. QED
  BY <1>3, <1>4 DEF StreamInv

\* The reader has the message t in hand.
LEMMA HoldStep ==
    ASSUME StreamInv, NEW c \in Consumer, NEW t \in Tag,
           at' \in {"acking", "decoding"}, msg' = t, UNCHANGED <<prev, exit, consumerVars>>,
           QueueInv', messageQueue' \in [Consumer -> Seq(Tag)], HistoryInv',
           acked' \in [Consumer -> SUBSET Tag], nacked' \in [Consumer -> SUBSET Tag],
           settlements' \in [Consumer -> [Tag -> Nat]],
           InHand(c, t)', prev # None => prev \in Elements(yielded[c]),
           from' = c, c <= current, \A d \in Consumer : d > c => Taken(d)' = 0,
           UNCHANGED <<brokerVars, subVars, autoAck, yielded>>
    PROVE  StreamInv'
<1> USE DEF brokerVars, subVars, consumerVars
<1>1. TypeInv'
  BY DEF StreamInv, TypeInv, TypeOK, Place
<1>2. FreshInv' /\ ReaderIsServed'
  BY DEF FreshInv, ReaderIsServed
<1>3. Elements(yielded[c])' = Elements(yielded[c])
  BY DEF Elements
<1>4. InHand(from, msg)'
  BY DEF InHand, Taken, Seen, Elements
<1>5. ReaderInv'
  BY <1>3, <1>4 DEF ReaderInv, Reading, Elements
<1>. QED
  BY <1>1, <1>2, <1>5 DEF StreamInv

\* The generator of c has got the message t from its queue, or from the broker.
LEMMA GotMessageStep ==
    ASSUME StreamInv, NEW c \in Consumer, NEW t \in Tag,
           QueueInv', messageQueue' \in [Consumer -> Seq(Tag)],
           \A d \in Consumer : Taken(d)' \in Nat /\ Taken(d) <= Taken(d)',
           t = Taken(c)', 1 .. t - 1 \subseteq Seen(c), t \notin Seen(c) \cup acked[c],
           prev # None => prev \in Elements(yielded[c]),
           from' = c, c <= current, \A d \in Consumer : d > c => Taken(d)' = 0,
           GotMessage(c, t), UNCHANGED <<brokerVars, subVars, autoAck, yielded>>
    PROVE  StreamInv'
<1>1. /\ acked \in [Consumer -> SUBSET Tag] /\ nacked \in [Consumer -> SUBSET Tag]
      /\ settlements \in [Consumer -> [Tag -> Nat]]
  BY DEF StreamInv, TypeInv, TypeOK
<1>2. CASE UNCHANGED ackVars
  <2>1. HistoryInv' /\ Seen(c)' = Seen(c) /\ UNCHANGED <<acked, settlements, nacked>>
    BY <1>2, HistoryKept DEF ackVars
  <2>2. CASE Leave(c, "return")
    BY <1>1, <2>1, <2>2, LeaveStep
  <2>3. CASE at' = "decoding" /\ msg' = t /\ UNCHANGED <<prev, exit, consumerVars>>
    <3>1. InHand(c, t)'
      BY <2>1 DEF InHand
    <3>. QED
      BY <1>1, <2>1, <2>3, <3>1, HoldStep
  <2>4. CASE /\ prev # None /\ prev \notin acked[c] /\ Settle(c, prev)
    <3>1. prev \in Tag /\ TypeOK
      BY <2>4, Typed
    <3>2. acked'[c] = acked[c] \cup {prev}
      BY <2>4, <3>1, SettleTyped
    <3>. QED
      BY <2>1, <2>4, <3>2
  <2>. QED
    BY <2>2, <2>3, <2>4 DEF GotMessage, Unsettled
<1>3. CASE ~UNCHANGED ackVars
  <2>1. /\ prev # None /\ prev \notin acked[c] /\ Settle(c, prev) /\ UNCHANGED nacked
        /\ \/ Leave(c, "again")
           \/ at' = "acking" /\ msg' = t /\ UNCHANGED <<prev, exit, consumerVars>>
    BY <1>3 DEF GotMessage, Unsettled
  <2>2. prev \in Tag /\ prev \in Elements(yielded[c]) /\ prev # t
    BY <2>1, Typed DEF Seen
  <2>3. HistoryInv' /\ Seen(c)' = Seen(c)
    BY <2>1, <2>2, HistorySettled
  <2>4. /\ acked' \in [Consumer -> SUBSET Tag] /\ settlements' \in [Consumer -> [Tag -> Nat]]
        /\ acked'[c] = acked[c] \cup {prev} /\ nacked' = nacked
    BY <2>1, <2>2, Typed, SettleTyped
  <2>5. CASE Leave(c, "again")
    BY <1>1, <2>3, <2>4, <2>5, LeaveStep
  <2>6. CASE at' = "acking" /\ msg' = t /\ UNCHANGED <<prev, exit, consumerVars>>
    <3>1. InHand(c, t)'
      BY <2>2, <2>3, <2>4 DEF InHand
    <3>. QED
      BY <1>1, <2>3, <2>4, <2>6, <3>1, HoldStep
  <2>. QED
    BY <2>1, <2>5, <2>6
<1>. QED
  BY <1>2, <1>3

\* next() of the generator of c, all of whose messages so far were seen
LEMMA PullStep ==
    ASSUME StreamInv, NEW c \in Consumer, 1 .. Taken(c) \subseteq Seen(c),
           prev # None => prev \in Elements(yielded[c]),
           from' = c, c <= current, \A d \in Consumer : d > c => Taken(d) = 0,
           Pull(c), UNCHANGED <<brokerVars, subVars, autoAck, yielded>>
    PROVE  StreamInv'
<1>1. /\ acked \in [Consumer -> SUBSET Tag] /\ nacked \in [Consumer -> SUBSET Tag]
      /\ settlements \in [Consumer -> [Tag -> Nat]] /\ messageQueue \in [Consumer -> Seq(Tag)]
      /\ UNCHANGED delivered /\ \A d \in Consumer : Taken(d) \in Nat
  BY Typed DEF TypeOK, brokerVars
<1>2. ASSUME UNCHANGED <<messageQueue, ackVars>>
      PROVE  /\ QueueInv' /\ HistoryInv' /\ UNCHANGED <<acked, settlements, nacked>>
             /\ \A d \in Consumer : Taken(d)' = Taken(d) /\ Seen(d)' = Seen(d)
  <2>1. QueueInv' /\ \A d \in Consumer : Taken(d)' = Taken(d)
    BY <1>1, <1>2, QueueKept
  <2>. QED
    BY <1>1, <1>2, <2>1, HistoryKept DEF ackVars
<1>3. CASE Leave(c, "again") /\ UNCHANGED <<messageQueue, ackVars>>
  BY <1>1, <1>2, <1>3, LeaveStep
<1>4. CASE /\ messageQueue[c] # <<>> /\ messageQueue' = [messageQueue EXCEPT ![c] = Take(@).rest]
           /\ GotMessage(c, Take(messageQueue[c]).first)
  <2> DEFINE t == Take(messageQueue[c]).first
  <2>1. /\ QueueInv' /\ messageQueue' \in [Consumer -> Seq(Tag)]
        /\ \A d \in Consumer : d # c => Taken(d)' = Taken(d)
        /\ Taken(c)' = Taken(c) + 1 /\ t = Taken(c) + 1 /\ t \in Tag
    BY <1>1, <1>4, QueueTaken
  <2>2. GotMessage(c, t)
    BY <1>4
  <2> HIDE DEF t
  <2>3. ASSUME NEW d \in Consumer PROVE Taken(d)' \in Nat /\ Taken(d) <= Taken(d)'
    <3>1. CASE d = c
      BY <1>1, <2>1, <3>1
    <3>2. CASE d # c
      BY <1>1, <2>1, <3>2
    <3>. QED
      BY <3>1, <3>2
  <2>4. \A d \in Consumer : d > c => Taken(d)' = 0
    BY <1>1, <2>1, Typed
  <2>5. t \notin Seen(c) \cup acked[c]
    <3>1. Seen(c) \cup acked[c] \subseteq 1 .. Taken(c) /\ Taken(c) \in Nat
      BY Typed
    <3>2. t \notin 1 .. Taken(c)
      BY <2>1, <3>1
    <3>. QED
      BY <3>1, <3>2
  <2>6. t = Taken(c)' /\ 1 .. t - 1 \subseteq Seen(c)
    BY <1>1, <2>1
  <2>. QED
    BY <2>1, <2>2, <2>3, <2>4, <2>5, <2>6, GotMessageStep
<1>5. CASE /\ closed[c] = "no" /\ messageQueue[c] = <<>> /\ at' = "pulling"
           /\ UNCHANGED <<prev, msg, exit, consumerVars, messageQueue, ackVars>>
  <2>1. /\ QueueInv' /\ HistoryInv' /\ \A d \in Consumer : Taken(d)' = Taken(d) /\ Seen(d)' = Seen(d)
    BY <1>2, <1>5
  <2>2. TypeInv'
    BY <1>5 DEF StreamInv, TypeInv, TypeOK, Place, brokerVars, subVars, consumerVars, ackVars
  <2>3. FreshInv' /\ ReaderIsServed'
    BY <1>5, <2>1 DEF FreshInv, ReaderIsServed, subVars, consumerVars
  <2>4. ReaderInv'
    BY <1>5, <2>1 DEF ReaderInv, Reading, Holding, Elements
  <2>. QED
    BY <2>1, <2>2, <2>3, <2>4 DEF StreamInv
<1>. QED
  BY <1>3, <1>4, <1>5 DEF Pull

\* Neither queues nor histories change.
LEMMA MoveStep ==
    ASSUME StreamInv, UNCHANGED <<delivered, messageQueue, ackVars, yielded>>,
           TypeInv', FreshInv', ReaderInv', ReaderIsServed'
    PROVE  StreamInv'
<1>1. QueueInv' /\ \A d \in Consumer : Taken(d)' = Taken(d) /\ Taken(d) \in Nat
  BY QueueKept, Typed
<1>2. HistoryInv'
  BY <1>1, HistoryKept DEF ackVars
<1>. QED
  BY <1>1, <1>2 DEF StreamInv

\* setClosed of a consumer: the reader is woken if it waits there.
LEMMA SetClosedStep ==
    ASSUME StreamInv, NEW c \in Consumer, NEW how \in {"quietly", "error"}, SetClosed(c, how),
           LinkTyped', reopening' \in BOOLEAN, reopening' => reopening,
           channelOpen' \in [Consumer -> BOOLEAN],
           cancelPromise' \in [Consumer -> {"none", "asked", "settled"}],
           UNCHANGED <<delivered, subVars, from, prev, msg, exit, ackVars, messageQueue, autoAck, yielded>>
    PROVE  StreamInv'
<1> USE DEF subVars, ackVars
<1>1. /\ closed' \in [Consumer -> {"no", "quietly", "error"}] /\ closed'[c] # "no"
      /\ \A d \in Consumer : d # c => closed'[d] = closed[d]
  BY DEF SetClosed, StreamInv, TypeInv, TypeOK
<1>2. /\ at' = at \/ (at = "pulling" /\ from = c /\ at' = "woken")
      /\ at' = "pulling" => from # c \/ closed[c] # "no"
      /\ closed'[from] = "no" => at' = at /\ closed[from] = "no" /\ from # c
  BY <1>1, Typed DEF SetClosed
<1>3. TypeInv'
  <2>1. at' \in Place
    BY <1>2, Typed DEF TypeOK, Place
  <2>. QED
    BY <1>1, <2>1 DEF StreamInv, TypeInv, TypeOK, LinkTyped
<1>4. \A d \in Consumer : Taken(d)' = Taken(d) /\ Seen(d)' = Seen(d)
  BY DEF Taken, Seen, Elements
<1>5. ReaderIsServed'
  BY <1>1, <1>2, Typed DEF ReaderIsServed
<1>6. FreshInv'
  BY <1>2, <1>4, Typed DEF FreshInv
<1>7. Elements(yielded[from])' = Elements(yielded[from])
  BY DEF Elements
<1>8. Holding' => InHand(from, msg)'
  <2>1. Holding' => Holding
    BY <1>2 DEF Holding
  <2>. QED
    BY <1>4, <2>1, Typed DEF ReaderInv, InHand
<1>9. ReaderInv'
  BY <1>2, <1>4, <1>7, <1>8, Typed DEF ReaderInv, Reading
<1>. QED
  BY <1>3, <1>5, <1>6, <1>9, MoveStep

----------------------------------------------------------------------------
(* Steps *)

\* The reader gives up the generator it has in hand, and nothing else changes.
LEMMA LeaveOnly ==
    ASSUME StreamInv, NEW way \in {"again", "return"}, Leave(from, way),
           UNCHANGED <<brokerVars, subVars, from, ackVars, messageQueue, autoAck, yielded>>
    PROVE  StreamInv'
<1>1. /\ acked \in [Consumer -> SUBSET Tag] /\ nacked \in [Consumer -> SUBSET Tag]
      /\ settlements \in [Consumer -> [Tag -> Nat]] /\ messageQueue \in [Consumer -> Seq(Tag)]
  BY Typed DEF TypeOK
<1>2. QueueInv' /\ \A d \in Consumer : Taken(d)' = Taken(d) /\ Taken(d) \in Nat
  BY QueueKept, Typed DEF brokerVars
<1>3. HistoryInv'
  BY <1>2, HistoryKept DEF ackVars
<1>. QED
  BY <1>1, <1>2, <1>3, LeaveStep, Typed DEF ackVars

LEMMA BeginStep == ASSUME StreamInv, Begin PROVE StreamInv'
<1>1. CASE stopped /\ at' = "done" /\ UNCHANGED <<from, prev, msg, exit, consumerVars, ackVars, messageQueue>>
  <2>1. UNCHANGED <<brokerVars, subVars, autoAck, yielded>> /\ at = "begin"
    BY DEF Begin
  <2>2. TypeInv'
    BY <1>1, <2>1 DEF StreamInv, TypeInv, TypeOK, Place, brokerVars, subVars, consumerVars, ackVars
  <2>3. FreshInv' /\ ReaderInv' /\ ReaderIsServed'
    BY <1>1, <2>1, Typed DEF FreshInv, ReaderInv, ReaderIsServed, Reading, Holding, Taken, brokerVars, subVars
  <2>. QED
    BY <1>1, <2>1, <2>2, <2>3, MoveStep DEF brokerVars
<1>2. CASE ~stopped /\ from' = current /\ Pull(current)
  <2>1. Taken(current) = 0 /\ prev = None
    BY <1>2, Typed DEF Begin, FreshInv, ReaderInv
  <2>2. 1 .. Taken(current) \subseteq Seen(current)
    BY <2>1
  <2>3. \A d \in Consumer : d > current => Taken(d) = 0
    BY Typed
  <2>. QED
    BY <1>2, <2>1, <2>2, <2>3, PullStep, Typed DEF Begin
<1>. QED
  BY <1>1, <1>2 DEF Begin

LEMMA WokenStep == ASSUME StreamInv, Woken PROVE StreamInv'
<1>1. UNCHANGED <<brokerVars, subVars, from, messageQueue, autoAck, yielded>> /\ at = "woken"
  BY DEF Woken
<1>2. CASE Leave(from, "again") /\ UNCHANGED ackVars
  BY <1>1, <1>2, LeaveOnly
<1>3. CASE closed[from] = "no" /\ GotMessage(from, msg)
  <2>1. InHand(from, msg) /\ (prev # None => prev \in Elements(yielded[from]))
    BY <1>1, <1>3, Typed DEF ReaderInv, Holding, Reading
  <2>2. QueueInv' /\ \A d \in Consumer : Taken(d)' = Taken(d) /\ Taken(d) \in Nat
    BY <1>1, QueueKept, Typed DEF brokerVars
  <2>3. messageQueue' \in [Consumer -> Seq(Tag)] /\ \A d \in Consumer : d > from => Taken(d)' = 0
    BY <1>1, <2>2, Typed DEF TypeOK
  <2>4. \A d \in Consumer : Taken(d)' \in Nat /\ Taken(d) <= Taken(d)'
    BY <2>2
  <2>5. PICK c \in Consumer : c = from
    BY Typed
  <2>6. /\ msg \in Tag /\ msg = Taken(c) /\ 1 .. msg - 1 \subseteq Seen(c)
        /\ msg \notin Seen(c) \cup acked[c]
    BY <2>1, <2>5 DEF InHand
  <2>7. msg = Taken(c)'
    BY <2>2, <2>6
  <2>8. /\ from' = c /\ c <= current /\ GotMessage(c, msg) /\ \A d \in Consumer : d > c => Taken(d)' = 0
        /\ prev # None => prev \in Elements(yielded[c])
    BY <1>1, <1>3, <2>1, <2>3, <2>5, Typed
  <2>. QED
    BY <1>1, <2>2, <2>3, <2>4, <2>6, <2>7, <2>8, GotMessageStep
<1>. QED
  BY <1>2, <1>3 DEF Woken

LEMMA DecodedStep == ASSUME StreamInv, Decoded PROVE StreamInv'
<1> USE DEF brokerVars, consumerVars, subVars, ackVars
<1>1. /\ at = "decoding" /\ at' = "idle" /\ prev' = msg
      /\ yielded' = [yielded EXCEPT ![from] = Append(@, msg)]
      /\ UNCHANGED <<brokerVars, consumerVars, subVars, from, msg, exit, ackVars, messageQueue, autoAck>>
  BY DEF Decoded
<1>2. InHand(from, msg)
  BY <1>1, Typed DEF ReaderInv, Holding
<1>3. msg \in Tag /\ yielded[from] \in Seq(Tag) /\ from \in Consumer
  BY <1>2, Typed DEF InHand, TypeOK
<1> DEFINE y == yielded[from]
           z == Append(y, msg)
<1>4. /\ yielded'[from] = z /\ \A d \in Consumer : d # from => yielded'[d] = yielded[d]
      /\ yielded' \in [Consumer -> Seq(Tag)]
  BY <1>1, <1>3, Typed DEF TypeOK
<1>5. /\ DOMAIN z = DOMAIN y \cup {Len(y) + 1} /\ z[Len(y) + 1] = msg /\ Len(y) \in Nat
      /\ \A i \in DOMAIN y : z[i] = y[i] /\ i \in 1 .. Len(y)
      /\ z \in Seq(Tag) /\ DOMAIN z \subseteq Nat /\ DOMAIN y \subseteq Nat
  BY <1>3
<1>6. \A i \in DOMAIN y : y[i] \in Tag /\ y[i] \in Elements(y)
  BY <1>3 DEF Elements
<1> HIDE DEF z
<1>7. Elements(z) = Elements(y) \cup {msg}
  BY <1>5 DEF Elements
<1>8. /\ msg = Taken(from) /\ 1 .. msg - 1 \subseteq Elements(y) \cup nacked[from]
      /\ msg \notin Elements(y) \cup nacked[from] \cup acked[from] /\ Taken(from) \in Nat
      /\ Elements(y) \cup nacked[from] \cup acked[from] \subseteq 1 .. Taken(from)
  BY <1>2, Typed DEF InHand, Seen
<1>9. \A i \in DOMAIN y : y[i] < msg
  <2> SUFFICES ASSUME NEW i \in DOMAIN y PROVE y[i] < msg
    OBVIOUS
  <2>1. y[i] \in 1 .. Taken(from) /\ y[i] # msg
    BY <1>6, <1>8
  <2>. QED
    BY <1>8, <2>1
<1>10. QueueInv' /\ \A d \in Consumer : Taken(d)' = Taken(d) /\ Taken(d) \in Nat
  BY <1>1, QueueKept, Typed
<1>11. /\ Seen(from)' = Elements(z) \cup nacked[from]
       /\ \A d \in Consumer : Seen(d)' = Elements(yielded'[d]) \cup nacked[d]
       /\ \A d \in Consumer : d # from => Seen(d)' = Seen(d)
  BY <1>1, <1>4 DEF Seen, Elements
<1>12. SettledInv'
  <2>1. \A d \in Consumer : Seen(d)' \cup acked[d] \subseteq 1 .. Taken(d)
    <3> SUFFICES ASSUME NEW d \in Consumer PROVE Seen(d)' \cup acked[d] \subseteq 1 .. Taken(d)
      OBVIOUS
    <3>1. CASE d = from
      <4>1. msg \in 1 .. Taken(from)
        BY <1>3, <1>8, Typed
      <4>. QED
        BY <1>4, <1>7, <1>8, <1>11, <3>1, <4>1
    <3>2. CASE d # from
      BY <1>11, <3>2, Typed
    <3>. QED
      BY <3>1, <3>2
  <2>. QED
    BY <1>1, <1>10, <2>1, Typed DEF HistoryInv, SettledInv
<1>13. YieldedInOrder'
  <2>1. /\ \A i, j \in DOMAIN y : i < j => y[i] < y[j]
        /\ \A i \in DOMAIN y : 1 .. y[i] \subseteq Elements(y) \cup nacked[from]
    BY <1>3, Typed DEF HistoryInv, YieldedInOrder
  <2>2. ASSUME NEW i \in DOMAIN z, NEW j \in DOMAIN z, i < j PROVE z[i] < z[j]
    <3>1. i \in DOMAIN y
      BY <1>5, <2>2
    <3>2. CASE j \in DOMAIN y
      BY <1>5, <2>1, <2>2, <3>1, <3>2
    <3>3. CASE j = Len(y) + 1
      BY <1>5, <1>9, <3>1, <3>3
    <3>. QED
      BY <1>5, <3>2, <3>3
  <2>3. ASSUME NEW i \in DOMAIN z PROVE 1 .. z[i] \subseteq Elements(z) \cup nacked[from]
    <3>1. CASE i \in DOMAIN y
      BY <1>5, <1>7, <2>1, <3>1
    <3>2. CASE i = Len(y) + 1
      <4>1. 1 .. msg \subseteq (1 .. msg - 1) \cup {msg}
        BY <1>8
      <4>. QED
        BY <1>5, <1>7, <1>8, <3>2, <4>1
    <3>. QED
      BY <1>5, <3>1, <3>2
  <2>4. \A d \in Consumer : d # from =>
           /\ \A i, j \in DOMAIN yielded'[d] : i < j => yielded'[d][i] < yielded'[d][j]
           /\ \A i \in DOMAIN yielded'[d] : 1 .. yielded'[d][i] \subseteq Elements(yielded'[d]) \cup nacked'[d]
    BY <1>1, <1>4, Typed DEF HistoryInv, YieldedInOrder
  <2>. QED
    BY <1>1, <1>4, <2>2, <2>3, <2>4 DEF YieldedInOrder
<1>14. SettledOnce'
  <2>1. /\ acked[from] \ nacked[from] \subseteq Elements(y) /\ nacked[from] \cap Elements(y) = {}
        /\ \A u \in Tag : settlements[from][u] <= 1
    BY <1>3, Typed DEF HistoryInv, SettledOnce
  <2>2. \A d \in Consumer : d # from =>
           /\ acked'[d] \ nacked'[d] \subseteq Elements(yielded'[d])
           /\ nacked'[d] \cap Elements(yielded'[d]) = {}
           /\ \A t \in Tag : settlements'[d][t] <= 1
    BY <1>1, <1>4, Typed DEF HistoryInv, SettledOnce
  <2>3. acked[from] \ nacked[from] \subseteq Elements(z) /\ nacked[from] \cap Elements(z) = {}
    BY <1>7, <1>8, <2>1
  <2>. QED
    BY <1>1, <1>4, <2>1, <2>2, <2>3 DEF SettledOnce
<1>15. TypeInv'
  BY <1>1, <1>3, <1>4 DEF StreamInv, TypeInv, TypeOK, Place
<1>16. FreshInv' /\ ReaderIsServed'
  BY <1>1, <1>10, Typed DEF FreshInv, ReaderIsServed
<1>17. 1 .. Taken(from) \subseteq Seen(from)'
  <2>1. 1 .. msg \subseteq (1 .. msg - 1) \cup {msg}
    BY <1>8
  <2>. QED
    BY <1>7, <1>8, <1>11, <2>1
<1>18. prev' \in Elements(yielded[from])' /\ prev' # None
  <2>1. msg # None
    BY <1>3, Typed
  <2>2. Elements(yielded[from])' = Elements(z)
    BY <1>1, <1>4 DEF Elements
  <2>. QED
    BY <1>1, <1>7, <2>1, <2>2
<1>19. ReaderInv'
  BY <1>1, <1>10, <1>17, <1>18 DEF ReaderInv, Holding, Taken, Seen
<1>. QED
  BY <1>10, <1>12, <1>13, <1>14, <1>15, <1>16, <1>19 DEF StreamInv, HistoryInv

LEMMA DecodeFailsStep == ASSUME StreamInv, DecodeFails PROVE StreamInv'
<1> USE DEF brokerVars, subVars
<1>1. at = "decoding" /\ UNCHANGED <<brokerVars, subVars, from, messageQueue, autoAck, yielded>>
  BY DEF DecodeFails
<1>2. CASE Leave(from, "return") /\ UNCHANGED ackVars
  BY <1>1, <1>2, LeaveOnly
<1>3. CASE /\ Settle(from, msg) /\ nacked' = [nacked EXCEPT ![from] = @ \cup {msg}]
           /\ \/ Leave(from, "again")
              \/ at' = "nacking" /\ UNCHANGED <<prev, msg, exit, consumerVars>>
  <2>1. InHand(from, msg) /\ (prev # None => prev \in Elements(yielded[from]))
    BY <1>1, Typed DEF ReaderInv, Holding, Reading
  <2>2. QueueInv' /\ \A d \in Consumer : Taken(d)' = Taken(d) /\ Taken(d) \in Nat /\ Taken(d) <= Taken(d)'
    BY <1>1, QueueKept, Typed
  <2>9. PICK c \in Consumer : c = from
    BY Typed
  <2>3. /\ msg \in Tag /\ msg \notin acked[c] /\ msg \notin Elements(yielded[c]) /\ msg = Taken(c)
        /\ 1 .. msg - 1 \subseteq Seen(c)
    BY <2>1, <2>9 DEF InHand, Seen
  <2>10. msg <= Taken(c)' /\ Taken(c)' = msg /\ msg \in Nat
    BY <2>2, <2>3
  <2>4. /\ HistoryInv' /\ nacked' \in [Consumer -> SUBSET Tag]
        /\ \A d \in Consumer : Seen(d) \subseteq Seen(d)'
    BY <1>1, <1>3, <2>2, <2>3, <2>9, <2>10, HistorySettled
  <2>5. /\ acked' \in [Consumer -> SUBSET Tag] /\ settlements' \in [Consumer -> [Tag -> Nat]]
        /\ messageQueue' \in [Consumer -> Seq(Tag)]
    BY <1>1, <1>3, <2>3, <2>9, SettleTyped, Typed DEF TypeOK
  <2>6. \A d \in Consumer : d > from' => Taken(d)' = 0
    BY <1>1, <2>2, Typed
  <2>7. CASE Leave(from, "again")
    BY <1>1, <2>2, <2>4, <2>5, <2>6, <2>7, LeaveStep, Typed
  <2>8. CASE at' = "nacking" /\ UNCHANGED <<prev, msg, exit, consumerVars>>
    <3>1. TypeInv'
      BY <1>1, <2>4, <2>5, <2>8 DEF StreamInv, TypeInv, TypeOK, Place, consumerVars
    <3>2. FreshInv' /\ ReaderIsServed'
      BY <1>1, <2>6, <2>8, Typed DEF FreshInv, ReaderIsServed
    <3>3. 1 .. Taken(from)' \subseteq Seen(from)'
      <4>1. msg \in Seen(c)'
        BY <1>1, <1>3, <2>3, <2>9, Typed DEF Seen, TypeOK
      <4>2. 1 .. msg - 1 \subseteq Seen(c)'
        BY <2>3, <2>4
      <4>3. 1 .. msg \subseteq (1 .. msg - 1) \cup {msg}
        BY <2>10
      <4>4. Taken(from)' = Taken(c)' /\ Seen(from)' = Seen(c)'
        BY <1>1, <2>9 DEF Taken, Seen
      <4>. QED
        BY <2>10, <4>1, <4>2, <4>3, <4>4
    <3>4. Elements(yielded[from])' = Elements(yielded[from])
      BY <1>1 DEF Elements
    <3>5. ReaderInv'
      BY <1>1, <2>1, <2>8, <3>3, <3>4 DEF ReaderInv, Holding, Taken, Seen
    <3>. QED
      BY <2>2, <2>4, <3>1, <3>2, <3>5 DEF StreamInv
  <2>. QED
    BY <1>3, <2>7, <2>8
<1>. QED
  BY <1>2, <1>3 DEF DecodeFails

LEMMA UserAcksStep == ASSUME StreamInv, UserAcks PROVE StreamInv'
<1> USE DEF brokerVars, consumerVars, subVars, readerVars
<1>1. /\ at = "idle" /\ prev \notin acked[from] /\ Settle(from, prev)
      /\ UNCHANGED <<brokerVars, consumerVars, subVars, readerVars, nacked, messageQueue, autoAck, yielded>>
  BY DEF UserAcks, Unsettled
<1>2. prev \in Tag /\ prev \in Elements(yielded[from]) /\ 1 .. Taken(from) \subseteq Seen(from)
  BY <1>1, Typed DEF ReaderInv, Reading
<1>3. QueueInv' /\ \A d \in Consumer : Taken(d)' = Taken(d) /\ Taken(d) \in Nat /\ Taken(d) <= Taken(d)'
  BY <1>1, QueueKept, Typed
<1>4. HistoryInv' /\ \A d \in Consumer : Seen(d)' = Seen(d)
  BY <1>1, <1>2, <1>3, HistorySettled, Typed
<1>5. acked' \in [Consumer -> SUBSET Tag] /\ settlements' \in [Consumer -> [Tag -> Nat]]
  BY <1>1, <1>2, SettleTyped, Typed
<1>6. TypeInv'
  BY <1>1, <1>5 DEF StreamInv, TypeInv, TypeOK
<1>7. FreshInv' /\ ReaderIsServed'
  BY <1>1, <1>3, Typed DEF FreshInv, ReaderIsServed
<1>8. Elements(yielded[from])' = Elements(yielded[from]) /\ Seen(from)' = Seen(from) /\ Taken(from)' = Taken(from)
  BY <1>1, <1>3, <1>4, Typed DEF Elements
<1>9. ReaderInv'
  BY <1>1, <1>2, <1>8, Typed DEF ReaderInv, Holding
<1>. QED
  BY <1>3, <1>4, <1>6, <1>7, <1>9 DEF StreamInv

LEMMA DeliverStep == ASSUME StreamInv, NEW c \in Consumer, Deliver(c) PROVE StreamInv'
<1> USE DEF consumerVars, subVars, ackVars
<1>1. /\ closed[c] = "no" /\ delivered[c] < MaxTag /\ delivered' = [delivered EXCEPT ![c] = @ + 1]
      /\ UNCHANGED <<link, silent, reopening, consumerVars, subVars, from, prev, exit, ackVars, autoAck, yielded>>
  BY DEF Deliver
<1>2. delivered[c] \in Nat /\ delivered[c] + 1 \in Tag
  BY <1>1, Counted DEF Tag
<1>3. \A d \in Consumer : Seen(d)' = Seen(d) /\ Elements(yielded[d])' = Elements(yielded[d])
  BY <1>1 DEF Seen, Elements
<1>4. CASE /\ at = "pulling" /\ from = c /\ at' = "woken" /\ msg' = delivered[c] + 1
           /\ UNCHANGED messageQueue
  <2>1. messageQueue[c] = <<>>
    BY <1>4, Typed DEF ReaderIsServed
  <2>2. /\ QueueInv' /\ messageQueue' \in [Consumer -> Seq(Tag)] /\ delivered' \in [Consumer -> 0 .. MaxTag]
        /\ \A d \in Consumer : d # c => Taken(d)' = Taken(d)
        /\ Taken(c) = delivered[c] /\ Taken(c)' = Taken(c) + 1
    BY <1>1, <1>4, <2>1, QueueDelivered
  <2>3. ASSUME NEW d \in Consumer PROVE Taken(d)' \in Nat /\ Taken(d) <= Taken(d)'
    <3>1. Taken(c) \in Nat /\ Taken(d) \in Nat
      BY Typed
    <3>2. CASE d = c
      BY <2>2, <3>1, <3>2
    <3>3. CASE d # c
      BY <2>2, <3>1, <3>3
    <3>. QED
      BY <3>2, <3>3
  <2>4. HistoryInv'
    BY <1>1, <2>3, HistoryKept
  <2>5. TypeInv'
    BY <1>1, <1>2, <1>4, <2>2 DEF StreamInv, TypeInv, TypeOK, Place
  <2>6. FreshInv' /\ ReaderIsServed'
    <3>1. ASSUME NEW d \in Consumer, d > from PROVE Taken(d)' = 0
      <4>1. d # c /\ Taken(d) = 0
        BY <1>4, <3>1, Typed
      <4>. QED
        BY <2>2, <4>1
    <3>. QED
      BY <1>1, <1>4, <3>1, Typed DEF FreshInv, ReaderIsServed
  <2>7. InHand(from, msg)'
    <3>1. 1 .. Taken(c) \subseteq Seen(c) /\ Seen(c) \cup acked[c] \subseteq 1 .. Taken(c) /\ Taken(c) \in Nat
      BY <1>4, Typed DEF ReaderInv
    <3>2. msg' = Taken(c)' /\ msg' \in Tag /\ msg' = Taken(c) + 1
      BY <1>2, <1>4, <2>2
    <3> DEFINE n == Taken(c)
    <3>4. n \in Nat
      BY <3>1
    <3> HIDE DEF n
    <3>5. n + 1 - 1 = n /\ n + 1 \notin 1 .. n
      BY <3>4
    <3>6. 1 .. msg' - 1 \subseteq Seen(c) /\ msg' \notin Seen(c) \cup acked[c]
      BY <3>1, <3>2, <3>5 DEF n
    <3>3. Seen(from)' = Seen(c) /\ Taken(from)' = Taken(c)' /\ acked'[from'] = acked[c]
      BY <1>1, <1>3, <1>4 DEF Seen, Taken
    <3>. QED
      BY <3>2, <3>3, <3>6 DEF InHand
  <2>8. ReaderInv'
    BY <1>1, <1>3, <1>4, <2>7, Typed DEF ReaderInv, Reading
  <2>. QED
    BY <2>2, <2>4, <2>5, <2>6, <2>8 DEF StreamInv
<1>5. CASE /\ ~(at = "pulling" /\ from = c) /\ UNCHANGED <<at, msg>>
           /\ messageQueue' = [messageQueue EXCEPT ![c] = Append(@, delivered[c] + 1)]
  <2>1. ~UNCHANGED messageQueue
    <3>1. messageQueue'[c] = Append(messageQueue[c], delivered[c] + 1) /\ messageQueue[c] \in Seq(Tag)
      BY <1>5, Counted, Typed DEF TypeOK
    <3>2. Len(Append(messageQueue[c], delivered[c] + 1)) = Len(messageQueue[c]) + 1
      BY <1>2, <3>1
    <3>3. Len(messageQueue[c]) \in Nat
      BY Counted
    <3>. QED
      BY <3>1, <3>2, <3>3
  <2>2. /\ QueueInv' /\ messageQueue' \in [Consumer -> Seq(Tag)] /\ delivered' \in [Consumer -> 0 .. MaxTag]
        /\ \A d \in Consumer : Taken(d)' = Taken(d) /\ Taken(d) \in Nat
    BY <1>1, <1>5, <2>1, QueueDelivered, Typed
  <2>3. HistoryInv'
    BY <1>1, <2>2, HistoryKept
  <2>4. TypeInv'
    BY <1>1, <1>5, <2>2 DEF StreamInv, TypeInv, TypeOK
  <2>5. FreshInv'
    BY <1>1, <1>5, <2>2, Typed DEF FreshInv
  <2>6. ReaderIsServed'
    BY <1>1, <1>5, Typed DEF ReaderIsServed, TypeOK
  <2>7. /\ Seen(from)' = Seen(from) /\ Taken(from)' = Taken(from)
        /\ Elements(yielded[from])' = Elements(yielded[from])
    BY <1>1, <1>3, <2>2, Typed
  <2>8. ReaderInv'
    BY <1>1, <1>5, <2>7, Typed DEF ReaderInv, Reading, Holding, InHand
  <2>. QED
    BY <2>2, <2>3, <2>4, <2>5, <2>6, <2>8 DEF StreamInv
<1>. QED
  BY <1>4, <1>5 DEF Deliver, OnMessage

LEMMA ClosingStep ==
    ASSUME StreamInv, (\E c \in Consumer : CancelOk(c) \/ ServerCancels(c) \/ ServerClosesChannel(c))
                      \/ ConnectionLost
    PROVE  StreamInv'
<1> USE DEF brokerVars
<1>1. /\ channelOpen \in [Consumer -> BOOLEAN]
      /\ cancelPromise \in [Consumer -> {"none", "asked", "settled"}]
      /\ LinkTyped /\ reopening \in BOOLEAN
  BY Typed DEF TypeOK, LinkTyped
<1>2. ASSUME NEW c \in Consumer, CancelOk(c) PROVE StreamInv'
  BY <1>1, <1>2, SetClosedStep DEF CancelOk, LinkTyped
<1>3. ASSUME NEW c \in Consumer, ServerCancels(c) PROVE StreamInv'
  BY <1>1, <1>3, SetClosedStep DEF ServerCancels, LinkTyped
<1>4. ASSUME NEW c \in Consumer, ServerClosesChannel(c) PROVE StreamInv'
  BY <1>1, <1>4, SetClosedStep DEF ServerClosesChannel, ChannelGone, LinkTyped
<1>5. ASSUME ConnectionLost PROVE StreamInv'
  <2>1. CASE ChannelGone(current)
    BY <1>1, <1>5, <2>1, SetClosedStep, Typed DEF ConnectionLost, ChannelGone, LinkTyped
  <2>2. CASE UNCHANGED <<consumerVars, at>>
    <3> USE <1>5, <2>2 DEF ConnectionLost, consumerVars, subVars, ackVars
    <3>1. TypeInv'
      BY DEF StreamInv, TypeInv, TypeOK
    <3>2. FreshInv' /\ ReaderInv' /\ ReaderIsServed'
      BY Typed DEF FreshInv, ReaderInv, ReaderIsServed, Holding, InHand, Taken, Seen, Elements
    <3>. QED
      BY <3>1, <3>2, MoveStep
  <2>. QED
    BY <1>5, <2>1, <2>2 DEF ConnectionLost
<1>. QED
  BY <1>2, <1>3, <1>4, <1>5

\* A later consumer is the current one; a reader that waits for it begins.
LEMMA SetConsumerStep ==
    ASSUME StreamInv, reopening, reopening' = FALSE, SetConsumer, LinkTyped',
           channelOpen' \in [Consumer -> BOOLEAN],
           UNCHANGED <<delivered, closed, cancelPromise, stopped, cancelling, from, prev, msg, exit,
                       ackVars, messageQueue, autoAck, yielded>>
    PROVE  StreamInv'
<1> USE DEF ackVars
<1>1. current + 1 \in Consumer /\ current' = current + 1 /\ current \in Nat /\ from \in Nat
  BY Typed DEF StreamInv, TypeInv, SetConsumer
<1>2. at' = at \/ (at = "waiting" /\ at' = "begin")
  BY DEF SetConsumer, ConsumerReady
<1>3. TypeInv'
  <2>1. at' \in Place
    BY <1>2, Typed DEF TypeOK, Place
  <2>. QED
    BY <1>1, <2>1 DEF StreamInv, TypeInv, TypeOK, LinkTyped
<1>4. \A d \in Consumer : Taken(d)' = Taken(d) /\ Seen(d)' = Seen(d)
  BY DEF Taken, Seen, Elements
<1>5. FreshInv'
  <2>1. from' <= current' /\ \A d \in Consumer : d > from' => Taken(d)' = 0
    BY <1>1, <1>4, Typed
  <2>2. Taken(current + 1) = 0
    BY <1>1, Typed
  <2>3. Taken(current)' = 0
    BY <1>1, <2>2 DEF Taken
  <2>. QED
    BY <2>1, <2>3 DEF FreshInv
<1>6. ReaderInv' /\ ReaderIsServed'
  BY <1>2, <1>4, Typed DEF ReaderInv, ReaderIsServed, Reading, Holding, InHand, Taken, Seen, Elements
<1>. QED
  BY <1>3, <1>5, <1>6, MoveStep

LEMMA StepStream == StreamInv /\ [Next]_vars => StreamInv'
<1> SUFFICES ASSUME StreamInv, [Next]_vars PROVE StreamInv'
  OBVIOUS
<1> USE DEF brokerVars, consumerVars, subVars, readerVars, ackVars
<1>1. CASE Begin \/ Woken \/ Decoded \/ DecodeFails \/ UserAcks
  BY <1>1, BeginStep, WokenStep, DecodedStep, DecodeFailsStep, UserAcksStep
<1>2. CASE Left
  <2>1. TypeInv'
    BY <1>2 DEF Left, StreamInv, TypeInv, TypeOK, Place
  <2>2. FreshInv' /\ ReaderInv' /\ ReaderIsServed'
    BY <1>2, Typed DEF Left, FreshInv, ReaderInv, ReaderIsServed, Reading, Holding, Taken
  <2>. QED
    BY <1>2, <2>1, <2>2, MoveStep DEF Left
<1>3. CASE AckWritten
  <2>1. CASE Leave(from, "again")
    BY <1>3, <2>1, LeaveOnly DEF AckWritten
  <2>2. CASE at' = "decoding" /\ UNCHANGED <<prev, msg, exit, consumerVars>>
    <3>1. TypeInv'
      BY <1>3, <2>2 DEF AckWritten, StreamInv, TypeInv, TypeOK, Place
    <3>2. FreshInv' /\ ReaderInv' /\ ReaderIsServed'
      BY <1>3, <2>2, Typed DEF AckWritten, FreshInv, ReaderInv, ReaderIsServed, Reading, Holding, InHand,
                               Taken, Seen, Elements
    <3>. QED
      BY <1>3, <2>2, <3>1, <3>2, MoveStep DEF AckWritten
  <2>. QED
    BY <1>3, <2>1, <2>2 DEF AckWritten
<1>4. CASE NackWritten \/ NextCalled
  <2>1. CASE Leave(from, "again") /\ UNCHANGED <<ackVars, messageQueue>>
    BY <1>4, <2>1, LeaveOnly DEF NackWritten, NextCalled
  <2>2. CASE Pull(from)
    <3>1. /\ at \in {"nacking", "idle"}
          /\ UNCHANGED <<brokerVars, subVars, from, autoAck, yielded>>
      BY <1>4 DEF NackWritten, NextCalled
    <3>2. 1 .. Taken(from) \subseteq Seen(from) /\ (prev # None => prev \in Elements(yielded[from]))
      BY <3>1, Typed DEF ReaderInv, Reading
    <3>. QED
      BY <2>2, <3>1, <3>2, PullStep, Typed
  <2>. QED
    BY <1>4, <2>1, <2>2 DEF NackWritten, NextCalled
<1>5. CASE Break
  BY <1>5, LeaveOnly DEF Break
<1>6. CASE Iterate
  <2>1. TypeInv'
    BY <1>6 DEF Iterate, StreamInv, TypeInv, TypeOK, Place
  <2>2. FreshInv' /\ ReaderInv' /\ ReaderIsServed'
    BY <1>6, Typed DEF Iterate, FreshInv, ReaderInv, ReaderIsServed, Reading, Holding, Taken
  <2>. QED
    BY <1>6, <2>1, <2>2, MoveStep DEF Iterate
<1>7. CASE CancelCalled
  <2>1. /\ at' = at \/ (at = "waiting" /\ at' = "begin")
        /\ at' # "waiting" /\ stopped'
    BY <1>7 DEF CancelCalled, ConsumerReady
  <2>2. TypeInv'
    <3>1. cancelPromise' \in [Consumer -> {"none", "asked", "settled"}]
      BY <1>7 DEF CancelCalled, Ask, StreamInv, TypeInv, TypeOK
    <3>2. at' \in Place
      BY <2>1, Typed DEF TypeOK, Place
    <3>. QED
      BY <1>7, <3>1, <3>2 DEF CancelCalled, StreamInv, TypeInv, TypeOK
  <2>3. FreshInv' /\ ReaderInv' /\ ReaderIsServed'
    BY <1>7, <2>1, Typed DEF CancelCalled, FreshInv, ReaderInv, ReaderIsServed, Reading, Holding, InHand,
                             Taken, Seen, Elements
  <2>. QED
    BY <1>7, <2>2, <2>3, MoveStep DEF CancelCalled
<1>8. CASE CancelReturned
  <2>1. TypeInv'
    BY <1>8 DEF CancelReturned, StreamInv, TypeInv, TypeOK
  <2>2. FreshInv' /\ ReaderInv' /\ ReaderIsServed'
    BY <1>8, Typed DEF CancelReturned, FreshInv, ReaderInv, ReaderIsServed, Holding, InHand,
                       Taken, Seen, Elements
  <2>. QED
    BY <1>8, <2>1, <2>2, MoveStep DEF CancelReturned
<1>9. ASSUME NEW c \in Consumer, Deliver(c) PROVE StreamInv'
  BY <1>9, DeliverStep
<1>10. CASE (\E c \in Consumer : CancelOk(c) \/ ServerCancels(c) \/ ServerClosesChannel(c)) \/ ConnectionLost
  BY <1>10, ClosingStep
<1>11. CASE Recovered
  BY <1>11, SetConsumerStep, Typed DEF Recovered, TypeOK, LinkTyped
<1>12. CASE RecoveredTooLate
  BY <1>12, SetConsumerStep, Typed DEF RecoveredTooLate, TypeOK, LinkTyped
<1>13. CASE Reconnected \/ RecoveryFails \/ SocketBreaks \/ LostSilently \/ UNCHANGED vars
  <2>1. /\ UNCHANGED <<delivered, consumerVars, subVars, readerVars, ackVars, messageQueue, autoAck, yielded>>
        /\ LinkTyped' /\ reopening' \in BOOLEAN /\ (reopening' => current < MaxConsumer)
    <3>1. LinkTyped /\ reopening \in BOOLEAN /\ (reopening => current < MaxConsumer)
      BY Typed DEF StreamInv, TypeInv, TypeOK, LinkTyped
    <3>2. CASE Reconnected
      BY <3>1, <3>2, Typed DEF Reconnected, TypeOK, LinkTyped
    <3>3. CASE RecoveryFails
      BY <3>1, <3>3 DEF RecoveryFails, LinkTyped
    <3>4. CASE UNCHANGED vars
      BY <3>1, <3>4 DEF vars, LinkTyped
    <3>5. CASE SocketBreaks
      BY <3>1, <3>5 DEF SocketBreaks, LinkTyped
    <3>6. CASE LostSilently
      BY <3>1, <3>6 DEF LostSilently, LinkTyped
    <3>. QED
      BY <1>13, <3>2, <3>3, <3>4, <3>5, <3>6
  <2>2. TypeInv'
    BY <2>1 DEF StreamInv, TypeInv, TypeOK, LinkTyped
  <2>3. FreshInv' /\ ReaderInv' /\ ReaderIsServed'
    BY <2>1, Typed DEF FreshInv, ReaderInv, ReaderIsServed, Holding, InHand, Taken, Seen, Elements
  <2>. QED
    BY <2>1, <2>2, <2>3, MoveStep
<1>14. ASSUME NEW c \in Consumer, CancelFails(c) PROVE StreamInv'
  <2>1. TypeInv'
    BY <1>14 DEF CancelFails, StreamInv, TypeInv, TypeOK
  <2>2. FreshInv' /\ ReaderInv' /\ ReaderIsServed'
    BY <1>14, Typed DEF CancelFails, FreshInv, ReaderInv, ReaderIsServed, Holding, InHand,
                        Taken, Seen, Elements
  <2>. QED
    BY <1>14, <2>1, <2>2, MoveStep DEF CancelFails
<1>. QED
  BY <1>1, <1>2, <1>3, <1>4, <1>5, <1>6, <1>7, <1>8, <1>9, <1>10, <1>11, <1>12, <1>13, <1>14
     DEF Next, Reader, Application, Answers, Broker, WriteFails, Connection, Recovery

----------------------------------------------------------------------------
(* Theorems *)

\* Tags stay those of deliveries, and the subscription's consumer is one that was made.
THEOREM TypeCorrect == Spec => []TypeOK
<1>1. StreamInv => TypeOK
  BY DEF StreamInv, TypeInv
<1>. QED
  BY <1>1, InitStream, StepStream, PTL DEF Spec

\* A generator that awaits messageResolver has no message queued and was not closed, and
\* nobody awaits consumerReady once the subscription is cancelled.
THEOREM ReaderIsServedHolds == Spec => []ReaderIsServed
<1>1. StreamInv => ReaderIsServed
  BY DEF StreamInv
<1>. QED
  BY <1>1, InitStream, StepStream, PTL DEF Spec

\* The iterator yields the messages of each consumer in the order of their delivery, each
\* once, and leaves out none but those it nacked, over any number of recoveries.
THEOREM YieldedInOrderHolds == Spec => []YieldedInOrder
<1>1. StreamInv => YieldedInOrder
  BY DEF StreamInv, HistoryInv
<1>. QED
  BY <1>1, InitStream, StepStream, PTL DEF Spec

\* The iterator and the application between them settle no delivery twice, acknowledge
\* none the application was not given, and nack none that it was.
THEOREM SettledOnceHolds == Spec => []SettledOnce
<1>1. StreamInv => SettledOnce
  BY DEF StreamInv, HistoryInv
<1>. QED
  BY <1>1, InitStream, StepStream, PTL DEF Spec
=============================================================================
