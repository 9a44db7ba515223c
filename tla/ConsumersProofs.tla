--------------------------- MODULE ConsumersProofs ---------------------------
(***************************************************************************)
(* Proofs about Consumers for any consumers, messages and waiters and any  *)
(* size of message: a message on the wire is whole, deliveries are handed  *)
(* over in order up to the end of the consumer, and that end is told.      *)
(***************************************************************************)
EXTENDS Consumers, TLAPS

LOCAL INSTANCE SequencesExt

USE ConsumersAssumption

----------------------------------------------------------------------------
(* Messages on the wire *)

Methods == {"Deliver", "GetOk", "Return"}

\* A message is being assembled.
Begun == partial.delivery # None \/ partial.getMessage # None \/ partial.returned # None

\* It is of one kind.
PartialInv ==
    /\ partial.delivery # None <=> partial.consumer # None
    /\ partial.delivery # None => partial.getMessage = None /\ partial.returned = None
    /\ partial.getMessage # None => partial.returned = None

\* The frames of s that follow those read so far make whole messages: a method has its
\* header behind it, a header its bodies, and none of these is elsewhere.
Whole(s, left, begun) ==
    /\ \A i \in 1 .. Len(s) : s[i].frame \in Methods => i < Len(s) /\ s[i + 1].frame = "Header"
    /\ \A i \in 1 .. Len(s) : s[i].frame = "Header" =>
          /\ i + s[i].bodies <= Len(s)
          /\ \A j \in 1 .. s[i].bodies : s[i + j].frame = "Body"
          /\ IF i = 1 THEN begun /\ left = 0 ELSE s[i - 1].frame \in Methods
    /\ \A i \in 1 .. Len(s) : s[i].frame = "Body" =>
          i <= left \/ \E p \in 1 .. i - 1 : s[p].frame = "Header" /\ i <= p + s[p].bodies
    /\ left > 0 => begun /\ left <= Len(s) /\ \A j \in 1 .. left : s[j].frame = "Body"
    /\ begun /\ left = 0 => Len(s) > 0 /\ s[1].frame = "Header"

\* The channel takes frames: it is in the table of a connection with a socket.
Wired == attached /\ sock

GrammarInv == Wired => Whole(toClient, missing, Begun)

LEMMA FrameFacts ==
    ASSUME NEW f \in Frame
    PROVE  /\ f.frame \in {"ConsumeOk", "CancelOk", "Cancel", "Deliver", "GetOk", "Return", "Header",
                           "Body", "GetEmpty", "Close", "CloseOk"}
           /\ f.frame \in {"ConsumeOk", "CancelOk", "Cancel", "Deliver"} => f.consumer \in Consumer
           /\ f.frame \in Methods => f.message \in Message
           /\ f.frame = "Header" => f.bodies \in 0 .. MaxBodies
BY DEF Frame, Methods

LEMMA JobFacts ==
    ASSUME NEW j \in Job
    PROVE  /\ j.do \in {"register", "cancelled", "deliver"} /\ j.consumer \in Consumer
           /\ j.do = "deliver" => j.message \in Message
BY DEF Job

LEMMA FramesMade ==
    /\ \A c \in Consumer : /\ [frame |-> "ConsumeOk", consumer |-> c] \in Frame
                           /\ [frame |-> "CancelOk", consumer |-> c] \in Frame
                           /\ [frame |-> "Cancel", consumer |-> c] \in Frame
    /\ \A c \in Consumer, m \in Message : [frame |-> "Deliver", consumer |-> c, message |-> m] \in Frame
    /\ \A m \in Message : /\ [frame |-> "GetOk", message |-> m] \in Frame
                          /\ [frame |-> "Return", message |-> m] \in Frame
    /\ \A k \in 0 .. MaxBodies : [frame |-> "Header", bodies |-> k] \in Frame
    /\ [frame |-> "Body"] \in Frame /\ [frame |-> "GetEmpty"] \in Frame
    /\ [frame |-> "Close"] \in Frame /\ [frame |-> "CloseOk"] \in Frame
BY DEF Frame

LEMMA Concatenation ==
    ASSUME NEW S, NEW a \in Seq(S), NEW b \in Seq(S)
    PROVE  /\ a \o b \in Seq(S) /\ Len(a \o b) = Len(a) + Len(b)
           /\ \A i \in 1 .. Len(a) : (a \o b)[i] = a[i]
           /\ \A i \in 1 .. Len(b) : (a \o b)[Len(a) + i] = b[i]
OBVIOUS

\* A message on the wire: the method, the header, the bodies.
LEMMA ContentFacts ==
    ASSUME NEW f \in Frame, NEW k \in 0 .. MaxBodies
    PROVE  /\ Content(f, k) \in Seq(Frame) /\ Len(Content(f, k)) = k + 2
           /\ Content(f, k)[1] = f
           /\ Content(f, k)[2].frame = "Header" /\ Content(f, k)[2].bodies = k
           /\ \A j \in 1 .. k : Content(f, k)[j + 2].frame = "Body"
<1> DEFINE s == Content(f, k)
           a == <<f, [frame |-> "Header", bodies |-> k]>>
           b == [i \in 1 .. k |-> [frame |-> "Body"]]
<1>1. a \in Seq(Frame) /\ Len(a) = 2 /\ a[1] = f /\ a[2].frame = "Header" /\ a[2].bodies = k
  BY FramesMade
<1>2. k \in Nat
  OBVIOUS
<1>3. b \in Seq(Frame) /\ Len(b) = k /\ \A i \in 1 .. k : b[i].frame = "Body"
  BY <1>2, FramesMade
<1>4. s = a \o b
  BY DEF Content
<1> HIDE DEF s, a, b
<1>5. a \in Seq(Frame) /\ b \in Seq(Frame)
  BY <1>1, <1>3
<1>6. s \in Seq(Frame) /\ Len(s) = Len(a) + Len(b) /\ \A i \in 1 .. Len(a) : s[i] = a[i]
  BY <1>4, <1>5, Concatenation
<1>7. \A i \in 1 .. Len(b) : s[Len(a) + i] = b[i]
  BY <1>4, <1>5, Concatenation
<1>8. Len(s) = k + 2 /\ s[1] = f /\ s[2].frame = "Header" /\ s[2].bodies = k
  BY <1>1, <1>2, <1>3, <1>5, <1>6
<1>9. ASSUME NEW j \in 1 .. k PROVE s[j + 2].frame = "Body"
  <2>1. s[2 + j] = b[j]
    BY <1>1, <1>3, <1>7
  <2>2. 2 + j = j + 2
    BY <1>2
  <2> QED
    BY <2>1, <2>2, <1>3
<1> QED
  BY <1>6, <1>8, <1>9 DEF s

\* Adding whole messages to whole messages.
LEMMA WholePut ==
    ASSUME NEW s \in Seq(Frame), NEW f \in Seq(Frame), NEW left \in Nat, NEW begun \in BOOLEAN,
           Whole(s, left, begun), Whole(f, 0, FALSE), NEW t, t = s \o f
    PROVE  Whole(t, left, begun)
<1>1. /\ t \in Seq(Frame) /\ Len(t) = Len(s) + Len(f) /\ Len(s) \in Nat /\ Len(f) \in Nat
      /\ \A i \in 1 .. Len(s) : t[i] = s[i]
      /\ \A i \in 1 .. Len(f) : t[Len(s) + i] = f[i]
  OBVIOUS
<1>2. \A i \in 1 .. Len(t) : i \in 1 .. Len(s) \/ \E q \in 1 .. Len(f) : i = Len(s) + q
  <2> SUFFICES ASSUME NEW i \in 1 .. Len(t), i \notin 1 .. Len(s)
               PROVE  i - Len(s) \in 1 .. Len(f) /\ i = Len(s) + (i - Len(s))
    OBVIOUS
  <2> QED
    BY <1>1
<1>3. \A i \in 1 .. Len(f) : f[i].frame = "Header" => f[i].bodies \in Nat
  BY FrameFacts
<1>4. \A i \in 1 .. Len(s) : s[i].frame = "Header" => s[i].bodies \in Nat
  BY FrameFacts
<1>5. Len(s) \in Nat /\ Len(f) \in Nat
  BY <1>1
<1>6. ASSUME NEW i \in 1 .. Len(t), t[i].frame \in Methods
      PROVE  i < Len(t) /\ t[i + 1].frame = "Header"
  <2>1. CASE i \in 1 .. Len(s)
    <3>1. i < Len(s) /\ s[i + 1].frame = "Header"
      BY <1>1, <1>6, <2>1 DEF Whole
    <3> QED
      BY <3>1, <1>1
  <2>2. CASE \E q \in 1 .. Len(f) : i = Len(s) + q
    <3>1. PICK q \in 1 .. Len(f) : i = Len(s) + q
      BY <2>2
    <3>2. q < Len(f) /\ f[q + 1].frame = "Header"
      BY <1>1, <1>6, <3>1 DEF Whole
    <3>3. t[Len(s) + (q + 1)].frame = "Header"
      BY <3>2, <1>1
    <3> QED
      BY <3>1, <3>2, <3>3, <1>1
  <2> QED
    BY <1>2, <2>1, <2>2
<1>7. ASSUME NEW i \in 1 .. Len(t), t[i].frame = "Header"
      PROVE  /\ i + t[i].bodies <= Len(t)
             /\ \A j \in 1 .. t[i].bodies : t[i + j].frame = "Body"
             /\ IF i = 1 THEN begun /\ left = 0 ELSE t[i - 1].frame \in Methods
  <2>1. CASE i \in 1 .. Len(s)
    <3>1. /\ s[i] = t[i] /\ i + s[i].bodies <= Len(s) /\ s[i].bodies \in Nat
          /\ \A j \in 1 .. s[i].bodies : s[i + j].frame = "Body"
          /\ IF i = 1 THEN begun /\ left = 0 ELSE s[i - 1].frame \in Methods
      BY <1>1, <1>4, <1>7, <2>1 DEF Whole
    <3>2. \A j \in 1 .. s[i].bodies : i + j \in 1 .. Len(s)
      BY <3>1, <1>5
    <3>3. i # 1 => i - 1 \in 1 .. Len(s)
      BY <2>1, <1>5
    <3> QED
      BY <3>1, <3>2, <3>3, <1>1, SMTT(30)
  <2>2. CASE \E q \in 1 .. Len(f) : i = Len(s) + q
    <3>1. PICK q \in 1 .. Len(f) : i = Len(s) + q
      BY <2>2
    <3>2. /\ f[q] = t[i] /\ q + f[q].bodies <= Len(f) /\ f[q].bodies \in Nat
          /\ \A j \in 1 .. f[q].bodies : f[q + j].frame = "Body"
          /\ q # 1 /\ f[q - 1].frame \in Methods
      BY <1>1, <1>3, <1>7, <3>1 DEF Whole
    <3>3. \A j \in 1 .. f[q].bodies : q + j \in 1 .. Len(f) /\ i + j = Len(s) + (q + j)
      BY <3>1, <3>2, <1>5
    <3>4. q - 1 \in 1 .. Len(f) /\ i - 1 = Len(s) + (q - 1) /\ i # 1
      BY <3>1, <3>2, <1>5
    <3>5. i + t[i].bodies <= Len(t)
      BY <3>1, <3>2, <1>1
    <3>6. \A j \in 1 .. f[q].bodies : t[i + j] = f[q + j]
      BY <3>3, <1>1
    <3>7. t[i - 1] = f[q - 1]
      BY <3>4, <1>1
    <3> QED
      BY <3>2, <3>4, <3>5, <3>6, <3>7
  <2> QED
    BY <1>2, <2>1, <2>2
<1>8. ASSUME NEW i \in 1 .. Len(t), t[i].frame = "Body"
      PROVE  i <= left \/ \E p \in 1 .. i - 1 : t[p].frame = "Header" /\ i <= p + t[p].bodies
  <2>1. CASE i \in 1 .. Len(s)
    <3>1. \A p \in 1 .. i - 1 : t[p] = s[p]
      BY <1>1, <1>5, <2>1
    <3>2. s[i].frame = "Body"
      BY <1>1, <1>8, <2>1
    <3>3. i <= left \/ \E p \in 1 .. i - 1 : s[p].frame = "Header" /\ i <= p + s[p].bodies
      BY <2>1, <3>2 DEF Whole
    <3> QED
      BY <3>1, <3>3
  <2>2. CASE \E q \in 1 .. Len(f) : i = Len(s) + q
    <3>1. PICK q \in 1 .. Len(f) : i = Len(s) + q
      BY <2>2
    <3>2. f[q].frame = "Body"
      BY <1>1, <1>8, <3>1
    <3> q \in Nat /\ ~(q <= 0)
      BY <1>5
    <3>3. PICK p \in 1 .. q - 1 : f[p].frame = "Header" /\ q <= p + f[p].bodies
      BY <3>2 DEF Whole
    <3>4. p \in 1 .. Len(f) /\ f[p].bodies \in Nat
      BY <3>3, <1>3, <1>5
    <3>5. t[Len(s) + p] = f[p]
      BY <3>4, <1>1
    <3>6. Len(s) + p \in 1 .. i - 1 /\ i <= (Len(s) + p) + f[p].bodies
      BY <3>1, <3>3, <3>4, <1>5, SMTT(30)
    <3> QED
      BY <3>3, <3>5, <3>6
  <2> QED
    BY <1>2, <2>1, <2>2
<1>9. left > 0 => begun /\ left <= Len(t) /\ \A j \in 1 .. left : t[j].frame = "Body"
  BY <1>1 DEF Whole
<1>10. begun /\ left = 0 => Len(t) > 0 /\ t[1].frame = "Header"
  BY <1>1 DEF Whole
<1> QED
  BY <1>6, <1>7, <1>8, <1>9, <1>10 DEF Whole

\* What the first frame says about the message being assembled.
LEMMA WholeHead ==
    ASSUME NEW s \in Seq(Frame), s # <<>>, NEW left \in Nat, NEW begun \in BOOLEAN, Whole(s, left, begun)
    PROVE  /\ s[1].frame \notin {"Header", "Body"} => left = 0 /\ ~begun
           /\ s[1].frame = "Header" => left = 0 /\ begun
           /\ s[1].frame = "Body" => left > 0 /\ begun
<1>1. 1 \in 1 .. Len(s)
  OBVIOUS
<1>2. left > 0 => begun /\ s[1].frame = "Body"
  BY DEF Whole
<1>3. begun /\ left = 0 => s[1].frame = "Header"
  BY DEF Whole
<1>4. s[1].frame = "Header" => left = 0 /\ begun
  BY <1>1 DEF Whole
<1>5. s[1].frame = "Body" => left > 0
  BY <1>1 DEF Whole
<1> QED
  BY <1>2, <1>3, <1>4, <1>5

\* Reading a frame of whole messages.
LEMMA WholeTail ==
    ASSUME NEW s \in Seq(Frame), s # <<>>, NEW left \in Nat, NEW begun \in BOOLEAN, Whole(s, left, begun),
           NEW l \in Nat, NEW b \in BOOLEAN,
           s[1].frame \in Methods => l = 0 /\ b,
           s[1].frame = "Header" => l = s[1].bodies /\ (b <=> l # 0),
           s[1].frame = "Body" => l = left - 1 /\ (b <=> l # 0),
           s[1].frame \notin Methods \cup {"Header", "Body"} => l = 0 /\ ~b
    PROVE  Whole(Tail(s), l, b)
<1> DEFINE t == Tail(s)
<1>1. /\ t \in Seq(Frame) /\ Len(t) = Len(s) - 1 /\ Len(s) \in Nat /\ Len(s) > 0
      /\ \A i \in 1 .. Len(t) : i + 1 \in 1 .. Len(s) /\ t[i] = s[i + 1]
  OBVIOUS
<1> HIDE DEF t
<1>2. Len(s) \in Nat /\ Len(s) > 0 /\ Len(t) = Len(s) - 1
  BY <1>1
<1>3. \A i \in 1 .. Len(s) : s[i].frame = "Header" => s[i].bodies \in Nat
  BY FrameFacts
<1>4. ASSUME NEW i \in 1 .. Len(t), t[i].frame \in Methods
      PROVE  i < Len(t) /\ t[i + 1].frame = "Header"
  <2>1. i + 1 < Len(s) /\ s[(i + 1) + 1].frame = "Header"
    BY <1>1, <1>4 DEF Whole
  <2>2. i + 1 \in 1 .. Len(t)
    BY <1>2, <2>1
  <2> QED
    BY <1>1, <2>1, <2>2
<1>5. ASSUME NEW i \in 1 .. Len(t), t[i].frame = "Header"
      PROVE  /\ i + t[i].bodies <= Len(t)
             /\ \A j \in 1 .. t[i].bodies : t[i + j].frame = "Body"
             /\ IF i = 1 THEN b /\ l = 0 ELSE t[i - 1].frame \in Methods
  <2>1. i + 1 \in 1 .. Len(s) /\ s[i + 1] = t[i] /\ i + 1 # 1 /\ (i + 1) - 1 = i
    BY <1>1
  <2>2. /\ (i + 1) + t[i].bodies <= Len(s) /\ t[i].bodies \in Nat
        /\ \A j \in 1 .. t[i].bodies : s[(i + 1) + j].frame = "Body"
        /\ s[i].frame \in Methods
    BY <2>1, <1>3, <1>5 DEF Whole
  <2>3. i + t[i].bodies <= Len(t) /\ \A j \in 1 .. t[i].bodies : i + j \in 1 .. Len(t) /\ (i + j) + 1 = (i + 1) + j
    BY <2>2, <1>2
  <2>4. \A j \in 1 .. t[i].bodies : t[i + j].frame = "Body"
    BY <2>2, <2>3, <1>1
  <2>5. CASE i = 1
    BY <2>2, <2>3, <2>4, <2>5
  <2>6. CASE i # 1
    <3>1. i - 1 \in 1 .. Len(t) /\ (i - 1) + 1 = i
      BY <2>6, <1>2
    <3>2. t[i - 1] = s[i]
      BY <3>1, <1>1
    <3> QED
      BY <2>2, <2>3, <2>4, <2>6, <3>2
  <2> QED
    BY <2>5, <2>6
<1>6. ASSUME NEW i \in 1 .. Len(t), t[i].frame = "Body"
      PROVE  i <= l \/ \E p \in 1 .. i - 1 : t[p].frame = "Header" /\ i <= p + t[p].bodies
  <2>1. i + 1 \in 1 .. Len(s) /\ s[i + 1].frame = "Body" /\ (i + 1) - 1 = i
    BY <1>1, <1>6
  <2>2. CASE i + 1 <= left
    <3>1. s[1].frame = "Body"
      BY <2>2, <1>2 DEF Whole
    <3> QED
      BY <2>2, <3>1, <1>2
  <2>3. CASE \E p \in 1 .. i : s[p].frame = "Header" /\ i + 1 <= p + s[p].bodies
    <3>1. PICK p \in 1 .. i : s[p].frame = "Header" /\ i + 1 <= p + s[p].bodies
      BY <2>3
    <3>2. CASE p = 1
      <4>1. s[1].bodies \in Nat
        BY <3>1, <3>2, <1>2, <1>3
      <4> QED
        BY <3>1, <3>2, <4>1, <1>2
    <3>3. CASE p # 1
      <4>1. p - 1 \in 1 .. i - 1 /\ p - 1 \in 1 .. Len(t) /\ (p - 1) + 1 = p /\ p \in 1 .. Len(s)
        BY <3>3, <1>2
      <4>2. t[p - 1] = s[p] /\ s[p].bodies \in Nat
        BY <4>1, <3>1, <1>1, <1>3
      <4>3. i <= (p - 1) + s[p].bodies
        BY <3>1, <4>1, <4>2, <1>2
      <4> QED
        BY <3>1, <4>1, <4>2, <4>3
    <3> QED
      BY <3>2, <3>3
  <2> QED
    BY <2>1, <2>2, <2>3 DEF Whole
<1>7. l > 0 => b /\ l <= Len(t) /\ \A j \in 1 .. l : t[j].frame = "Body"
  <2> SUFFICES ASSUME l > 0 PROVE b /\ l <= Len(t) /\ \A j \in 1 .. l : t[j].frame = "Body"
    OBVIOUS
  <2>1. CASE s[1].frame = "Header"
    <3>1. 1 + l <= Len(s) /\ \A j \in 1 .. l : s[1 + j].frame = "Body"
      BY <2>1, <1>2 DEF Whole
    <3>2. b /\ l <= Len(t) /\ \A j \in 1 .. l : j \in 1 .. Len(t) /\ 1 + j = j + 1
      BY <3>1, <2>1, <1>2
    <3> QED
      BY <3>1, <3>2, <1>1, SMTT(30)
  <2>2. CASE s[1].frame = "Body"
    <3>1. left > 0 /\ left <= Len(s) /\ \A j \in 1 .. left : s[j].frame = "Body"
      BY <2>2, WholeHead DEF Whole
    <3>2. b /\ l <= Len(t) /\ \A j \in 1 .. l : j \in 1 .. Len(t) /\ j + 1 \in 1 .. left
      BY <3>1, <2>2, <1>2
    <3> QED
      BY <3>1, <3>2, <1>1
  <2> QED
    BY <2>1, <2>2
<1>8. b /\ l = 0 => Len(t) > 0 /\ t[1].frame = "Header"
  <2> SUFFICES ASSUME b, l = 0 PROVE Len(t) > 0 /\ t[1].frame = "Header"
    OBVIOUS
  <2>1. s[1].frame \in Methods
    OBVIOUS
  <2>2. 1 < Len(s) /\ s[1 + 1].frame = "Header"
    BY <2>1, <1>2 DEF Whole
  <2>3. 1 \in 1 .. Len(t)
    BY <2>2, <1>2
  <2> QED
    BY <2>2, <2>3, <1>1
<1> QED
  BY <1>4, <1>5, <1>6, <1>7, <1>8 DEF Whole, t

\* What the broker puts on the wire is whole.
LEMMA WholeSingle ==
    ASSUME NEW f \in Frame, f.frame \notin Methods \cup {"Header", "Body"}
    PROVE  <<f>> \in Seq(Frame) /\ Whole(<<f>>, 0, FALSE)
<1>1. Len(<<f>>) = 1 /\ <<f>>[1] = f
  OBVIOUS
<1>2. 1 .. 1 = {1}
  OBVIOUS
<1> QED
  BY <1>1, <1>2 DEF Whole

LEMMA WholeContent ==
    ASSUME NEW f \in Frame, f.frame \in Methods, NEW k \in 0 .. MaxBodies
    PROVE  Content(f, k) \in Seq(Frame) /\ Whole(Content(f, k), 0, FALSE)
<1> DEFINE s == Content(f, k)
<1>1. /\ s \in Seq(Frame) /\ Len(s) = k + 2 /\ s[1] = f /\ s[2].frame = "Header" /\ s[2].bodies = k
      /\ \A j \in 1 .. k : s[j + 2].frame = "Body"
  BY ContentFacts
<1> HIDE DEF s
<1>2. k \in Nat
  OBVIOUS
<1>3. \A i \in 1 .. Len(s) : i = 1 \/ i = 2 \/ (i - 2 \in 1 .. k /\ i = (i - 2) + 2)
  BY <1>1, <1>2
<1>4. \A i \in 1 .. Len(s) : i # 1 /\ i # 2 => s[i].frame = "Body"
  BY <1>1, <1>3
<1>5. 1 \in 1 .. Len(s) /\ 2 \in 1 .. Len(s)
  BY <1>1, <1>2
<1>6. \A i \in 1 .. Len(s) : s[i].frame \in Methods => i < Len(s) /\ s[i + 1].frame = "Header"
  <2> SUFFICES ASSUME NEW i \in 1 .. Len(s), s[i].frame \in Methods
               PROVE  i < Len(s) /\ s[i + 1].frame = "Header"
    OBVIOUS
  <2>1. i = 1
    BY <1>1, <1>4 DEF Methods
  <2> QED
    BY <2>1, <1>1, <1>2
<1>7. \A i \in 1 .. Len(s) : s[i].frame = "Header" =>
        /\ i + s[i].bodies <= Len(s)
        /\ \A j \in 1 .. s[i].bodies : s[i + j].frame = "Body"
        /\ IF i = 1 THEN FALSE /\ 0 = 0 ELSE s[i - 1].frame \in Methods
  <2> SUFFICES ASSUME NEW i \in 1 .. Len(s), s[i].frame = "Header"
               PROVE  /\ i + s[i].bodies <= Len(s)
                      /\ \A j \in 1 .. s[i].bodies : s[i + j].frame = "Body"
                      /\ i # 1 /\ s[i - 1].frame \in Methods
    OBVIOUS
  <2>1. i = 2
    BY <1>1, <1>4 DEF Methods
  <2>2. \A j \in 1 .. k : i + j = j + 2
    BY <2>1, <1>2
  <2>3. s[i].bodies = k /\ i + k <= Len(s) /\ i - 1 = 1
    BY <2>1, <1>1, <1>2
  <2> QED
    BY <2>1, <2>2, <2>3, <1>1
<1>8. \A i \in 1 .. Len(s) : s[i].frame = "Body" =>
        i <= 0 \/ \E p \in 1 .. i - 1 : s[p].frame = "Header" /\ i <= p + s[p].bodies
  <2> SUFFICES ASSUME NEW i \in 1 .. Len(s), s[i].frame = "Body"
               PROVE  \E p \in 1 .. i - 1 : s[p].frame = "Header" /\ i <= p + s[p].bodies
    OBVIOUS
  <2>1. i # 1 /\ i # 2
    BY <1>1 DEF Methods
  <2>2. 2 \in 1 .. i - 1 /\ i <= 2 + s[2].bodies
    BY <2>1, <1>1, <1>2
  <2> QED
    BY <2>2, <1>1
<1> QED
  BY <1>1, <1>6, <1>7, <1>8 DEF Whole, s

----------------------------------------------------------------------------
(* Types, and messages whole on the wire *)

BaseInv ==
    /\ TypeOK /\ PartialInv /\ GrammarInv
    /\ attached \/ closed
    /\ ~sock => toClient = <<>>

LEMMA InitBase == Init => BaseInv
<1> SUFFICES ASSUME Init PROVE BaseInv
  OBVIOUS
<1>1. TypeOK
  <2>1. jobs \in Seq(Job) /\ toClient \in Seq(Frame) /\ returned \in Seq(Message)
    BY DEF Init
  <2>2. handed \in [Consumer -> Seq(Message)] /\ sent \in [Consumer -> Seq(Message)]
    BY DEF Init
  <2>3. partial \in [delivery : Message \cup {None}, consumer : Consumer \cup {None},
                     getMessage : Message \cup {None}, returned : Message \cup {None}]
    BY DEF Init, Nothing
  <2>4. /\ consume \in [Consumer -> PromiseState] /\ cancel \in [Consumer -> PromiseState]
        /\ ended \in [Consumer -> {"no", "closed", "error"}]
        /\ waits \in [Waiter -> [on : Consumer \cup {None},
                                  state : {"none", "pending", "resolved", "rejected"}]]
        /\ holder \in [Consumer -> Waiter \cup {None}] /\ timer \in [Consumer -> Waiter \cup {None}]
    BY DEF Init, PromiseState, Pending
  <2>5. missing \in 0 .. MaxBodies /\ serving \in [open : BOOLEAN, consumers : SUBSET Consumer]
    BY DEF Init
  <2> QED
    BY <2>1, <2>2, <2>3, <2>4, <2>5 DEF Init, TypeOK
<1>2. PartialInv /\ ~Begun
  BY DEF Init, PartialInv, Begun, Nothing
<1>3. GrammarInv
  BY <1>2 DEF Init, GrammarInv, Whole
<1> QED
  BY <1>1, <1>2, <1>3 DEF BaseInv, Init

\* Putting frames on the wire.
LEMMA PutGrammar ==
    ASSUME TypeOK, GrammarInv, UNCHANGED <<attached, sock, missing, partial>>,
           NEW f \in Seq(Frame), Whole(f, 0, FALSE), toClient' = toClient \o f
    PROVE  toClient' \in Seq(Frame) /\ GrammarInv'
<1>1. toClient \in Seq(Frame) /\ missing \in Nat /\ Begun \in BOOLEAN /\ Begun' = Begun
  BY DEF TypeOK, Begun
<1>2. toClient' \in Seq(Frame)
  BY <1>1
<1>3. Wired' => Whole(toClient, missing, Begun)
  BY DEF GrammarInv, Wired
<1>4. Wired' => Whole(toClient', missing, Begun)
  <2> SUFFICES ASSUME Wired' PROVE Whole(toClient', missing, Begun)
    OBVIOUS
  <2>1. PICK t \in Seq(Frame) : t = toClient \o f
    BY <1>2
  <2> QED
    BY <1>1, <1>3, <2>1, WholePut
<1> QED
  BY <1>1, <1>2, <1>4 DEF GrammarInv

\* Nothing is put on the wire or taken from it.
LEMMA IdleGrammar ==
    ASSUME GrammarInv, UNCHANGED <<attached, sock, missing, partial, toClient>>
    PROVE  GrammarInv'
BY DEF GrammarInv, Wired, Begun

\* Taking a frame.
LEMMA ReceiveFacts ==
    ASSUME TypeOK, NEW k, Receive(k)
    PROVE  /\ toClient # <<>> /\ toClient \in Seq(Frame) /\ 1 \in 1 .. Len(toClient)
           /\ Head(toClient) = toClient[1] /\ toClient[1] \in Frame /\ toClient[1].frame = k
           /\ toClient' = Tail(toClient) /\ toClient' \in Seq(Frame) /\ parsing' \in BOOLEAN
           /\ sock /\ sock' /\ UNCHANGED <<handed, dropped, serving, sent, used>>
<1>1. toClient # <<>> /\ toClient \in Seq(Frame) /\ Head(toClient).frame = k
  BY DEF Receive, TypeOK
<1>2. 1 \in 1 .. Len(toClient) /\ Head(toClient) = toClient[1] /\ toClient[1] \in Frame
  BY <1>1
<1>3. toClient' = Tail(toClient) /\ Tail(toClient) \in Seq(Frame)
  BY <1>1 DEF Receive
<1>4. parsing' \in BOOLEAN
  BY DEF Receive
<1> QED
  BY <1>1, <1>2, <1>3, <1>4 DEF Receive, serverVars

LEMMA ReceiveHead ==
    ASSUME BaseInv, attached, NEW k, Receive(k)
    PROVE  /\ k \notin {"Header", "Body"} => missing = 0 /\ ~Begun
           /\ k = "Header" => missing = 0 /\ Begun
           /\ k = "Body" => missing > 0 /\ Begun
<1>1. toClient # <<>> /\ toClient \in Seq(Frame) /\ toClient[1].frame = k /\ sock
  BY ReceiveFacts DEF BaseInv
<1>2. Whole(toClient, missing, Begun) /\ missing \in Nat /\ Begun \in BOOLEAN
  BY <1>1 DEF BaseInv, GrammarInv, Wired, TypeOK, Begun
<1> QED
  BY <1>1, <1>2, WholeHead

LEMMA ReceiveGrammar ==
    ASSUME BaseInv, attached, NEW k, Receive(k), missing' \in Nat,
           k \in Methods => missing' = 0 /\ Begun',
           k = "Header" => missing' = toClient[1].bodies /\ (Begun' <=> missing' # 0),
           k = "Body" => missing' = missing - 1 /\ (Begun' <=> missing' # 0),
           k \notin Methods \cup {"Header", "Body"} => missing' = 0 /\ ~Begun'
    PROVE  GrammarInv'
<1>1. /\ toClient # <<>> /\ toClient \in Seq(Frame) /\ toClient[1].frame = k /\ sock
      /\ toClient' = Tail(toClient)
  BY ReceiveFacts DEF BaseInv
<1>2. Whole(toClient, missing, Begun) /\ missing \in Nat /\ Begun \in BOOLEAN /\ Begun' \in BOOLEAN
  BY <1>1 DEF BaseInv, GrammarInv, Wired, TypeOK, Begun
<1>4. PICK l \in Nat : l = missing'
  OBVIOUS
<1>5. PICK b \in BOOLEAN : b = Begun'
  BY <1>2
<1>6. k = toClient[1].frame
  BY <1>1
<1>7. PICK left \in Nat : left = missing
  BY <1>2
<1>8. PICK begun \in BOOLEAN : begun = Begun
  BY <1>2
<1>9. PICK s \in Seq(Frame) : s = toClient
  BY <1>1
<1>10. s # <<>> /\ Whole(s, left, begun) /\ k = s[1].frame
  BY <1>1, <1>2, <1>7, <1>8, <1>9
<1>11. /\ s[1].frame \in Methods => l = 0 /\ b
       /\ s[1].frame = "Header" => l = s[1].bodies /\ (b <=> l # 0)
       /\ s[1].frame = "Body" => l = left - 1 /\ (b <=> l # 0)
       /\ s[1].frame \notin Methods \cup {"Header", "Body"} => l = 0 /\ ~b
  BY <1>4, <1>5, <1>7, <1>9, <1>10
<1>12. Whole(Tail(s), l, b)
  BY <1>10, <1>11, WholeTail
<1> QED
  BY <1>1, <1>4, <1>5, <1>9, <1>12 DEF GrammarInv

\* A function stays one if it is changed at one point.
LEMMA Updated ==
    ASSUME NEW S, NEW T, NEW f \in [S -> T], NEW x, NEW v \in T
    PROVE  [f EXCEPT ![x] = v] \in [S -> T]
OBVIOUS

LEMMA PromiseStates == {"none", "asked", "answered", "fulfilled", "rejected"} = PromiseState
BY DEF PromiseState, Pending

\* The broker answers a request, or sends on its own.
LEMMA PutBase ==
    ASSUME BaseInv, sock, UNCHANGED <<attached, sock, missing, partial>>,
           NEW f \in Seq(Frame), Whole(f, 0, FALSE), Put(f)
    PROVE  toClient' \in Seq(Frame) /\ GrammarInv' /\ PartialInv' /\ (~sock' => toClient' = <<>>)
<1>1. toClient' \in Seq(Frame) /\ GrammarInv'
  BY PutGrammar DEF BaseInv, Put
<1> QED
  BY <1>1 DEF BaseInv, PartialInv

LEMMA AnswerBase ==
    ASSUME BaseInv, sock, UNCHANGED <<attached, sock, missing, partial>>, NEW S \in SUBSET Consumer,
           NEW f \in Seq(Frame), Whole(f, 0, FALSE), Answer(f, S)
    PROVE  /\ toClient' \in Seq(Frame) /\ GrammarInv' /\ PartialInv' /\ (~sock' => toClient' = <<>>)
           /\ serving' \in [open : BOOLEAN, consumers : SUBSET Consumer]
<1>1. CASE serving.open /\ Put(f) /\ serving' = [serving EXCEPT !.consumers = S]
  <2>1. serving' \in [open : BOOLEAN, consumers : SUBSET Consumer]
    BY <1>1 DEF BaseInv, TypeOK
  <2> QED
    BY <1>1, <2>1, PutBase
<1>2. CASE UNCHANGED <<toClient, serving>>
  BY <1>2, IdleGrammar DEF BaseInv, TypeOK, PartialInv
<1> QED
  BY <1>1, <1>2 DEF Answer

LEMMA IdleBase ==
    ASSUME BaseInv, UNCHANGED <<attached, sock, missing, partial, toClient>>
    PROVE  toClient' \in Seq(Frame) /\ GrammarInv' /\ PartialInv' /\ (~sock' => toClient' = <<>>)
BY IdleGrammar DEF BaseInv, TypeOK, PartialInv

LEMMA BasicConsumeBase == ASSUME BaseInv, NEW c \in Consumer, BasicConsume(c) PROVE BaseInv'
<1> DEFINE f == [frame |-> "ConsumeOk", consumer |-> c]
<1>1. f \in Frame /\ f.frame \notin Methods \cup {"Header", "Body"}
  BY FramesMade DEF Methods
<1>2. consume' \in [Consumer -> PromiseState]
  <2>1. consume \in [Consumer -> PromiseState]
    BY DEF BaseInv, TypeOK
  <2>2. \E v \in {"asked", "rejected"} : consume' = [consume EXCEPT ![c] = v]
    BY DEF BasicConsume
  <2> QED
    BY <2>1, <2>2, PromiseStates, Updated
<1>3. CASE Usable /\ Answer(<<f>>, serving.consumers \cup {c})
  <2>1. serving.consumers \cup {c} \in SUBSET Consumer
    BY DEF BaseInv, TypeOK
  <2>2. /\ toClient' \in Seq(Frame) /\ GrammarInv' /\ PartialInv' /\ (~sock' => toClient' = <<>>)
        /\ serving' \in [open : BOOLEAN, consumers : SUBSET Consumer]
    BY <1>1, <1>3, <2>1, WholeSingle, AnswerBase DEF BasicConsume, chanVars, Usable
  <2> QED
    BY <1>2, <2>2 DEF BasicConsume, BaseInv, TypeOK, chanVars, handVars, waitVars
<1>4. CASE UNCHANGED <<toClient, serving>>
  BY <1>2, <1>4, IdleBase DEF BasicConsume, BaseInv, TypeOK, chanVars, handVars, waitVars
<1> QED
  BY <1>3, <1>4 DEF BasicConsume

LEMMA BasicGetBase == ASSUME BaseInv, BasicGet PROVE BaseInv'
<1>1. get' \in {"none", "asked", "empty", "rejected"} \cup Message
  BY DEF BasicGet
<1>2. serving.consumers \in SUBSET Consumer
  BY DEF BaseInv, TypeOK
<1>3. CASE Answer(<<[frame |-> "GetEmpty"]>>, serving.consumers) /\ UNCHANGED used
  <2>1. [frame |-> "GetEmpty"] \in Frame /\ [frame |-> "GetEmpty"].frame \notin Methods \cup {"Header", "Body"}
    BY FramesMade DEF Methods
  <2>2. /\ toClient' \in Seq(Frame) /\ GrammarInv' /\ PartialInv' /\ (~sock' => toClient' = <<>>)
        /\ serving' \in [open : BOOLEAN, consumers : SUBSET Consumer]
    BY <1>2, <1>3, <2>1, WholeSingle, AnswerBase DEF BasicGet, chanVars, Usable
  <2> QED
    BY <1>1, <1>3, <2>2 DEF BasicGet, BaseInv, TypeOK, chanVars, handVars, waitVars
<1>4. CASE \E m \in Message \ used, k \in 0 .. MaxBodies :
             /\ Answer(Content([frame |-> "GetOk", message |-> m], k), serving.consumers)
             /\ used' = used \cup {m}
  <2>1. PICK m \in Message \ used, k \in 0 .. MaxBodies :
             /\ Answer(Content([frame |-> "GetOk", message |-> m], k), serving.consumers)
             /\ used' = used \cup {m}
    BY <1>4
  <2>2. [frame |-> "GetOk", message |-> m] \in Frame /\ [frame |-> "GetOk", message |-> m].frame \in Methods
    BY FramesMade DEF Methods
  <2>3. /\ toClient' \in Seq(Frame) /\ GrammarInv' /\ PartialInv' /\ (~sock' => toClient' = <<>>)
        /\ serving' \in [open : BOOLEAN, consumers : SUBSET Consumer]
    BY <1>2, <2>1, <2>2, WholeContent, AnswerBase DEF BasicGet, chanVars, Usable
  <2>4. used' \in SUBSET Message
    BY <2>1 DEF BaseInv, TypeOK
  <2> QED
    BY <1>1, <2>3, <2>4 DEF BasicGet, BaseInv, TypeOK, chanVars, handVars, waitVars
<1> QED
  BY <1>3, <1>4 DEF BasicGet

LEMMA CancelBase == ASSUME BaseInv, NEW c \in Consumer, Cancel(c) PROVE BaseInv'
<1> DEFINE f == [frame |-> "CancelOk", consumer |-> c]
<1>1. f \in Frame /\ f.frame \notin Methods \cup {"Header", "Body"}
  BY FramesMade DEF Methods
<1>2. cancel' \in [Consumer -> PromiseState]
  <2>1. cancel \in [Consumer -> PromiseState]
    BY DEF BaseInv, TypeOK
  <2>2. \E v \in {"asked", "fulfilled", "rejected"} : cancel' = [cancel EXCEPT ![c] = v]
    BY DEF Cancel
  <2> QED
    BY <2>1, <2>2, PromiseStates, Updated
<1>3. CASE Usable /\ Answer(<<f>>, serving.consumers \ {c})
  <2>1. serving.consumers \ {c} \in SUBSET Consumer
    BY DEF BaseInv, TypeOK
  <2>2. /\ toClient' \in Seq(Frame) /\ GrammarInv' /\ PartialInv' /\ (~sock' => toClient' = <<>>)
        /\ serving' \in [open : BOOLEAN, consumers : SUBSET Consumer]
    BY <1>1, <1>3, <2>1, WholeSingle, AnswerBase DEF Cancel, chanVars, Usable
  <2> QED
    BY <1>2, <2>2 DEF Cancel, BaseInv, TypeOK, chanVars, handVars, waitVars
<1>4. CASE UNCHANGED <<toClient, serving>>
  <2>1. toClient' \in Seq(Frame) /\ GrammarInv' /\ PartialInv' /\ (~sock' => toClient' = <<>>)
    BY <1>4, IdleBase DEF Cancel, chanVars
  <2> QED
    BY <1>2, <1>4, <2>1 DEF Cancel, BaseInv, TypeOK, chanVars, handVars, waitVars
<1> QED
  BY <1>3, <1>4 DEF Cancel

LEMMA WaitBase ==
    ASSUME BaseInv, NEW w \in Waiter, NEW c \in Consumer, NEW timed \in BOOLEAN, Wait(w, c, timed)
    PROVE  BaseInv'
<1>1. waits' \in [Waiter -> [on : Consumer \cup {None}, state : {"none", "pending", "resolved", "rejected"}]]
  <2>1. \E v \in [on : Consumer \cup {None}, state : {"none", "pending", "resolved", "rejected"}] :
           waits' = [waits EXCEPT ![w] = v]
    BY DEF Wait
  <2> QED
    BY <2>1, Updated DEF BaseInv, TypeOK
<1>2. holder' \in [Consumer -> Waiter \cup {None}] /\ timer' \in [Consumer -> Waiter \cup {None}]
  <2>1. holder' = holder \/ holder' = [holder EXCEPT ![c] = w]
    BY DEF Wait
  <2>2. timer' = timer \/ timer' = [timer EXCEPT ![c] = w]
    BY DEF Wait
  <2> QED
    BY <2>1, <2>2, Updated DEF BaseInv, TypeOK
<1>3. timers' \in SUBSET Waiter
  BY DEF Wait, BaseInv, TypeOK
<1> QED
  BY <1>1, <1>2, <1>3, IdleBase DEF Wait, BaseInv, TypeOK, chanVars, promises, handVars, serverVars

LEMMA SettleType ==
    ASSUME TypeOK, NEW W, NEW o \in {"resolved", "rejected"}
    PROVE  Settle(W, o) \in [Waiter -> [on : Consumer \cup {None},
                                        state : {"none", "pending", "resolved", "rejected"}]]
<1> DEFINE T == [on : Consumer \cup {None}, state : {"none", "pending", "resolved", "rejected"}]
<1>1. ASSUME NEW w \in Waiter PROVE [waits[w] EXCEPT !.state = o] \in T /\ waits[w] \in T
  <2>1. waits[w] \in T
    BY DEF TypeOK
  <2>2. ASSUME NEW r \in T PROVE [r EXCEPT !.state = o] \in T
    OBVIOUS
  <2> QED
    BY <2>1, <2>2
<1> QED
  BY <1>1 DEF Settle

LEMMA TimeoutBase == ASSUME BaseInv, NEW w \in Waiter, Timeout(w) PROVE BaseInv'
<1>1. waits' \in [Waiter -> [on : Consumer \cup {None}, state : {"none", "pending", "resolved", "rejected"}]]
  BY SettleType DEF Timeout, BaseInv
<1>2. timers' \in SUBSET Waiter
  BY DEF Timeout, BaseInv, TypeOK
<1>3. toClient' \in Seq(Frame) /\ GrammarInv' /\ PartialInv' /\ (~sock' => toClient' = <<>>)
  BY IdleBase DEF Timeout, chanVars
<1>4. UNCHANGED <<closed, attached, sock, consumers, partial, missing, consume, cancel, get, ended, handed,
                   returned, dropped, holder, timer, parsing, jobs, toClient, serving, sent, used>>
  BY DEF Timeout, chanVars, promises, handVars, serverVars
<1>5. TypeOK'
  BY <1>1, <1>2, <1>4 DEF BaseInv, TypeOK
<1> QED
  BY <1>3, <1>4, <1>5 DEF BaseInv

\* What ends consumers.
LEMMA EndConsumersType ==
    ASSUME TypeOK, NEW C, NEW how \in {"closed", "error"}, EndConsumers(C, how)
    PROVE  /\ ended' \in [Consumer -> {"no", "closed", "error"}]
           /\ timers' \in SUBSET Waiter /\ UNCHANGED <<holder, timer>>
           /\ waits' \in [Waiter -> [on : Consumer \cup {None},
                                     state : {"none", "pending", "resolved", "rejected"}]]
<1>1. ended' \in [Consumer -> {"no", "closed", "error"}] /\ timers' \in SUBSET Waiter
  BY DEF EndConsumers, TypeOK
<1>2. PICK o \in {"resolved", "rejected"} : waits' = Settle({holder[c] : c \in C}, o)
  BY DEF EndConsumers
<1> QED
  BY <1>1, <1>2, SettleType DEF EndConsumers

LEMMA SetClosedType ==
    ASSUME TypeOK, NEW how \in {"closed", "error"}, SetClosed(how)
    PROVE  /\ closed' /\ consumers' \in SUBSET Consumer
           /\ ended' \in [Consumer -> {"no", "closed", "error"}]
           /\ timers' \in SUBSET Waiter /\ UNCHANGED <<holder, timer>>
           /\ waits' \in [Waiter -> [on : Consumer \cup {None},
                                     state : {"none", "pending", "resolved", "rejected"}]]
           /\ consume' \in [Consumer -> PromiseState] /\ cancel' \in [Consumer -> PromiseState]
           /\ get' \in {"none", "asked", "empty", "rejected"} \cup Message
<1>1. CASE UNCHANGED <<consumers, ended, waitVars, promises>>
  BY <1>1 DEF SetClosed, TypeOK, waitVars, promises
<1>2. CASE ~closed
  <2>1. consume' \in [Consumer -> PromiseState] /\ cancel' \in [Consumer -> PromiseState]
    BY <1>2, PromiseStates DEF SetClosed, TypeOK
  <2>2. get' \in {"none", "asked", "empty", "rejected"} \cup Message
    BY <1>2 DEF SetClosed, TypeOK
  <2> QED
    BY <1>2, <2>1, <2>2, EndConsumersType DEF SetClosed
<1> QED
  BY <1>1, <1>2 DEF SetClosed

LEMMA CloseChannelBase == ASSUME BaseInv, CloseChannel PROVE BaseInv'
<1>1. [frame |-> "CloseOk"] \in Frame /\ [frame |-> "CloseOk"].frame \notin Methods \cup {"Header", "Body"}
  BY FramesMade DEF Methods
<1>2. toClient' \in Seq(Frame) /\ GrammarInv' /\ PartialInv' /\ (~sock' => toClient' = <<>>)
  BY <1>1, WholeSingle, PutBase DEF CloseChannel, Usable
<1>3. serving' \in [open : BOOLEAN, consumers : SUBSET Consumer]
  BY DEF CloseChannel
<1> QED
  BY <1>2, <1>3 DEF CloseChannel, BaseInv, TypeOK, promises, handVars, waitVars

LEMMA SkipFrameBase == ASSUME BaseInv, SkipFrame PROVE BaseInv'
<1>1. toClient' \in Seq(Frame) /\ parsing' \in BOOLEAN /\ sock' /\ UNCHANGED <<handed, dropped, serving, sent, used>>
  BY ReceiveFacts DEF SkipFrame, BaseInv
<1>2. GrammarInv'
  BY DEF SkipFrame, GrammarInv, Wired
<1> QED
  BY <1>1, <1>2 DEF SkipFrame, BaseInv, TypeOK, PartialInv, promises, waitVars

\* A frame that is not part of a message.
LEMMA OtherFrameBase ==
    ASSUME BaseInv, attached, NEW k, k \notin Methods \cup {"Header", "Body"}, Receive(k),
           UNCHANGED <<missing, partial>>
    PROVE  /\ toClient' \in Seq(Frame) /\ parsing' \in BOOLEAN /\ sock' /\ toClient[1] \in Frame
           /\ UNCHANGED <<handed, dropped, serving, sent, used>>
           /\ toClient[1] = Head(toClient) /\ toClient[1].frame = k
           /\ GrammarInv' /\ PartialInv'
<1>1. missing = 0 /\ ~Begun
  BY ReceiveHead
<1>2. GrammarInv'
  BY <1>1, ReceiveGrammar DEF Begun
<1> QED
  BY <1>2, ReceiveFacts DEF BaseInv, PartialInv

LEMMA GotConsumeOkBase == ASSUME BaseInv, GotConsumeOk PROVE BaseInv'
<1>1. /\ toClient' \in Seq(Frame) /\ parsing' \in BOOLEAN /\ sock' /\ toClient[1] \in Frame
      /\ UNCHANGED <<handed, dropped, serving, sent, used>>
      /\ toClient[1] = Head(toClient) /\ toClient[1].frame = "ConsumeOk"
      /\ GrammarInv' /\ PartialInv'
  BY OtherFrameBase DEF GotConsumeOk, Methods
<1>2. PICK c \in Consumer : c = Head(toClient).consumer
  BY <1>1, FrameFacts
<1>3. consume' \in [Consumer -> PromiseState]
  BY <1>2, PromiseStates, Updated DEF GotConsumeOk, BaseInv, TypeOK
<1>4. jobs' \in Seq(Job)
  <2>1. [do |-> "register", consumer |-> c] \in Job
    BY DEF Job
  <2>2. jobs \in Seq(Job) /\ jobs' = Append(jobs, [do |-> "register", consumer |-> c])
    BY <1>2 DEF GotConsumeOk, Later, BaseInv, TypeOK
  <2> QED
    BY <2>1, <2>2
<1> QED
  BY <1>1, <1>3, <1>4 DEF GotConsumeOk, BaseInv, TypeOK, waitVars

LEMMA GotCancelOkBase == ASSUME BaseInv, GotCancelOk PROVE BaseInv'
<1>1. /\ toClient' \in Seq(Frame) /\ parsing' \in BOOLEAN /\ sock' /\ toClient[1] \in Frame
      /\ UNCHANGED <<handed, dropped, serving, sent, used>>
      /\ toClient[1] = Head(toClient) /\ toClient[1].frame = "CancelOk"
      /\ GrammarInv' /\ PartialInv'
  BY OtherFrameBase DEF GotCancelOk, Methods
<1>2. PICK c \in Consumer : c = Head(toClient).consumer
  BY <1>1, FrameFacts
<1>3. cancel' \in [Consumer -> PromiseState]
  BY <1>2, PromiseStates, Updated DEF GotCancelOk, BaseInv, TypeOK
<1>4. jobs' \in Seq(Job)
  <2>1. [do |-> "cancelled", consumer |-> c] \in Job
    BY DEF Job
  <2>2. jobs \in Seq(Job) /\ jobs' = Append(jobs, [do |-> "cancelled", consumer |-> c])
    BY <1>2 DEF GotCancelOk, Later, BaseInv, TypeOK
  <2> QED
    BY <2>1, <2>2
<1> QED
  BY <1>1, <1>3, <1>4 DEF GotCancelOk, BaseInv, TypeOK, waitVars

LEMMA GotCancelBase == ASSUME BaseInv, GotCancel PROVE BaseInv'
<1>1. /\ toClient' \in Seq(Frame) /\ parsing' \in BOOLEAN /\ sock'
      /\ UNCHANGED <<handed, dropped, serving, sent, used>>
      /\ GrammarInv' /\ PartialInv'
  BY OtherFrameBase DEF GotCancel, Methods
<1>2. /\ ended' \in [Consumer -> {"no", "closed", "error"}]
      /\ timers' \in SUBSET Waiter /\ UNCHANGED <<holder, timer>>
      /\ waits' \in [Waiter -> [on : Consumer \cup {None},
                                state : {"none", "pending", "resolved", "rejected"}]]
  BY EndConsumersType DEF GotCancel, BaseInv
<1>3. consumers' \in SUBSET Consumer
  BY DEF GotCancel, Forget, BaseInv, TypeOK
<1> QED
  BY <1>1, <1>2, <1>3 DEF GotCancel, BaseInv, TypeOK, promises

LEMMA GotGetEmptyBase == ASSUME BaseInv, GotGetEmpty PROVE BaseInv'
<1>1. /\ toClient' \in Seq(Frame) /\ parsing' \in BOOLEAN /\ sock'
      /\ UNCHANGED <<handed, dropped, serving, sent, used>>
      /\ GrammarInv' /\ PartialInv'
  BY OtherFrameBase DEF GotGetEmpty, Methods
<1> QED
  BY <1>1 DEF GotGetEmpty, BaseInv, TypeOK, waitVars

\* Nothing is being assembled when the method of a message comes.
LEMMA GotMethodBase ==
    ASSUME BaseInv, GotMethod
    PROVE  BaseInv' /\ ~Begun /\ UNCHANGED <<handed, dropped, serving, sent, used>>
<1> DEFINE PartialType == [delivery : Message \cup {None}, consumer : Consumer \cup {None},
                           getMessage : Message \cup {None}, returned : Message \cup {None}]
<1>1. PICK k \in Methods : Receive(k)
  BY DEF GotMethod, Methods
<1>2. /\ toClient' \in Seq(Frame) /\ parsing' \in BOOLEAN /\ sock' /\ toClient[1] \in Frame
      /\ UNCHANGED <<handed, dropped, serving, sent, used>>
      /\ toClient[1] = Head(toClient) /\ toClient[1].frame = k
  BY <1>1, ReceiveFacts DEF BaseInv
<1>3. missing = 0 /\ ~Begun
  BY <1>1, ReceiveHead DEF GotMethod, Methods
<1>4. partial \in PartialType
  BY DEF BaseInv, TypeOK
<1>5. PICK f \in Frame : f = Head(toClient) /\ f.frame = k
  BY <1>2
<1>6. f.message \in Message /\ (k = "Deliver" => f.consumer \in Consumer)
  BY <1>5, FrameFacts
<1>7. f.message # None /\ (k = "Deliver" => f.consumer # None)
  BY <1>6
<1>8. \/ k = "Deliver" /\ partial' = [partial EXCEPT !.delivery = f.message, !.consumer = f.consumer]
      \/ partial' = [partial EXCEPT !.getMessage = f.message]
      \/ partial' = [partial EXCEPT !.returned = f.message]
  BY <1>2, <1>5 DEF GotMethod, Receive
<1>9. partial' \in PartialType
  BY <1>4, <1>6, <1>8
<1>10. PartialInv' /\ Begun'
  BY <1>3, <1>4, <1>7, <1>8 DEF PartialInv, Begun, BaseInv
<1>11. missing' = missing
  BY DEF GotMethod
<1>12. GrammarInv'
  BY <1>1, <1>3, <1>10, <1>11, ReceiveGrammar DEF GotMethod, Methods
<1>13. TypeOK'
  BY <1>2, <1>9 DEF GotMethod, BaseInv, TypeOK, promises, waitVars
<1> QED
  BY <1>2, <1>3, <1>10, <1>12, <1>13 DEF GotMethod, BaseInv

\* The message is complete, or waits for more.
LEMMA ExpectBase ==
    ASSUME TypeOK, PartialInv, Begun, NEW left \in 0 .. MaxBodies, Expect(left)
    PROVE  /\ partial' \in [delivery : Message \cup {None}, consumer : Consumer \cup {None},
                            getMessage : Message \cup {None}, returned : Message \cup {None}]
           /\ PartialInv' /\ (Begun' <=> left # 0) /\ missing' = left
           /\ get' \in {"none", "asked", "empty", "rejected"} \cup Message
           /\ returned' \in Seq(Message) /\ jobs' \in Seq(Job)
<1> DEFINE PartialType == [delivery : Message \cup {None}, consumer : Consumer \cup {None},
                           getMessage : Message \cup {None}, returned : Message \cup {None}]
<1>1. partial \in PartialType /\ missing' = left /\ left \in Nat
  BY DEF Expect, TypeOK
<1>2. CASE left # 0
  BY <1>1, <1>2 DEF Expect, Ready, TypeOK, PartialInv, Begun
<1>3. CASE left = 0 /\ partial.delivery # None
  <2>1. /\ partial' = [partial EXCEPT !.delivery = None, !.consumer = None]
        /\ jobs' = Append(jobs, [do |-> "deliver", consumer |-> partial.consumer, message |-> partial.delivery])
        /\ UNCHANGED <<get, returned>>
    BY <1>3 DEF Expect, Ready, OnMessageReady, DeliveryDone, Later
  <2>2. partial.consumer \in Consumer /\ partial.delivery \in Message
    BY <1>1, <1>3 DEF PartialInv
  <2>3. [do |-> "deliver", consumer |-> partial.consumer, message |-> partial.delivery] \in Job
    BY <2>2 DEF Job
  <2>4. jobs' \in Seq(Job)
    BY <2>1, <2>3 DEF TypeOK
  <2>5. partial' \in PartialType /\ PartialInv' /\ ~Begun'
    BY <1>1, <1>3, <2>1 DEF PartialInv, Begun
  <2> QED
    BY <1>1, <1>3, <2>1, <2>4, <2>5 DEF TypeOK
<1>4. CASE left = 0 /\ partial.delivery = None /\ partial.getMessage # None
  <2>1. /\ partial' = [partial EXCEPT !.getMessage = None] /\ get' = partial.getMessage
        /\ UNCHANGED <<returned, jobs>>
    BY <1>4 DEF Expect, Ready, OnMessageReady, GetDone
  <2>2. partial' \in PartialType /\ PartialInv' /\ ~Begun' /\ get' \in Message
    BY <1>1, <1>4, <2>1 DEF PartialInv, Begun
  <2> QED
    BY <1>1, <1>4, <2>1, <2>2 DEF TypeOK
<1>5. CASE left = 0 /\ partial.delivery = None /\ partial.getMessage = None
  <2>1. /\ partial' = [partial EXCEPT !.returned = None] /\ returned' = Append(returned, partial.returned)
        /\ UNCHANGED <<get, jobs>>
    BY <1>5 DEF Expect, Ready, OnMessageReady
  <2>2. partial' \in PartialType /\ PartialInv' /\ ~Begun' /\ partial.returned \in Message
    BY <1>1, <1>5, <2>1 DEF PartialInv, Begun
  <2>3. returned' \in Seq(Message)
    BY <2>1, <2>2 DEF TypeOK
  <2> QED
    BY <1>1, <1>5, <2>1, <2>2, <2>3 DEF TypeOK
<1> QED
  BY <1>2, <1>3, <1>4, <1>5

LEMMA GotPartBase ==
    ASSUME BaseInv, attached, NEW k \in {"Header", "Body"}, Receive(k), NEW left, Expect(left),
           left = IF k = "Header" THEN Head(toClient).bodies ELSE missing - 1
    PROVE  /\ BaseInv' /\ Begun /\ left \in 0 .. MaxBodies /\ toClient[1] = Head(toClient)
           /\ UNCHANGED <<handed, dropped, serving, sent, used>>
<1>1. /\ toClient' \in Seq(Frame) /\ parsing' \in BOOLEAN /\ sock' /\ toClient[1] \in Frame
      /\ UNCHANGED <<handed, dropped, serving, sent, used>>
      /\ toClient[1] = Head(toClient) /\ toClient[1].frame = k
  BY ReceiveFacts DEF BaseInv
<1>2. Begun /\ (k = "Body" => missing > 0)
  BY ReceiveHead
<1>3. left \in 0 .. MaxBodies
  BY <1>1, <1>2, FrameFacts DEF BaseInv, TypeOK
<1>4. /\ partial' \in [delivery : Message \cup {None}, consumer : Consumer \cup {None},
                       getMessage : Message \cup {None}, returned : Message \cup {None}]
      /\ PartialInv' /\ (Begun' <=> left # 0) /\ missing' = left
      /\ get' \in {"none", "asked", "empty", "rejected"} \cup Message
      /\ returned' \in Seq(Message) /\ jobs' \in Seq(Job)
  BY <1>2, <1>3, ExpectBase DEF BaseInv
<1>5. GrammarInv'
  BY <1>1, <1>3, <1>4, ReceiveGrammar DEF Methods
<1>6. TypeOK'
  BY <1>1, <1>3, <1>4 DEF Expect, BaseInv, TypeOK, waitVars
<1> QED
  BY <1>1, <1>2, <1>3, <1>4, <1>5, <1>6 DEF Expect, BaseInv

LEMMA GotHeaderBase == ASSUME BaseInv, GotHeader PROVE BaseInv'
BY GotPartBase DEF GotHeader

LEMMA GotBodyBase == ASSUME BaseInv, GotBody PROVE BaseInv'
BY GotPartBase DEF GotBody

LEMMA GotCloseBase == ASSUME BaseInv, GotClose PROVE BaseInv'
<1>1. PICK k \in {"Close", "CloseOk"}, how \in {"closed", "error"} : Receive(k) /\ SetClosed(how)
  BY DEF GotClose
<1>2. /\ toClient' \in Seq(Frame) /\ parsing' \in BOOLEAN /\ sock'
      /\ UNCHANGED <<handed, dropped, serving, sent, used>>
  BY <1>1, ReceiveFacts DEF BaseInv
<1>3. /\ closed' /\ consumers' \in SUBSET Consumer
      /\ ended' \in [Consumer -> {"no", "closed", "error"}]
      /\ timers' \in SUBSET Waiter /\ UNCHANGED <<holder, timer>>
      /\ waits' \in [Waiter -> [on : Consumer \cup {None},
                                state : {"none", "pending", "resolved", "rejected"}]]
      /\ consume' \in [Consumer -> PromiseState] /\ cancel' \in [Consumer -> PromiseState]
      /\ get' \in {"none", "asked", "empty", "rejected"} \cup Message
  BY <1>1, SetClosedType DEF BaseInv
<1>4. closed' = TRUE
  BY <1>1 DEF SetClosed
<1> QED
  BY <1>2, <1>3, <1>4 DEF GotClose, BaseInv, TypeOK, PartialInv, GrammarInv, Wired

LEMMA ConnectionEndsBase == ASSUME BaseInv, ConnectionEnds PROVE BaseInv'
<1>1. toClient' \in Seq(Frame) /\ toClient' = <<>> /\ sock' = FALSE /\ parsing' = FALSE
  BY DEF ConnectionEnds
<1>2. CASE attached' = FALSE /\ \E how \in {"closed", "error"} : SetClosed(how)
  <2>1. PICK how \in {"closed", "error"} : SetClosed(how)
    BY <1>2
  <2>2. /\ closed' /\ consumers' \in SUBSET Consumer
        /\ ended' \in [Consumer -> {"no", "closed", "error"}]
        /\ timers' \in SUBSET Waiter /\ UNCHANGED <<holder, timer>>
        /\ waits' \in [Waiter -> [on : Consumer \cup {None},
                                  state : {"none", "pending", "resolved", "rejected"}]]
        /\ consume' \in [Consumer -> PromiseState] /\ cancel' \in [Consumer -> PromiseState]
        /\ get' \in {"none", "asked", "empty", "rejected"} \cup Message
    BY <2>1, SetClosedType DEF BaseInv
  <2>3. closed' = TRUE
    BY <2>1 DEF SetClosed
  <2> QED
    BY <1>1, <1>2, <2>2, <2>3
       DEF ConnectionEnds, BaseInv, TypeOK, PartialInv, GrammarInv, Wired, handVars, serverVars
<1>3. CASE UNCHANGED <<attached, closed, consumers, ended, waitVars, promises>>
  BY <1>1, <1>3 DEF ConnectionEnds, BaseInv, TypeOK, PartialInv, GrammarInv, Wired, handVars, serverVars,
                    waitVars, promises
<1> QED
  BY <1>2, <1>3 DEF ConnectionEnds

\* A job runs.
LEMMA RunBase ==
    ASSUME BaseInv, NEW do, Run(do)
    PROVE  /\ jobs # <<>> /\ jobs \in Seq(Job) /\ Head(jobs) = jobs[1] /\ jobs[1] \in Job /\ jobs[1].do = do
           /\ 1 \in 1 .. Len(jobs) /\ jobs' = Tail(jobs) /\ jobs' \in Seq(Job)
           /\ toClient' \in Seq(Frame) /\ GrammarInv' /\ PartialInv' /\ (~sock' => toClient' = <<>>)
           /\ UNCHANGED <<closed, attached, sock, partial, missing, get, returned, parsing, toClient,
                          serving, sent, used>>
<1>1. jobs # <<>> /\ jobs \in Seq(Job) /\ Head(jobs).do = do
  BY DEF Run, BaseInv, TypeOK
<1>2. 1 \in 1 .. Len(jobs) /\ Head(jobs) = jobs[1] /\ jobs[1] \in Job
  BY <1>1
<1>3. jobs' = Tail(jobs) /\ Tail(jobs) \in Seq(Job)
  BY <1>1 DEF Run
<1>4. UNCHANGED <<closed, attached, sock, partial, missing, get, returned, parsing, toClient, serving, sent, used>>
  BY DEF Run, serverVars
<1>5. toClient' \in Seq(Frame) /\ GrammarInv' /\ PartialInv' /\ (~sock' => toClient' = <<>>)
  BY <1>4, IdleBase
<1> QED
  BY <1>1, <1>2, <1>3, <1>4, <1>5

LEMMA RegisterBase == ASSUME BaseInv, Register PROVE BaseInv'
<1>1. PICK c \in Consumer : c = Head(jobs).consumer
  BY RunBase, JobFacts DEF Register
<1>2. consume' \in [Consumer -> PromiseState] /\ consumers' \in SUBSET Consumer
  BY <1>1, PromiseStates, Updated DEF Register, BaseInv, TypeOK
<1> QED
  BY <1>2, RunBase, SMTT(30) DEF Register, BaseInv, TypeOK, waitVars

LEMMA CancelledBase == ASSUME BaseInv, Cancelled PROVE BaseInv'
<1>1. PICK c \in Consumer : c = Head(jobs).consumer
  BY RunBase, JobFacts DEF Cancelled
<1>2. cancel' \in [Consumer -> PromiseState] /\ consumers' \in SUBSET Consumer
  BY <1>1, PromiseStates, Updated DEF Cancelled, Forget, BaseInv, TypeOK
<1>3. /\ ended' \in [Consumer -> {"no", "closed", "error"}]
      /\ timers' \in SUBSET Waiter /\ UNCHANGED <<holder, timer>>
      /\ waits' \in [Waiter -> [on : Consumer \cup {None},
                                state : {"none", "pending", "resolved", "rejected"}]]
  BY EndConsumersType DEF Cancelled, BaseInv
<1> QED
  BY <1>2, <1>3, RunBase, SMTT(30) DEF Cancelled, BaseInv, TypeOK

LEMMA DeliverBase == ASSUME BaseInv, Deliver PROVE BaseInv'
<1>1. PICK c \in Consumer, m \in Message : c = Head(jobs).consumer /\ m = Head(jobs).message
  BY RunBase, JobFacts DEF Deliver
<1>2. handed' \in [Consumer -> Seq(Message)]
  <2>1. handed' = handed \/ handed' = [handed EXCEPT ![c] = Append(handed[c], m)]
    BY <1>1 DEF Deliver
  <2>2. handed \in [Consumer -> Seq(Message)] /\ Append(handed[c], m) \in Seq(Message)
    BY DEF BaseInv, TypeOK
  <2> QED
    BY <2>1, <2>2, Updated
<1>3. dropped' \in SUBSET Message
  BY <1>1 DEF Deliver, BaseInv, TypeOK
<1> QED
  BY <1>2, <1>3, RunBase, SMTT(30) DEF Deliver, BaseInv, TypeOK, waitVars

LEMMA ServerDeliversBase ==
    ASSUME BaseInv, NEW c \in Consumer, NEW m \in Message, NEW k \in 0 .. MaxBodies, ServerDelivers(c, m, k)
    PROVE  BaseInv'
<1> DEFINE f == [frame |-> "Deliver", consumer |-> c, message |-> m]
<1>1. f \in Frame /\ f.frame \in Methods
  BY FramesMade DEF Methods
<1>2. toClient' \in Seq(Frame) /\ GrammarInv' /\ PartialInv' /\ (~sock' => toClient' = <<>>)
  BY <1>1, WholeContent, PutBase DEF ServerDelivers, Server, chanVars
<1>3. sent' \in [Consumer -> Seq(Message)]
  <2>1. sent \in [Consumer -> Seq(Message)] /\ Append(sent[c], m) \in Seq(Message)
    BY DEF BaseInv, TypeOK
  <2> QED
    BY <2>1, Updated DEF ServerDelivers
<1>4. used' \in SUBSET Message
  BY DEF ServerDelivers, BaseInv, TypeOK
<1> QED
  BY <1>2, <1>3, <1>4 DEF ServerDelivers, Server, BaseInv, TypeOK, chanVars, promises, handVars, waitVars

LEMMA ServerReturnsBase ==
    ASSUME BaseInv, NEW m \in Message, NEW k \in 0 .. MaxBodies, ServerReturns(m, k)
    PROVE  BaseInv'
<1> DEFINE f == [frame |-> "Return", message |-> m]
<1>1. f \in Frame /\ f.frame \in Methods
  BY FramesMade DEF Methods
<1>2. toClient' \in Seq(Frame) /\ GrammarInv' /\ PartialInv' /\ (~sock' => toClient' = <<>>)
  BY <1>1, WholeContent, PutBase DEF ServerReturns, Server, chanVars
<1>3. used' \in SUBSET Message
  BY DEF ServerReturns, BaseInv, TypeOK
<1> QED
  BY <1>2, <1>3 DEF ServerReturns, Server, BaseInv, TypeOK, chanVars, promises, handVars, waitVars

LEMMA ServerCancelsBase == ASSUME BaseInv, NEW c \in Consumer, ServerCancels(c) PROVE BaseInv'
<1> DEFINE f == [frame |-> "Cancel", consumer |-> c]
<1>1. f \in Frame /\ f.frame \notin Methods \cup {"Header", "Body"}
  BY FramesMade DEF Methods
<1>2. toClient' \in Seq(Frame) /\ GrammarInv' /\ PartialInv' /\ (~sock' => toClient' = <<>>)
  BY <1>1, WholeSingle, PutBase DEF ServerCancels, Server, chanVars
<1>3. serving' \in [open : BOOLEAN, consumers : SUBSET Consumer]
  BY DEF ServerCancels, BaseInv, TypeOK
<1> QED
  BY <1>2, <1>3 DEF ServerCancels, Server, BaseInv, TypeOK, chanVars, promises, handVars, waitVars

LEMMA ServerClosesBase == ASSUME BaseInv, ServerCloses PROVE BaseInv'
<1> DEFINE f == [frame |-> "Close"]
<1>1. f \in Frame /\ f.frame \notin Methods \cup {"Header", "Body"}
  BY FramesMade DEF Methods
<1>2. toClient' \in Seq(Frame) /\ GrammarInv' /\ PartialInv' /\ (~sock' => toClient' = <<>>)
  BY <1>1, WholeSingle, PutBase DEF ServerCloses, Server, chanVars
<1>3. serving' \in [open : BOOLEAN, consumers : SUBSET Consumer]
  BY DEF ServerCloses
<1> QED
  BY <1>2, <1>3 DEF ServerCloses, Server, BaseInv, TypeOK, chanVars, promises, handVars, waitVars

LEMMA StutterBase == ASSUME BaseInv, UNCHANGED vars PROVE BaseInv'
<1>1. toClient' \in Seq(Frame) /\ GrammarInv' /\ PartialInv'
  BY IdleBase DEF vars, chanVars
<1> QED
  BY <1>1 DEF vars, BaseInv, TypeOK, chanVars, promises, handVars, waitVars, serverVars

LEMMA BaseInvariance == Spec => []BaseInv
<1>1. ASSUME BaseInv, [Next]_vars PROVE BaseInv'
  <2>1. CASE Application
    BY <1>1, <2>1, BasicConsumeBase, CancelBase, WaitBase, BasicGetBase, CloseChannelBase DEF Application
  <2>2. CASE Handler
    BY <1>1, <2>2, SkipFrameBase, GotConsumeOkBase, GotCancelOkBase, GotCancelBase, GotGetEmptyBase,
       GotMethodBase, GotHeaderBase, GotBodyBase, GotCloseBase, RegisterBase, CancelledBase, DeliverBase
       DEF Handler
  <2>3. CASE Broker
    BY <1>1, <2>3, ServerClosesBase, ServerCancelsBase, ServerReturnsBase, ServerDeliversBase DEF Broker
  <2>4. CASE ConnectionEnds \/ \E w \in Waiter : Timeout(w)
    BY <1>1, <2>4, ConnectionEndsBase, TimeoutBase
  <2>5. CASE UNCHANGED vars
    BY <1>1, <2>5, StutterBase
  <2> QED
    BY <1>1, <2>1, <2>2, <2>3, <2>4, <2>5 DEF Next
<1> QED
  BY <1>1, InitBase, PTL DEF Spec

\* Every state has its type: in particular the frame that completes a message finds one to
\* complete (onMessageReady is not called without), and bodySize is never exceeded.
THEOREM TypeCorrect == Spec => []TypeOK
<1>1. BaseInv => TypeOK
  BY DEF BaseInv
<1> QED
  BY <1>1, BaseInvariance, PTL

----------------------------------------------------------------------------
(* What is due: the jobs, the message being assembled and the frames on the wire, as one
   row.  Most steps move things along the row and keep their order. *)

Registration(c) == [do |-> "register", consumer |-> c]
Cancellation(c) == [do |-> "cancelled", consumer |-> c]
Delivery(c, m)  == [do |-> "deliver", consumer |-> c, message |-> m]

\* The job that a frame leads to
Becomes(f, x) ==
    \/ f.frame = "ConsumeOk" /\ x = Registration(f.consumer)
    \/ f.frame = "CancelOk"  /\ x = Cancellation(f.consumer)
    \/ f.frame = "Deliver"   /\ x = Delivery(f.consumer, f.message)
Silent(f) == f.frame \notin {"ConsumeOk", "CancelOk", "Deliver"}

\* Job x is at place i of the row of the jobs q and the frames w.
DueIn(q, w, i, x) ==
    \/ i \in 1 .. Len(q) /\ q[i] = x
    \/ \E k \in 1 .. Len(w) : i = Len(q) + k /\ Becomes(w[k], x)

Backlog == IF partial.delivery = None THEN jobs
           ELSE Append(jobs, Delivery(partial.consumer, partial.delivery))
Wire == IF Wired THEN toClient ELSE <<>>
Due(i, x) == DueIn(Backlog, Wire, i, x)

Was(i, t) == IF i < t THEN i ELSE i + 1

LEMMA JobsDiffer ==
    /\ \A c, d : Registration(c) = Registration(d) => c = d
    /\ \A c, d : Cancellation(c) = Cancellation(d) => c = d
    /\ \A c, d, m, n : Delivery(c, m) = Delivery(d, n) => c = d /\ m = n
    /\ \A c, d : Registration(c) # Cancellation(d)
    /\ \A c, d, m : Registration(c) # Delivery(d, m) /\ Cancellation(c) # Delivery(d, m)
<1>1. \A c : Registration(c).do = "register" /\ Registration(c).consumer = c
  BY DEF Registration
<1>2. \A c : Cancellation(c).do = "cancelled" /\ Cancellation(c).consumer = c
  BY DEF Cancellation
<1>3. \A c, m : Delivery(c, m).do = "deliver" /\ Delivery(c, m).consumer = c /\ Delivery(c, m).message = m
  BY DEF Delivery
<1>4. "register" # "cancelled" /\ "register" # "deliver" /\ "cancelled" # "deliver"
  OBVIOUS
<1>5. (\A c, d : Registration(c) = Registration(d) => c = d) /\ \A c, d : Cancellation(c) = Cancellation(d) => c = d
  BY <1>1, <1>2
<1>6. \A c, d, m, n : Delivery(c, m) = Delivery(d, n) => c = d /\ m = n
  BY <1>3
<1>7. \A c, d : Registration(c) # Cancellation(d)
  BY <1>1, <1>2, <1>4
<1>8. \A c, d, m : Registration(c) # Delivery(d, m) /\ Cancellation(c) # Delivery(d, m)
  BY <1>1, <1>2, <1>3, <1>4
<1> QED
  BY <1>5, <1>6, <1>7, <1>8

LEMMA JobForms ==
    /\ \A c \in Consumer : Registration(c) \in Job /\ Cancellation(c) \in Job
    /\ \A c \in Consumer, m \in Message : Delivery(c, m) \in Job
    /\ \A x \in Job : /\ x.do = "register" => x = Registration(x.consumer)
                      /\ x.do = "cancelled" => x = Cancellation(x.consumer)
                      /\ x.do = "deliver" => x = Delivery(x.consumer, x.message)
BY DEF Job, Registration, Cancellation, Delivery

LEMMA SilentFrames == ASSUME NEW f, Silent(f), NEW x PROVE ~Becomes(f, x)
BY DEF Silent, Becomes

LEMMA DueRange ==
    ASSUME NEW q \in Seq(Job), NEW w \in Seq(Frame), NEW i, NEW x, DueIn(q, w, i, x)
    PROVE  i \in 1 .. Len(q) + Len(w)
<1>1. Len(q) \in Nat /\ Len(w) \in Nat
  OBVIOUS
<1> QED
  BY <1>1 DEF DueIn

\* A frame that leads to nothing is read.
LEMMA DuePassed ==
    ASSUME NEW q \in Seq(Job), NEW w \in Seq(Frame), w # <<>>, \A x : ~Becomes(w[1], x)
    PROVE  /\ \A x : ~DueIn(q, w, Len(q) + 1, x)
           /\ \A i \in Nat : \A x : DueIn(q, Tail(w), i, x) <=> DueIn(q, w, Was(i, Len(q) + 1), x)
<1> DEFINE v == Tail(w)
<1>1. Len(q) \in Nat /\ Len(w) \in Nat /\ Len(w) > 0 /\ Len(v) = Len(w) - 1
  OBVIOUS
<1>2. \A k \in 1 .. Len(v) : v[k] = w[k + 1]
  OBVIOUS
<1> HIDE DEF v
<1>3. ASSUME NEW x PROVE ~DueIn(q, w, Len(q) + 1, x)
  BY <1>1 DEF DueIn
<1>4. ASSUME NEW i \in Nat, NEW x, i < Len(q) + 1
      PROVE  DueIn(q, v, i, x) <=> DueIn(q, w, i, x)
  BY <1>1, <1>4 DEF DueIn
<1>5. ASSUME NEW i \in Nat, NEW x, ~(i < Len(q) + 1)
      PROVE  DueIn(q, v, i, x) <=> DueIn(q, w, i + 1, x)
  <2>1. ASSUME DueIn(q, v, i, x) PROVE DueIn(q, w, i + 1, x)
    <3>1. PICK k \in 1 .. Len(v) : i = Len(q) + k /\ Becomes(v[k], x)
      BY <1>1, <1>5, <2>1 DEF DueIn
    <3>2. k + 1 \in 1 .. Len(w) /\ i + 1 = Len(q) + (k + 1)
      BY <1>1, <3>1
    <3>3. Becomes(w[k + 1], x)
      BY <1>2, <3>1
    <3> QED
      BY <3>2, <3>3 DEF DueIn
  <2>2. ASSUME DueIn(q, w, i + 1, x) PROVE DueIn(q, v, i, x)
    <3>1. PICK k \in 1 .. Len(w) : i + 1 = Len(q) + k /\ Becomes(w[k], x)
      BY <1>1, <1>5, <2>2 DEF DueIn
    <3>2. k # 1
      BY <3>1
    <3>3. k - 1 \in 1 .. Len(v) /\ i = Len(q) + (k - 1) /\ (k - 1) + 1 = k
      BY <1>1, <3>1, <3>2
    <3>4. Becomes(v[k - 1], x)
      BY <1>2, <3>1, <3>3
    <3> QED
      BY <3>3, <3>4 DEF DueIn
  <2> QED
    BY <2>1, <2>2
<1>6. ASSUME NEW i \in Nat, NEW x PROVE DueIn(q, v, i, x) <=> DueIn(q, w, Was(i, Len(q) + 1), x)
  BY <1>4, <1>5 DEF Was
<1> QED
  BY <1>3, <1>6 DEF v

\* A frame is read and has become a job.
LEMMA DueMoved ==
    ASSUME NEW q \in Seq(Job), NEW w \in Seq(Frame), w # <<>>, NEW y \in Job,
           \A x : Becomes(w[1], x) <=> x = y
    PROVE  \A i \in Nat : \A x : DueIn(Append(q, y), Tail(w), i, x) <=> DueIn(q, w, i, x)
<1> DEFINE v == Tail(w)
           r == Append(q, y)
<1>1. Len(q) \in Nat /\ Len(w) \in Nat /\ Len(w) > 0 /\ Len(v) = Len(w) - 1 /\ Len(r) = Len(q) + 1
  OBVIOUS
<1>2. \A k \in 1 .. Len(v) : v[k] = w[k + 1]
  OBVIOUS
<1>3. r[Len(q) + 1] = y /\ \A k \in 1 .. Len(q) : r[k] = q[k]
  OBVIOUS
<1> HIDE DEF v, r
<1>4. ASSUME NEW i \in Nat, NEW x, DueIn(r, v, i, x) PROVE DueIn(q, w, i, x)
  <2>1. CASE i \in 1 .. Len(q)
    BY <1>1, <1>3, <1>4, <2>1 DEF DueIn
  <2>2. CASE i = Len(q) + 1
    <3>1. x = y
      BY <1>1, <1>3, <1>4, <2>2 DEF DueIn
    <3> QED
      BY <1>1, <2>2, <3>1 DEF DueIn
  <2>3. CASE i > Len(q) + 1
    <3>1. PICK k \in 1 .. Len(v) : i = Len(r) + k /\ Becomes(v[k], x)
      BY <1>1, <1>4, <2>3 DEF DueIn
    <3>2. k + 1 \in 1 .. Len(w) /\ i = Len(q) + (k + 1)
      BY <1>1, <3>1
    <3>3. Becomes(w[k + 1], x)
      BY <1>2, <3>1
    <3> QED
      BY <3>2, <3>3 DEF DueIn
  <2>4. i # 0
    BY <1>1, <1>4 DEF DueIn
  <2> QED
    BY <1>1, <2>1, <2>2, <2>3, <2>4
<1>5. ASSUME NEW i \in Nat, NEW x, DueIn(q, w, i, x) PROVE DueIn(r, v, i, x)
  <2>1. CASE i \in 1 .. Len(q)
    BY <1>1, <1>3, <1>5, <2>1 DEF DueIn
  <2>2. CASE \E k \in 1 .. Len(w) : i = Len(q) + k /\ Becomes(w[k], x)
    <3>1. PICK k \in 1 .. Len(w) : i = Len(q) + k /\ Becomes(w[k], x)
      BY <2>2
    <3>2. CASE k = 1
      <4>1. i = Len(q) + 1 /\ x = y
        BY <3>1, <3>2
      <4> QED
        BY <1>1, <1>3, <4>1 DEF DueIn
    <3>3. CASE k # 1
      <4>1. k - 1 \in 1 .. Len(v) /\ i = Len(r) + (k - 1) /\ (k - 1) + 1 = k
        BY <1>1, <3>1, <3>3
      <4>2. Becomes(v[k - 1], x)
        BY <1>2, <3>1, <4>1
      <4> QED
        BY <4>1, <4>2 DEF DueIn
    <3> QED
      BY <3>2, <3>3
  <2> QED
    BY <1>5, <2>1, <2>2 DEF DueIn
<1> QED
  BY <1>4, <1>5 DEF v, r

\* A job runs.
LEMMA DueRan ==
    ASSUME NEW q \in Seq(Job), NEW w \in Seq(Frame), q # <<>>
    PROVE  \A i \in Nat : \A x : DueIn(Tail(q), w, i, x) <=> i # 0 /\ DueIn(q, w, i + 1, x)
<1> DEFINE r == Tail(q)
<1>1. Len(q) \in Nat /\ Len(w) \in Nat /\ Len(q) > 0 /\ Len(r) = Len(q) - 1
  OBVIOUS
<1>2. \A k \in 1 .. Len(r) : r[k] = q[k + 1]
  OBVIOUS
<1> HIDE DEF r
<1>3. ASSUME NEW i \in Nat, NEW x PROVE DueIn(r, w, i, x) <=> i # 0 /\ DueIn(q, w, i + 1, x)
  <2>1. CASE i = 0
    BY <1>1, <2>1 DEF DueIn
  <2>2. CASE i \in 1 .. Len(r)
    <3>1. i + 1 \in 1 .. Len(q) /\ r[i] = q[i + 1] /\ i # 0
      BY <1>1, <1>2, <2>2
    <3> QED
      BY <1>1, <2>2, <3>1 DEF DueIn
  <2>3. CASE i > Len(r)
    <3>1. \A k \in 1 .. Len(w) : i = Len(r) + k <=> i + 1 = Len(q) + k
      BY <1>1
    <3>2. i # 0 /\ i + 1 \notin 1 .. Len(q) /\ i \notin 1 .. Len(r)
      BY <1>1, <2>3
    <3> QED
      BY <3>1, <3>2 DEF DueIn
  <2> QED
    BY <1>1, <2>1, <2>2, <2>3
<1> QED
  BY <1>3 DEF r

\* The wire is cut.
LEMMA DueCut ==
    ASSUME NEW q \in Seq(Job), NEW w \in Seq(Frame)
    PROVE  \A i \in Nat : \A x : DueIn(q, <<>>, i, x) <=> DueIn(q, w, i, x) /\ i <= Len(q)
<1>1. Len(q) \in Nat /\ Len(<<>>) = 0 /\ Len(w) \in Nat
  OBVIOUS
<1> QED
  BY <1>1 DEF DueIn

\* Frames are put on the wire, of which only the first leads to something.
LEMMA DuePut ==
    ASSUME NEW q \in Seq(Job), NEW w \in Seq(Frame), NEW f \in Seq(Frame), f # <<>>,
           \A k \in 1 .. Len(f) : k # 1 => Silent(f[k])
    PROVE  \A i \in Nat : \A x : DueIn(q, w \o f, i, x) <=>
               DueIn(q, w, i, x) \/ (i = Len(q) + Len(w) + 1 /\ Becomes(f[1], x))
<1> DEFINE v == w \o f
<1>1. Len(q) \in Nat /\ Len(w) \in Nat /\ Len(f) \in Nat /\ Len(f) > 0 /\ Len(v) = Len(w) + Len(f)
  OBVIOUS
<1>2. (\A k \in 1 .. Len(w) : v[k] = w[k]) /\ \A k \in 1 .. Len(f) : v[Len(w) + k] = f[k]
  OBVIOUS
<1> HIDE DEF v
<1>3. ASSUME NEW i \in Nat, NEW x, DueIn(q, v, i, x)
      PROVE  DueIn(q, w, i, x) \/ (i = Len(q) + Len(w) + 1 /\ Becomes(f[1], x))
  <2>1. CASE i \in 1 .. Len(q) /\ q[i] = x
    BY <2>1 DEF DueIn
  <2>2. CASE \E k \in 1 .. Len(v) : i = Len(q) + k /\ Becomes(v[k], x)
    <3>1. PICK k \in 1 .. Len(v) : i = Len(q) + k /\ Becomes(v[k], x)
      BY <2>2
    <3>2. CASE k \in 1 .. Len(w)
      BY <1>2, <3>1, <3>2 DEF DueIn
    <3>3. CASE k \notin 1 .. Len(w)
      <4>1. k - Len(w) \in 1 .. Len(f) /\ k = Len(w) + (k - Len(w))
        BY <1>1, <3>3
      <4>2. Becomes(f[k - Len(w)], x)
        BY <1>2, <3>1, <4>1
      <4>3. k - Len(w) = 1
        BY <4>1, <4>2, SilentFrames
      <4> QED
        BY <1>1, <3>1, <4>2, <4>3
    <3> QED
      BY <3>2, <3>3
  <2> QED
    BY <1>3, <2>1, <2>2 DEF DueIn
<1>4. ASSUME NEW i \in Nat, NEW x, DueIn(q, w, i, x) PROVE DueIn(q, v, i, x)
  <2>1. \A k \in 1 .. Len(w) : k \in 1 .. Len(v)
    BY <1>1
  <2> QED
    BY <1>2, <1>4, <2>1 DEF DueIn
<1>5. ASSUME NEW i \in Nat, NEW x, i = Len(q) + Len(w) + 1, Becomes(f[1], x) PROVE DueIn(q, v, i, x)
  <2>1. Len(w) + 1 \in 1 .. Len(v) /\ i = Len(q) + (Len(w) + 1) /\ v[Len(w) + 1] = f[1]
    BY <1>1, <1>2, <1>5
  <2> QED
    BY <1>5, <2>1 DEF DueIn
<1> QED
  BY <1>3, <1>4, <1>5 DEF v

\* What a step does to the row
Same      == \A i \in Nat, x \in Job : Due(i, x)' <=> Due(i, x)
Passed(t) == /\ \A x \in Job : ~Due(t, x)
             /\ \A i \in Nat, x \in Job : Due(i, x)' <=> Due(Was(i, t), x)
Ran       == \A i \in Nat, x \in Job : Due(i, x)' <=> i # 0 /\ Due(i + 1, x)
Cut       == \A i \in Nat, x \in Job : Due(i, x)' <=> Due(i, x) /\ i <= Len(Backlog)
End       == Len(Backlog) + Len(Wire) + 1
Added(y)  == \A i \in Nat, x \in Job : Due(i, x)' <=> Due(i, x) \/ (i = End /\ x = y)

LEMMA RowType ==
    ASSUME BaseInv
    PROVE  /\ Backlog \in Seq(Job) /\ Wire \in Seq(Frame) /\ Len(Backlog) \in Nat /\ Len(Wire) \in Nat
           /\ Len(jobs) \in Nat /\ Len(jobs) <= Len(Backlog)
<1>1. jobs \in Seq(Job) /\ Wire \in Seq(Frame)
  BY DEF BaseInv, TypeOK, Wire
<1>2. Backlog \in Seq(Job) /\ Len(jobs) <= Len(Backlog)
  <2>1. CASE partial.delivery = None
    BY <1>1, <2>1 DEF Backlog
  <2>2. CASE partial.delivery # None
    <3>1. partial.delivery \in Message /\ partial.consumer \in Consumer
      BY <2>2 DEF BaseInv, TypeOK, PartialInv
    <3>2. Delivery(partial.consumer, partial.delivery) \in Job
      BY <3>1, JobForms
    <3> QED
      BY <1>1, <2>2, <3>2 DEF Backlog
  <2> QED
    BY <2>1, <2>2
<1> QED
  BY <1>1, <1>2

LEMMA DueHere == ASSUME BaseInv, NEW i, NEW x, Due(i, x) PROVE i \in 1 .. End - 1
BY RowType, DueRange DEF Due, End

LEMMA SameRow == ASSUME UNCHANGED <<Backlog, Wire>> PROVE Same
BY DEF Same, Due

\* Frames put on the wire.
LEMMA PutRow ==
    ASSUME BaseInv, UNCHANGED <<attached, sock, partial, jobs>>, NEW f \in Seq(Frame), f # <<>>,
           \A k \in 1 .. Len(f) : k # 1 => Silent(f[k]), toClient' = toClient \o f
    PROVE  /\ Silent(f[1]) => Same
           /\ ~Wired => Same
           /\ \A y : Wired /\ (\A x : Becomes(f[1], x) <=> x = y) => Added(y)
<1>1. Backlog' = Backlog /\ Backlog \in Seq(Job) /\ Wire \in Seq(Frame) /\ Wired' = Wired
  BY RowType DEF Backlog, Wired
<1>2. CASE ~Wired
  BY <1>1, <1>2, SameRow DEF Wire
<1>3. CASE Wired
  <2>1. Wire' = Wire \o f
    BY <1>1, <1>3 DEF Wire
  <2>2. \A i \in Nat : \A x : Due(i, x)' <=> Due(i, x) \/ (i = End /\ Becomes(f[1], x))
    BY <1>1, <2>1, DuePut DEF Due, End
  <2>3. Silent(f[1]) => Same
    BY <2>2, SilentFrames DEF Same
  <2>4. \A y : (\A x : Becomes(f[1], x) <=> x = y) => Added(y)
    BY <2>2 DEF Added
  <2> QED
    BY <1>3, <2>3, <2>4
<1> QED
  BY <1>2, <1>3

LEMMA SilentSingle ==
    ASSUME NEW f
    PROVE  /\ <<f>> # <<>> /\ <<f>>[1] = f
           /\ \A k \in 1 .. Len(<<f>>) : k # 1 => Silent(<<f>>[k])
OBVIOUS

LEMMA SilentContent ==
    ASSUME NEW f \in Frame, NEW k \in 0 .. MaxBodies
    PROVE  /\ Content(f, k) # <<>> /\ Content(f, k)[1] = f
           /\ \A i \in 1 .. Len(Content(f, k)) : i # 1 => Silent(Content(f, k)[i])
<1> DEFINE s == Content(f, k)
<1>1. /\ s \in Seq(Frame) /\ Len(s) = k + 2 /\ s[1] = f /\ s[2].frame = "Header" /\ s[2].bodies = k
      /\ \A j \in 1 .. k : s[j + 2].frame = "Body"
  BY ContentFacts
<1> HIDE DEF s
<1>2. k \in Nat
  OBVIOUS
<1>3. \A i \in 1 .. Len(s) : i = 1 \/ i = 2 \/ (i - 2 \in 1 .. k /\ i = (i - 2) + 2)
  BY <1>1, <1>2
<1>4. \A i \in 1 .. Len(s) : i # 1 => s[i].frame \in {"Header", "Body"}
  BY <1>1, <1>3
<1>5. s # <<>>
  BY <1>1, <1>2
<1> QED
  BY <1>1, <1>4, <1>5 DEF s, Silent

\* A frame is taken that leads to nothing, and none is completed by it.
LEMMA PassedRow ==
    ASSUME BaseInv, attached, attached', NEW k, k \notin {"ConsumeOk", "CancelOk", "Deliver"}, Receive(k),
           Backlog' = Backlog
    PROVE  Passed(Len(Backlog) + 1)
<1>1. /\ toClient # <<>> /\ toClient \in Seq(Frame) /\ toClient[1].frame = k /\ toClient' = Tail(toClient)
      /\ sock /\ sock'
  BY ReceiveFacts DEF BaseInv
<1>2. Wire = toClient /\ Wire' = Tail(toClient)
  BY <1>1 DEF Wire, Wired
<1>3. Silent(toClient[1])
  BY <1>1 DEF Silent
<1>4. Backlog \in Seq(Job)
  BY RowType
<1>5. /\ \A x : ~DueIn(Backlog, Wire, Len(Backlog) + 1, x)
      /\ \A i \in Nat : \A x : DueIn(Backlog, Wire', i, x) <=> DueIn(Backlog, Wire, Was(i, Len(Backlog) + 1), x)
  BY <1>1, <1>2, <1>3, <1>4, SilentFrames, DuePassed
<1> QED
  BY <1>5 DEF Passed, Due

\* A frame is taken and becomes a job.
LEMMA MovedRow ==
    ASSUME BaseInv, attached, attached', NEW k, Receive(k), NEW y \in Job,
           \A x : Becomes(Head(toClient), x) <=> x = y, Backlog' = Append(Backlog, y)
    PROVE  Same
<1>1. /\ toClient # <<>> /\ toClient \in Seq(Frame) /\ toClient[1] = Head(toClient) /\ toClient' = Tail(toClient)
      /\ sock /\ sock'
  BY ReceiveFacts DEF BaseInv
<1>2. Wire = toClient /\ Wire' = Tail(toClient)
  BY <1>1 DEF Wire, Wired
<1>3. Backlog \in Seq(Job)
  BY RowType
<1>4. Wire \in Seq(Frame) /\ Wire # <<>> /\ \A x : Becomes(Wire[1], x) <=> x = y
  BY <1>1, <1>2
<1>5. \A i \in Nat : \A x : DueIn(Append(Backlog, y), Tail(Wire), i, x) <=> DueIn(Backlog, Wire, i, x)
  BY <1>3, <1>4, DueMoved
<1> QED
  BY <1>2, <1>5 DEF Same, Due

\* What each step does to the row.
LEMMA BasicConsumeRow ==
    ASSUME BaseInv, NEW c \in Consumer, BasicConsume(c)
    PROVE  \/ /\ Added(Registration(c)) /\ Wired /\ consume' = [consume EXCEPT ![c] = "asked"]
              /\ serving' = [serving EXCEPT !.consumers = serving.consumers \cup {c}]
           \/ /\ Same /\ serving' = serving
              /\ consume' = [consume EXCEPT ![c] = "asked"] \/ consume' = [consume EXCEPT ![c] = "rejected"]
<1> DEFINE f == [frame |-> "ConsumeOk", consumer |-> c]
<1>1. CASE UNCHANGED <<toClient, serving>>
  BY <1>1, SameRow DEF BasicConsume, chanVars, Backlog, Wire, Wired
<1>2. CASE /\ Usable /\ serving.open /\ Put(<<f>>)
           /\ serving' = [serving EXCEPT !.consumers = serving.consumers \cup {c}]
           /\ consume' = [consume EXCEPT ![c] = "asked"]
  <2>1. <<f>> \in Seq(Frame)
    <3>1. PICK g \in Frame : g = f
      BY FramesMade
    <3>2. <<g>> \in Seq(Frame)
      OBVIOUS
    <3> QED
      BY <3>1, <3>2
  <2>2. \A x : Becomes(f, x) <=> x = Registration(c)
    BY DEF Becomes
  <2>3. Wired
    BY <1>2 DEF Usable, BaseInv, Wired
  <2>4. UNCHANGED <<attached, sock, partial, jobs>> /\ toClient' = toClient \o <<f>>
    BY <1>2 DEF BasicConsume, chanVars, Put
  <2>5. <<f>> # <<>> /\ <<f>>[1] = f /\ \A k \in 1 .. Len(<<f>>) : k # 1 => Silent(<<f>>[k])
    BY SilentSingle
  <2> HIDE DEF f
  <2>6. \A x : Becomes(<<f>>[1], x) <=> x = Registration(c)
    BY <2>2, <2>5
  <2>7. Added(Registration(c))
    BY <2>1, <2>3, <2>4, <2>5, <2>6, PutRow
  <2> QED
    BY <1>2, <2>3, <2>7
<1> QED
  BY <1>1, <1>2 DEF BasicConsume, Answer

LEMMA CancelRow ==
    ASSUME BaseInv, NEW c \in Consumer, Cancel(c)
    PROVE  \/ /\ Added(Cancellation(c)) /\ Wired
              /\ serving' = [serving EXCEPT !.consumers = serving.consumers \ {c}]
           \/ Same /\ serving' = serving
<1> DEFINE f == [frame |-> "CancelOk", consumer |-> c]
<1>1. CASE UNCHANGED <<toClient, serving>>
  BY <1>1, SameRow DEF Cancel, chanVars, Backlog, Wire, Wired
<1>2. CASE /\ Usable /\ serving.open /\ Put(<<f>>)
           /\ serving' = [serving EXCEPT !.consumers = serving.consumers \ {c}]
  <2>1. <<f>> \in Seq(Frame)
    <3>1. PICK g \in Frame : g = f
      BY FramesMade
    <3>2. <<g>> \in Seq(Frame)
      OBVIOUS
    <3> QED
      BY <3>1, <3>2
  <2>2. \A x : Becomes(f, x) <=> x = Cancellation(c)
    BY DEF Becomes
  <2>3. Wired
    BY <1>2 DEF Usable, BaseInv, Wired
  <2>4. UNCHANGED <<attached, sock, partial, jobs>> /\ toClient' = toClient \o <<f>>
    BY <1>2 DEF Cancel, chanVars, Put
  <2>5. <<f>> # <<>> /\ <<f>>[1] = f /\ \A k \in 1 .. Len(<<f>>) : k # 1 => Silent(<<f>>[k])
    BY SilentSingle
  <2> HIDE DEF f
  <2>6. \A x : Becomes(<<f>>[1], x) <=> x = Cancellation(c)
    BY <2>2, <2>5
  <2>7. Added(Cancellation(c))
    BY <2>1, <2>3, <2>4, <2>5, <2>6, PutRow
  <2> QED
    BY <1>2, <2>3, <2>7
<1> QED
  BY <1>1, <1>2 DEF Cancel, Answer

\* One frame that leads to nothing
LEMMA SingleRow ==
    ASSUME BaseInv, UNCHANGED <<attached, sock, partial, jobs>>, NEW f \in Frame, Silent(f),
           toClient' = toClient \o <<f>>
    PROVE  Same
<1>1. <<f>> \in Seq(Frame) /\ <<f>> # <<>> /\ <<f>>[1] = f
  OBVIOUS
<1>2. \A k \in 1 .. Len(<<f>>) : k # 1 => Silent(<<f>>[k])
  BY SilentSingle
<1>3. Silent(<<f>>[1])
  BY <1>1
<1> QED
  BY <1>1, <1>2, <1>3, PutRow

\* A message
LEMMA ContentRow ==
    ASSUME BaseInv, UNCHANGED <<attached, sock, partial, jobs>>, NEW f \in Frame, NEW k \in 0 .. MaxBodies,
           f.frame \in Methods, toClient' = toClient \o Content(f, k)
    PROVE  /\ Silent(f) => Same
           /\ ~Wired => Same
           /\ \A y : Wired /\ (\A x : Becomes(f, x) <=> x = y) => Added(y)
<1>1. Content(f, k) \in Seq(Frame) /\ Content(f, k) # <<>> /\ Content(f, k)[1] = f
  BY SilentContent, WholeContent
<1>2. \A i \in 1 .. Len(Content(f, k)) : i # 1 => Silent(Content(f, k)[i])
  BY SilentContent
<1>3. PICK s : s = Content(f, k)
  OBVIOUS
<1>4. /\ s \in Seq(Frame) /\ s # <<>> /\ s[1] = f /\ toClient' = toClient \o s
      /\ \A i \in 1 .. Len(s) : i # 1 => Silent(s[i])
  BY <1>1, <1>2, <1>3
<1>5. /\ Silent(s[1]) => Same
      /\ ~Wired => Same
      /\ \A y : Wired /\ (\A x : Becomes(s[1], x) <=> x = y) => Added(y)
  BY <1>4, PutRow
<1> QED
  BY <1>4, <1>5

LEMMA BasicGetRow == ASSUME BaseInv, BasicGet PROVE Same
<1>1. CASE UNCHANGED toClient
  BY <1>1, SameRow DEF BasicGet, chanVars, Backlog, Wire, Wired
<1>2. CASE Put(<<[frame |-> "GetEmpty"]>>)
  <2>1. [frame |-> "GetEmpty"] \in Frame /\ Silent([frame |-> "GetEmpty"])
    BY FramesMade DEF Silent
  <2> QED
    BY <1>2, <2>1, SingleRow DEF BasicGet, chanVars, Put
<1>3. CASE \E m \in Message, k \in 0 .. MaxBodies : Put(Content([frame |-> "GetOk", message |-> m], k))
  <2>1. PICK m \in Message, k \in 0 .. MaxBodies : Put(Content([frame |-> "GetOk", message |-> m], k))
    BY <1>3
  <2>2. PICK f \in Frame : f = [frame |-> "GetOk", message |-> m]
    BY FramesMade
  <2>3. f.frame = "GetOk"
    BY <2>2
  <2>4. f.frame \in Methods /\ Silent(f)
    BY <2>3 DEF Methods, Silent
  <2>5. toClient' = toClient \o Content(f, k) /\ UNCHANGED <<attached, sock, partial, jobs>>
    BY <2>1, <2>2 DEF BasicGet, chanVars, Put
  <2> QED
    BY <2>4, <2>5, ContentRow
<1> QED
  BY <1>1, <1>2, <1>3 DEF BasicGet, Answer

LEMMA WaitingRow ==
    ASSUME UNCHANGED <<attached, sock, partial, jobs, toClient>>
    PROVE  Same
BY SameRow DEF Backlog, Wire, Wired

LEMMA CloseChannelRow == ASSUME BaseInv, CloseChannel PROVE Same
<1>1. [frame |-> "CloseOk"] \in Frame /\ Silent([frame |-> "CloseOk"])
  BY FramesMade DEF Silent
<1> QED
  BY <1>1, SingleRow DEF CloseChannel, Put

LEMMA SkipFrameRow == ASSUME BaseInv, SkipFrame PROVE Same
BY SameRow DEF SkipFrame, Backlog, Wire, Wired

LEMMA GotConsumeOkRow ==
    ASSUME BaseInv, GotConsumeOk
    PROVE  \E c \in Consumer : /\ Same /\ c = Head(toClient).consumer /\ consume' = [consume EXCEPT ![c] = "answered"]
                               /\ Due(Len(Backlog) + 1, Registration(c)) /\ Len(Backlog') = Len(Backlog) + 1
<1>1. /\ toClient[1] \in Frame /\ toClient[1] = Head(toClient) /\ toClient[1].frame = "ConsumeOk" /\ sock
      /\ toClient # <<>> /\ toClient \in Seq(Frame)
  BY ReceiveFacts DEF GotConsumeOk, BaseInv
<1>2. PICK c \in Consumer : c = Head(toClient).consumer
  BY <1>1, FrameFacts
<1>3. \A x : Becomes(Head(toClient), x) <=> x = Registration(c)
  BY <1>1, <1>2 DEF Becomes
<1>4. ~Begun
  BY ReceiveHead DEF GotConsumeOk
<1>5. Backlog = jobs /\ Backlog' = Append(jobs, Registration(c))
  BY <1>2, <1>4 DEF GotConsumeOk, Later, Backlog, Begun, Registration
<1>6. Registration(c) \in Job
  BY JobForms
<1>7. Same
  BY <1>3, <1>5, <1>6, MovedRow DEF GotConsumeOk
<1>8. Wire = toClient /\ Len(Backlog) \in Nat /\ Len(Wire) > 0
  BY <1>1, RowType DEF GotConsumeOk, Wire, Wired
<1>9. Due(Len(Backlog) + 1, Registration(c))
  <2>1. 1 \in 1 .. Len(Wire) /\ Becomes(Wire[1], Registration(c))
    BY <1>1, <1>3, <1>8
  <2> QED
    BY <2>1 DEF Due, DueIn
<1>10. Len(Backlog') = Len(Backlog) + 1
  BY <1>5, <1>6, RowType
<1> QED
  BY <1>2, <1>7, <1>9, <1>10 DEF GotConsumeOk

LEMMA GotCancelOkRow ==
    ASSUME BaseInv, GotCancelOk
    PROVE  /\ Same /\ Len(Backlog') = Len(Backlog) + 1 /\ ~Begun
           /\ \E c \in Consumer : Due(Len(Backlog) + 1, Cancellation(c))
<1>1. /\ toClient[1] \in Frame /\ toClient[1] = Head(toClient) /\ toClient[1].frame = "CancelOk" /\ sock
      /\ toClient # <<>> /\ toClient \in Seq(Frame)
  BY ReceiveFacts DEF GotCancelOk, BaseInv
<1>2. PICK c \in Consumer : c = Head(toClient).consumer
  BY <1>1, FrameFacts
<1>3. \A x : Becomes(Head(toClient), x) <=> x = Cancellation(c)
  BY <1>1, <1>2 DEF Becomes
<1>4. ~Begun
  BY ReceiveHead DEF GotCancelOk
<1>5. Backlog = jobs /\ Backlog' = Append(jobs, Cancellation(c))
  BY <1>2, <1>4 DEF GotCancelOk, Later, Backlog, Begun, Cancellation
<1>6. Cancellation(c) \in Job
  BY JobForms
<1>7. Len(Backlog') = Len(Backlog) + 1
  BY <1>5, <1>6, RowType
<1>8. Wire = toClient /\ Len(Backlog) \in Nat /\ Len(Wire) > 0
  BY <1>1, RowType DEF GotCancelOk, Wire, Wired
<1>9. Due(Len(Backlog) + 1, Cancellation(c))
  <2>1. 1 \in 1 .. Len(Wire) /\ Becomes(Wire[1], Cancellation(c))
    BY <1>1, <1>3, <1>8
  <2> QED
    BY <2>1 DEF Due, DueIn
<1>10. Same
  BY <1>3, <1>5, <1>6, MovedRow DEF GotCancelOk
<1> QED
  BY <1>4, <1>7, <1>9, <1>10

LEMMA GotCancelRow == ASSUME BaseInv, GotCancel PROVE Passed(Len(Backlog) + 1)
BY PassedRow DEF GotCancel, Backlog

LEMMA GotGetEmptyRow == ASSUME BaseInv, GotGetEmpty PROVE Passed(Len(Backlog) + 1)
BY PassedRow DEF GotGetEmpty, Backlog

LEMMA GotMethodRow ==
    ASSUME BaseInv, GotMethod
    PROVE  \/ Same /\ Len(Backlog') = Len(Backlog) + 1 /\ \E c \in Consumer, m \in Message :
                  Due(Len(Backlog) + 1, Delivery(c, m))
           \/ Passed(Len(Backlog) + 1) /\ Backlog' = Backlog
<1>1. ~Begun
  BY GotMethodBase
<1>2. Backlog = jobs
  BY <1>1 DEF Backlog, Begun
<1>3. CASE /\ Receive("Deliver")
           /\ partial' = [partial EXCEPT !.delivery = Head(toClient).message,
                                         !.consumer = Head(toClient).consumer]
  <2>1. /\ toClient[1] \in Frame /\ toClient[1] = Head(toClient) /\ toClient[1].frame = "Deliver" /\ sock
        /\ toClient # <<>> /\ toClient \in Seq(Frame)
    BY <1>3, ReceiveFacts DEF BaseInv
  <2>2. PICK c \in Consumer, m \in Message : c = Head(toClient).consumer /\ m = Head(toClient).message
    BY <2>1, FrameFacts DEF Methods
  <2>3. \A x : Becomes(Head(toClient), x) <=> x = Delivery(c, m)
    BY <2>1, <2>2 DEF Becomes
  <2>4. partial'.delivery = m /\ partial'.consumer = c /\ m # None
    BY <1>3, <2>2 DEF BaseInv, TypeOK
  <2>5. Backlog' = Append(jobs, Delivery(c, m))
    BY <2>4 DEF GotMethod, Backlog
  <2>6. Delivery(c, m) \in Job
    BY JobForms
  <2>7. Same
    BY <1>2, <1>3, <2>3, <2>5, <2>6, MovedRow DEF GotMethod
  <2>8. Len(Backlog') = Len(Backlog) + 1
    BY <1>2, <2>5, <2>6, RowType
  <2>9. Due(Len(Backlog) + 1, Delivery(c, m))
    <3>1. Wire = toClient /\ 1 \in 1 .. Len(Wire) /\ Becomes(Wire[1], Delivery(c, m))
      BY <2>1, <2>3 DEF GotMethod, Wire, Wired
    <3> QED
      BY <3>1 DEF Due, DueIn
  <2> QED
    BY <2>7, <2>8, <2>9
<1>4. CASE \/ Receive("GetOk") /\ partial' = [partial EXCEPT !.getMessage = Head(toClient).message]
           \/ Receive("Return") /\ partial' = [partial EXCEPT !.returned = Head(toClient).message]
  <2>1. partial'.delivery = None /\ partial'.consumer = partial.consumer
    BY <1>1, <1>4 DEF BaseInv, TypeOK, Begun
  <2>2. Backlog' = Backlog
    BY <1>2, <2>1 DEF GotMethod, Backlog
  <2>3. Passed(Len(Backlog) + 1)
    BY <1>4, <2>2, PassedRow DEF GotMethod
  <2> QED
    BY <2>2, <2>3
<1> QED
  BY <1>3, <1>4 DEF GotMethod

\* A message that is completed is a job at the place it had as the message in hand.
LEMMA GotPartRow ==
    ASSUME BaseInv, GotHeader \/ GotBody
    PROVE  Passed(Len(Backlog) + 1) /\ Backlog' = Backlog
<1>1. PICK k \in {"Header", "Body"} : Receive(k) /\ attached /\ \E left : Expect(left)
  BY DEF GotHeader, GotBody
<1>2. Backlog' = Backlog
  <2>1. partial.delivery = None <=> partial.consumer = None
    BY DEF BaseInv, PartialInv
  <2>2. partial \in [delivery : Message \cup {None}, consumer : Consumer \cup {None},
                     getMessage : Message \cup {None}, returned : Message \cup {None}]
    BY DEF BaseInv, TypeOK
  <2>3. CASE UNCHANGED <<partial, jobs>>
    BY <2>3 DEF Backlog
  <2>4. CASE /\ partial.delivery # None /\ partial' = DeliveryDone(partial)
             /\ Later([do |-> "deliver", consumer |-> partial.consumer, message |-> partial.delivery])
    <3>1. partial'.delivery = None
      BY <2>2, <2>4 DEF DeliveryDone
    <3> QED
      BY <2>4, <3>1 DEF Backlog, Later, Delivery
  <2>5. CASE partial.delivery = None /\ partial' = GetDone(partial) /\ UNCHANGED jobs
    <3>1. partial'.delivery = None
      BY <2>2, <2>5 DEF GetDone
    <3> QED
      BY <2>5, <3>1 DEF Backlog
  <2>6. CASE partial.delivery = None /\ partial' = [partial EXCEPT !.returned = None] /\ UNCHANGED jobs
    <3>1. partial'.delivery = None
      BY <2>2, <2>6
    <3> QED
      BY <2>6, <3>1 DEF Backlog
  <2> QED
    BY <1>1, <2>3, <2>4, <2>5, <2>6 DEF Expect, OnMessageReady
<1>3. attached'
  BY <1>1 DEF Expect
<1> QED
  BY <1>1, <1>2, <1>3, PassedRow

LEMMA CutRow ==
    ASSUME BaseInv, UNCHANGED <<partial, jobs>>, ~Wired'
    PROVE  Cut
<1>1. Backlog' = Backlog /\ Wire' = <<>>
  BY DEF Backlog, Wire
<1>2. \A i \in Nat : \A x : DueIn(Backlog, <<>>, i, x) <=> DueIn(Backlog, Wire, i, x) /\ i <= Len(Backlog)
  BY RowType, DueCut
<1> QED
  BY <1>1, <1>2 DEF Cut, Due

LEMMA RanRow ==
    ASSUME BaseInv, NEW do, Run(do)
    PROVE  /\ Ran /\ Due(1, jobs[1]) /\ Len(Backlog') = Len(Backlog) - 1 /\ Len(Backlog) > 0
           /\ \A x : Due(1, x) => x = jobs[1]
<1>1. /\ jobs # <<>> /\ jobs \in Seq(Job) /\ jobs' = Tail(jobs) /\ Len(jobs) \in Nat /\ Len(jobs) > 0
      /\ UNCHANGED <<attached, sock, partial, toClient>>
  BY RunBase
<1>2. Wire' = Wire
  BY <1>1 DEF Wire, Wired
<1>3. Backlog # <<>> /\ Backlog[1] = jobs[1] /\ Backlog' = Tail(Backlog)
  <2>1. CASE partial.delivery = None
    BY <1>1, <2>1 DEF Backlog
  <2>2. CASE partial.delivery # None
    <3>1. PICK y : y = Delivery(partial.consumer, partial.delivery)
      OBVIOUS
    <3>2. Backlog = Append(jobs, y) /\ Backlog' = Append(Tail(jobs), y)
      BY <1>1, <2>2, <3>1 DEF Backlog
    <3>3. y \in Job
      BY <2>2, <3>1, JobForms DEF BaseInv, TypeOK, PartialInv
    <3> QED
      BY <1>1, <3>2, <3>3
  <2> QED
    BY <2>1, <2>2
<1>4. Ran
  BY <1>2, <1>3, RowType, DueRan DEF Ran, Due
<1>5. Due(1, jobs[1]) /\ Len(Backlog) > 0 /\ Len(Backlog') = Len(Backlog) - 1
  BY <1>3, RowType DEF Due, DueIn
<1>6. ASSUME NEW x, Due(1, x) PROVE x = jobs[1]
  BY <1>3, <1>5, <1>6, RowType DEF Due, DueIn
<1> QED
  BY <1>4, <1>5, <1>6

LEMMA ServerDeliversRow ==
    ASSUME BaseInv, NEW c \in Consumer, NEW m \in Message, NEW k \in 0 .. MaxBodies, ServerDelivers(c, m, k)
    PROVE  (Wired => Added(Delivery(c, m))) /\ (~Wired => Same)
<1>1. PICK f \in Frame : f = [frame |-> "Deliver", consumer |-> c, message |-> m]
  BY FramesMade
<1>2. f.frame = "Deliver" /\ f.consumer = c /\ f.message = m
  BY <1>1
<1>3. f.frame \in Methods /\ \A x : Becomes(f, x) <=> x = Delivery(c, m)
  BY <1>2 DEF Methods, Becomes
<1>4. toClient' = toClient \o Content(f, k) /\ UNCHANGED <<attached, sock, partial, jobs>>
  BY <1>1 DEF ServerDelivers, Server, chanVars, Put
<1> QED
  BY <1>3, <1>4, ContentRow

LEMMA ServerReturnsRow ==
    ASSUME BaseInv, NEW m \in Message, NEW k \in 0 .. MaxBodies, ServerReturns(m, k)
    PROVE  Same
<1>1. PICK f \in Frame : f = [frame |-> "Return", message |-> m]
  BY FramesMade
<1>2. f.frame = "Return"
  BY <1>1
<1>3. f.frame \in Methods /\ Silent(f)
  BY <1>2 DEF Methods, Silent
<1>4. toClient' = toClient \o Content(f, k) /\ UNCHANGED <<attached, sock, partial, jobs>>
  BY <1>1 DEF ServerReturns, Server, chanVars, Put
<1> QED
  BY <1>3, <1>4, ContentRow

LEMMA ServerCancelsRow == ASSUME BaseInv, NEW c \in Consumer, ServerCancels(c) PROVE Same
<1>1. [frame |-> "Cancel", consumer |-> c] \in Frame /\ Silent([frame |-> "Cancel", consumer |-> c])
  BY FramesMade DEF Silent
<1> QED
  BY <1>1, SingleRow DEF ServerCancels, Server, chanVars, Put

LEMMA ServerClosesRow == ASSUME BaseInv, ServerCloses PROVE Same
<1>1. [frame |-> "Close"] \in Frame /\ Silent([frame |-> "Close"])
  BY FramesMade DEF Silent
<1> QED
  BY <1>1, SingleRow DEF ServerCloses, Server, chanVars, Put

----------------------------------------------------------------------------
(* A step that moves the jobs of J along the row: place t is free of them and goes, and
   so does all that is behind b, which only a channel that is cut off loses *)

Moves(J, t, b) ==
    /\ Wired' => Wired
    /\ Len(Backlog) <= b
    /\ \A x \in J : ~Due(t, x)
    /\ \A i \in Nat, x \in J : Due(i, x)' <=> Due(Was(i, t), x) /\ Was(i, t) <= b
    /\ Wired' => \A i \in Nat, x \in J : Due(i, x) => i <= b
    /\ \A i \in Nat, c \in Consumer : Registration(c) \in J /\ Due(i, Registration(c))' =>
          (i <= Len(Backlog') <=> Was(i, t) <= Len(Backlog))

LEMMA DuePlace ==
    ASSUME BaseInv
    PROVE  /\ End \in Nat /\ Len(Backlog) \in Nat /\ Len(Backlog) < End
           /\ \A i, x : Due(i, x) => i \in Nat /\ 0 < i /\ i < End
<1>1. End \in Nat /\ Len(Backlog) \in Nat /\ Len(Backlog) < End
  BY RowType DEF End
<1>2. \A i, x : Due(i, x) => i \in 1 .. End - 1
  BY DueHere
<1> QED
  BY <1>1, <1>2

LEMMA DueAlone ==
    ASSUME BaseInv, NEW i, NEW x, NEW y, Due(i, x), Due(i, y)
    PROVE  x = y
<1>1. Len(Backlog) \in Nat /\ Len(Wire) \in Nat
  BY RowType
<1>2. \A f : Becomes(f, x) /\ Becomes(f, y) => x = y
  BY DEF Becomes
<1> QED
  BY <1>1, <1>2 DEF Due, DueIn

LEMMA WasOrder ==
    ASSUME NEW t \in Nat
    PROVE  /\ \A i, j \in Nat : Was(i, t) = Was(j, t) => i = j
           /\ \A i, j \in Nat : Was(i, t) < Was(j, t) => i < j
           /\ \A i \in Nat : Was(i, t) \in Nat
           /\ \A i \in Nat : i # t => \E j \in Nat : Was(j, t) = i
<1>1. ASSUME NEW i \in Nat, i # t PROVE \E j \in Nat : Was(j, t) = i
  <2>1. CASE i < t
    BY <2>1 DEF Was
  <2>2. CASE i > t
    <3>1. i - 1 \in Nat /\ ~(i - 1 < t) /\ (i - 1) + 1 = i
      BY <2>2
    <3> QED
      BY <3>1 DEF Was
  <2> QED
    BY <1>1, <2>1, <2>2
<1> QED
  BY <1>1 DEF Was

LEMMA SameMoves ==
    ASSUME BaseInv, Same, Wired' => Wired, NEW J \in SUBSET Job,
           \/ Len(Backlog') = Len(Backlog)
           \/ /\ Len(Backlog') = Len(Backlog) + 1
              /\ \A c \in Consumer : Registration(c) \in J => ~Due(Len(Backlog) + 1, Registration(c))
    PROVE  \E t, b \in Nat : Moves(J, t, b)
<1> PICK B \in Nat, e \in Nat :
        /\ B = Len(Backlog) /\ e = End /\ B < e
        /\ \A i, x : Due(i, x) => i \in Nat /\ i < e
  BY DuePlace
<1>1. \A i \in Nat, x \in J : Due(i, x)' <=> Due(i, x)
  BY DEF Same
<1>2. ASSUME NEW i \in Nat, NEW x \in J PROVE Due(i, x)' <=> Due(Was(i, e), x) /\ Was(i, e) <= e
  <2>1. CASE i < e
    BY <1>1, <2>1 DEF Was
  <2>2. CASE ~(i < e)
    BY <1>1, <2>2 DEF Was
  <2> QED
    BY <2>1, <2>2
<1>3. ASSUME NEW i \in Nat, NEW c \in Consumer, Registration(c) \in J, Due(i, Registration(c))'
      PROVE  i <= Len(Backlog') <=> Was(i, e) <= B
  <2>1. Due(i, Registration(c)) /\ i < e
    BY <1>1, <1>3
  <2>2. Was(i, e) = i
    BY <2>1 DEF Was
  <2>3. Len(Backlog') = B + 1 => i # B + 1
    BY <1>3, <2>1
  <2> QED
    BY <2>2, <2>3
<1>4. Moves(J, e, e)
  BY <1>2, <1>3 DEF Moves
<1> QED
  BY <1>4

LEMMA AddedMoves ==
    ASSUME BaseInv, NEW y, Added(y), Wired' => Wired, NEW J \in SUBSET Job, y \notin J, Backlog' = Backlog
    PROVE  \E t, b \in Nat : Moves(J, t, b)
<1> PICK B \in Nat, e \in Nat :
        /\ B = Len(Backlog) /\ e = End /\ B < e
        /\ \A i, x : Due(i, x) => i \in Nat /\ i < e
  BY DuePlace
<1>1. \A i \in Nat, x \in J : Due(i, x)' <=> Due(i, x)
  BY DEF Added
<1>2. ASSUME NEW i \in Nat, NEW x \in J PROVE Due(i, x)' <=> Due(Was(i, e), x) /\ Was(i, e) <= e
  <2>1. CASE i < e
    BY <1>1, <2>1 DEF Was
  <2>2. CASE ~(i < e)
    BY <1>1, <2>2 DEF Was
  <2> QED
    BY <2>1, <2>2
<1>3. \A i \in Nat, x \in J : Due(i, x)' => Was(i, e) = i
  BY <1>1 DEF Was
<1>4. Moves(J, e, e)
  BY <1>2, <1>3 DEF Moves
<1> QED
  BY <1>4

LEMMA PassedMoves ==
    ASSUME BaseInv, Passed(Len(Backlog) + 1), Wired' => Wired, Backlog' = Backlog, NEW J \in SUBSET Job
    PROVE  \E t, b \in Nat : Moves(J, t, b)
<1> PICK B \in Nat, e \in Nat :
        /\ B = Len(Backlog) /\ e = End /\ B < e
        /\ \A i, x : Due(i, x) => i \in Nat /\ i < e
  BY DuePlace
<1>1. \A x \in J : ~Due(B + 1, x)
  BY DEF Passed
<1>2. \A i \in Nat, x \in J : Due(i, x)' <=> Due(Was(i, B + 1), x)
  BY DEF Passed
<1>3. \A i \in Nat : i <= B <=> Was(i, B + 1) <= B
  BY DEF Was
<1>4. Moves(J, B + 1, e)
  BY <1>1, <1>2, <1>3 DEF Moves
<1>5. B + 1 \in Nat
  OBVIOUS
<1> QED
  BY <1>4, <1>5

LEMMA CutMoves ==
    ASSUME BaseInv, Cut, ~Wired', Backlog' = Backlog, NEW J \in SUBSET Job
    PROVE  \E t \in Nat : Moves(J, t, Len(Backlog))
<1> PICK B \in Nat, e \in Nat :
        /\ B = Len(Backlog) /\ e = End /\ B < e
        /\ \A i, x : Due(i, x) => i \in Nat /\ i < e
  BY DuePlace
<1>1. \A i \in Nat, x \in J : Due(i, x)' <=> Due(i, x) /\ i <= B
  BY DEF Cut
<1>2. ASSUME NEW i \in Nat, NEW x \in J PROVE Due(i, x)' <=> Due(Was(i, e), x) /\ Was(i, e) <= B
  <2>1. CASE i < e
    BY <1>1, <2>1 DEF Was
  <2>2. CASE ~(i < e)
    BY <1>1, <2>2 DEF Was
  <2> QED
    BY <2>1, <2>2
<1>3. \A i \in Nat, x \in J : Due(i, x)' => Was(i, e) = i
  BY <1>1 DEF Was
<1>4. Moves(J, e, B)
  BY <1>2, <1>3 DEF Moves
<1> QED
  BY <1>4

LEMMA RanMoves ==
    ASSUME BaseInv, NEW do, Run(do), NEW J \in SUBSET Job, \A x \in J : ~Due(1, x)
    PROVE  \E t, b \in Nat : Moves(J, t, b)
<1> PICK B \in Nat, e \in Nat :
        /\ B = Len(Backlog) /\ e = End /\ B < e
        /\ \A i, x : Due(i, x) => i \in Nat /\ 0 < i /\ i < e
  BY DuePlace
<1>1. Len(Backlog') = B - 1
  BY RanRow
<1>2. \A i \in Nat, x \in J : Due(i, x)' <=> i # 0 /\ Due(i + 1, x)
  BY RanRow DEF Ran
<1>3. Wired' => Wired
  BY RunBase DEF Wired
<1>4. ASSUME NEW i \in Nat, NEW x \in J PROVE Due(i, x)' <=> Due(Was(i, 1), x) /\ Was(i, 1) <= e
  <2>1. CASE i = 0
    BY <1>2, <2>1 DEF Was
  <2>2. CASE i # 0
    <3>1. Was(i, 1) = i + 1
      BY <2>2 DEF Was
    <3> QED
      BY <1>2, <2>2, <3>1
  <2> QED
    BY <2>1, <2>2
<1>5. \A i \in Nat, x \in J : Due(i, x)' => (i <= B - 1 <=> Was(i, 1) <= B)
  BY <1>2 DEF Was
<1>6. Moves(J, 1, e)
  BY <1>1, <1>3, <1>4, <1>5 DEF Moves
<1> QED
  BY <1>6

----------------------------------------------------------------------------
(* Deliveries keep their order and are handed over in it *)

\* No message is sent twice.
SentOnce ==
    \A c \in Consumer :
        /\ \A i, j \in 1 .. Len(sent[c]) : sent[c][i] = sent[c][j] => i = j
        /\ \A i \in 1 .. Len(sent[c]) : sent[c][i] \in used

\* What was handed over is what was sent first.
HandedFirst ==
    \A c \in Consumer :
        /\ Len(handed[c]) <= Len(sent[c])
        /\ \A i \in 1 .. Len(handed[c]) : handed[c][i] = sent[c][i]

\* A delivery is due once, and was sent.
DueOnce ==
    \A c \in Consumer, m \in Message, i, j \in Nat :
        Due(i, Delivery(c, m)) /\ Due(j, Delivery(c, m)) => i = j
DueIsSent ==
    \A c \in Consumer, m \in Message, i \in Nat :
        Due(i, Delivery(c, m)) => \E k \in 1 .. Len(sent[c]) : sent[c][k] = m

Unhanded(c) == Len(handed[c]) + 1 .. Len(sent[c])
\* Before a delivery, all that was sent for its consumer earlier and not handed over is due ...
Preceded(c) ==
    \A m \in Message, i \in Nat : Due(i, Delivery(c, m)) =>
        \E l \in Unhanded(c) :
            /\ sent[c][l] = m
            /\ \A k \in Unhanded(c) : k < l => \E j \in Nat : j < i /\ Due(j, Delivery(c, sent[c][k]))
\* ... and all of it is, as long as the broker delivers.
Awaited(c) == \A k \in Unhanded(c) : \E j \in Nat : Due(j, Delivery(c, sent[c][k]))
DueInOrder ==
    \A c \in Consumer : ended[c] = "no" =>
        Preceded(c) /\ (Wired /\ c \in serving.consumers => Awaited(c))

FlowInv == SentOnce /\ HandedFirst /\ DueOnce /\ DueIsSent /\ DueInOrder

\* A step that takes at most an empty place and what is behind b out of the row
Kept(t, b) ==
    /\ Wired' => Wired
    /\ \A c \in Consumer, m \in Message : ~Due(t, Delivery(c, m))
    /\ \A i \in Nat, c \in Consumer, m \in Message :
          Due(i, Delivery(c, m))' <=> Due(Was(i, t), Delivery(c, m)) /\ Was(i, t) <= b
    /\ Wired' => \A i \in Nat, c \in Consumer, m \in Message : Due(i, Delivery(c, m)) => i <= b

LEMMA MovesKept ==
    ASSUME NEW J, NEW t \in Nat, NEW b \in Nat, Moves(J, t, b),
           \A c \in Consumer, m \in Message : Delivery(c, m) \in J
    PROVE  Kept(t, b)
BY DEF Moves, Kept

LEMMA SentFacts ==
    ASSUME BaseInv
    PROVE  \A c \in Consumer : /\ sent[c] \in Seq(Message) /\ handed[c] \in Seq(Message)
                               /\ Len(sent[c]) \in Nat /\ Len(handed[c]) \in Nat
                               /\ \A k \in Unhanded(c) : k \in 1 .. Len(sent[c]) /\ sent[c][k] \in Message
<1> SUFFICES ASSUME NEW c \in Consumer
             PROVE  /\ sent[c] \in Seq(Message) /\ handed[c] \in Seq(Message)
                    /\ Len(sent[c]) \in Nat /\ Len(handed[c]) \in Nat
                    /\ \A k \in Unhanded(c) : k \in 1 .. Len(sent[c]) /\ sent[c][k] \in Message
  OBVIOUS
<1>1. sent[c] \in Seq(Message) /\ handed[c] \in Seq(Message)
  BY DEF BaseInv, TypeOK
<1>2. Len(sent[c]) \in Nat /\ Len(handed[c]) \in Nat
  BY <1>1
<1>3. \A k \in Unhanded(c) : k \in 1 .. Len(sent[c])
  BY <1>2 DEF Unhanded
<1>4. \A k \in 1 .. Len(sent[c]) : sent[c][k] \in Message
  BY <1>1
<1> QED
  BY <1>1, <1>2, <1>3, <1>4

\* What is due before a delivery that stays is still due before it.
LEMMA KeptBefore ==
    ASSUME NEW t \in Nat, NEW b \in Nat, Kept(t, b), NEW c \in Consumer, NEW m \in Message, NEW j \in Nat,
           Due(j, Delivery(c, m)), j <= b
    PROVE  \E i \in Nat : Was(i, t) = j /\ Due(i, Delivery(c, m))'
<1>1. j # t
  BY DEF Kept
<1>2. PICK i \in Nat : Was(i, t) = j
  BY <1>1, WasOrder
<1>3. Due(i, Delivery(c, m))'
  BY <1>2 DEF Kept
<1> QED
  BY <1>2, <1>3

LEMMA FlowKept ==
    ASSUME BaseInv, FlowInv, NEW t \in Nat, NEW b \in Nat, Kept(t, b),
           UNCHANGED <<handed, sent>>, used \subseteq used',
           \A c \in Consumer : ended'[c] = "no" => ended[c] = "no",
           \A c \in Consumer : c \in serving'.consumers => c \in serving.consumers \/ sent[c] = <<>>
    PROVE  FlowInv'
<1>1. SentOnce'
  BY DEF FlowInv, SentOnce
<1>2. HandedFirst'
  BY DEF FlowInv, HandedFirst
<1>3. \A i \in Nat, c \in Consumer, m \in Message : Due(i, Delivery(c, m))' =>
          Was(i, t) \in Nat /\ Was(i, t) <= b /\ Due(Was(i, t), Delivery(c, m))
  BY WasOrder DEF Kept
<1>4. DueOnce'
  <2> SUFFICES ASSUME NEW c \in Consumer, NEW m \in Message, NEW i \in Nat, NEW j \in Nat,
                      Due(i, Delivery(c, m))', Due(j, Delivery(c, m))'
               PROVE  i = j
    BY DEF DueOnce
  <2>1. Was(i, t) = Was(j, t)
    BY <1>3 DEF FlowInv, DueOnce
  <2> QED
    BY <2>1, WasOrder
<1>5. DueIsSent'
  BY <1>3 DEF FlowInv, DueIsSent
<1>6. \A c \in Consumer : Unhanded(c)' = Unhanded(c)
  BY DEF Unhanded
<1>7. ASSUME NEW c \in Consumer, ended'[c] = "no" PROVE Preceded(c)'
  <2> SUFFICES ASSUME NEW m \in Message, NEW i \in Nat, Due(i, Delivery(c, m))'
               PROVE  \E l \in Unhanded(c) :
                        /\ sent[c][l] = m
                        /\ \A k \in Unhanded(c) : k < l =>
                              \E j \in Nat : j < i /\ Due(j, Delivery(c, sent[c][k]))'
    BY <1>6 DEF Preceded
  <2>1. Was(i, t) \in Nat /\ Was(i, t) <= b /\ Due(Was(i, t), Delivery(c, m))
    BY <1>3
  <2>2. PICK l \in Unhanded(c) :
           /\ sent[c][l] = m
           /\ \A k \in Unhanded(c) : k < l =>
                 \E j \in Nat : j < Was(i, t) /\ Due(j, Delivery(c, sent[c][k]))
    BY <1>7, <2>1 DEF FlowInv, DueInOrder, Preceded
  <2>3. ASSUME NEW k \in Unhanded(c), k < l
        PROVE  \E j \in Nat : j < i /\ Due(j, Delivery(c, sent[c][k]))'
    <3>1. PICK j \in Nat : j < Was(i, t) /\ Due(j, Delivery(c, sent[c][k]))
      BY <2>2, <2>3
    <3>2. j <= b /\ sent[c][k] \in Message
      BY <2>1, <3>1, SentFacts
    <3>3. PICK p \in Nat : Was(p, t) = j /\ Due(p, Delivery(c, sent[c][k]))'
      BY <3>1, <3>2, KeptBefore
    <3>4. p < i
      BY <3>1, <3>3, WasOrder
    <3> QED
      BY <3>3, <3>4
  <2> QED
    BY <2>2, <2>3
<1>8. ASSUME NEW c \in Consumer, ended'[c] = "no", Wired', c \in serving'.consumers PROVE Awaited(c)'
  <2> SUFFICES ASSUME NEW k \in Unhanded(c) PROVE \E j \in Nat : Due(j, Delivery(c, sent[c][k]))'
    BY <1>6 DEF Awaited
  <2>1. k \in 1 .. Len(sent[c]) /\ sent[c][k] \in Message
    BY SentFacts
  <2>2. sent[c] # <<>>
    BY <2>1
  <2>3. PICK j \in Nat : Due(j, Delivery(c, sent[c][k]))
    BY <1>8, <2>2 DEF FlowInv, DueInOrder, Awaited, Kept
  <2>4. j <= b
    BY <1>8, <2>1, <2>3 DEF Kept
  <2> QED
    BY <2>1, <2>3, <2>4, KeptBefore
<1>9. DueInOrder'
  BY <1>7, <1>8 DEF DueInOrder
<1> QED
  BY <1>1, <1>2, <1>4, <1>5, <1>9 DEF FlowInv

\* The broker sends one more.
LEMMA ServerDeliversFlow ==
    ASSUME BaseInv, FlowInv, NEW c \in Consumer, NEW m \in Message, NEW k \in 0 .. MaxBodies,
           ServerDelivers(c, m, k)
    PROVE  FlowInv'
<1>1. /\ m \notin used /\ c \in serving.consumers /\ used' = used \cup {m} /\ UNCHANGED <<handed, ended, serving>>
      /\ Wired' = Wired
      /\ sent' = [sent EXCEPT ![c] = Append(sent[c], m)]
  BY DEF ServerDelivers, Server, chanVars, handVars, Wired
<1>2. /\ \A d \in Consumer : d # c => sent'[d] = sent[d]
      /\ sent'[c] = Append(sent[c], m)
  BY <1>1 DEF BaseInv, TypeOK
<1>3. /\ Len(sent'[c]) = Len(sent[c]) + 1 /\ sent'[c][Len(sent[c]) + 1] = m
      /\ \A i \in 1 .. Len(sent[c]) : sent'[c][i] = sent[c][i]
      /\ Len(sent[c]) \in Nat /\ Len(handed[c]) \in Nat
  BY <1>2, SentFacts
<1>4. \A i \in 1 .. Len(sent[c]) : sent[c][i] # m
  BY <1>1 DEF FlowInv, SentOnce
<1>5. SentOnce'
  <2>1. ASSUME NEW d \in Consumer, d # c
        PROVE  /\ \A i, j \in 1 .. Len(sent'[d]) : sent'[d][i] = sent'[d][j] => i = j
               /\ \A i \in 1 .. Len(sent'[d]) : sent'[d][i] \in used'
    BY <1>1, <1>2, <2>1 DEF FlowInv, SentOnce
  <2>2. \A i \in 1 .. Len(sent'[c]) : i \in 1 .. Len(sent[c]) \/ i = Len(sent[c]) + 1
    BY <1>3
  <2>3. \A i \in 1 .. Len(sent'[c]) : sent'[c][i] \in used'
    BY <1>1, <1>3, <2>2 DEF FlowInv, SentOnce
  <2>4. \A i, j \in 1 .. Len(sent[c]) : sent[c][i] = sent[c][j] => i = j
    BY DEF FlowInv, SentOnce
  <2>5. \A i, j \in 1 .. Len(sent'[c]) : sent'[c][i] = sent'[c][j] => i = j
    BY <1>3, <1>4, <2>2, <2>4
  <2> QED
    BY <2>1, <2>3, <2>5 DEF SentOnce
<1>6. HandedFirst'
  <2>1. ASSUME NEW d \in Consumer, d # c
        PROVE  Len(handed'[d]) <= Len(sent'[d]) /\ \A i \in 1 .. Len(handed'[d]) : handed'[d][i] = sent'[d][i]
    BY <1>1, <1>2, <2>1 DEF FlowInv, HandedFirst
  <2>2. Len(handed[c]) <= Len(sent[c]) /\ \A i \in 1 .. Len(handed[c]) : handed[c][i] = sent[c][i]
    BY DEF FlowInv, HandedFirst
  <2>3. \A i \in 1 .. Len(handed[c]) : i \in 1 .. Len(sent[c])
    BY <1>3, <2>2
  <2>4. Len(handed'[c]) <= Len(sent'[c]) /\ \A i \in 1 .. Len(handed'[c]) : handed'[c][i] = sent'[c][i]
    BY <1>1, <1>3, <2>2, <2>3
  <2> QED
    BY <2>1, <2>4 DEF HandedFirst
<1>7. /\ \A d \in Consumer, n \in Message : Delivery(d, n) \in Job
      /\ \A d \in Consumer, n \in Message : Delivery(d, n) = Delivery(c, m) => d = c /\ n = m
      /\ End \in Nat /\ \A i, x : Due(i, x) => i < End
  <2>1. End \in Nat
    BY RowType DEF End
  <2> QED
    BY <2>1, JobForms, JobsDiffer, RowType, DueHere DEF End
<1>8. \A i \in Nat : ~Due(i, Delivery(c, m))
  BY <1>4 DEF FlowInv, DueIsSent
<1>9. \A i \in Nat, d \in Consumer, n \in Message : Due(i, Delivery(d, n))' <=>
          Due(i, Delivery(d, n)) \/ (Wired /\ i = End /\ d = c /\ n = m)
  BY <1>7, ServerDeliversRow DEF Same, Added
<1>10. DueOnce'
  BY <1>8, <1>9 DEF FlowInv, DueOnce
<1>11. DueIsSent'
  <2> SUFFICES ASSUME NEW d \in Consumer, NEW n \in Message, NEW i \in Nat, Due(i, Delivery(d, n))'
               PROVE  \E l \in 1 .. Len(sent'[d]) : sent'[d][l] = n
    BY DEF DueIsSent
  <2>1. CASE d = c /\ n = m
    BY <1>3, <2>1
  <2>2. CASE ~(d = c /\ n = m)
    <3>1. PICK l \in 1 .. Len(sent[d]) : sent[d][l] = n
      BY <1>9, <2>2 DEF FlowInv, DueIsSent
    <3>2. CASE d = c
      BY <1>3, <3>1, <3>2, SMTT(30)
    <3>3. CASE d # c
      BY <1>2, <3>1, <3>3
    <3> QED
      BY <3>2, <3>3
  <2> QED
    BY <2>1, <2>2
<1>12. /\ \A d \in Consumer : d # c => Unhanded(d)' = Unhanded(d)
       /\ \A l \in Unhanded(c) : l \in Unhanded(c)' /\ sent'[c][l] = sent[c][l] /\ l < Len(sent[c]) + 1
       /\ \A l \in Unhanded(c)' : l \in Unhanded(c) \/ l = Len(sent[c]) + 1
       /\ Len(sent[c]) + 1 \in Unhanded(c)'
  <2>1. Len(handed[c]) <= Len(sent[c])
    BY DEF FlowInv, HandedFirst
  <2> QED
    BY <1>1, <1>2, <1>3, <2>1 DEF Unhanded
<1>13. ASSUME NEW d \in Consumer, d # c, ended'[d] = "no" PROVE Preceded(d)'
  <2>1. Preceded(d)
    BY <1>1, <1>13 DEF FlowInv, DueInOrder
  <2>2. \A i \in Nat, n \in Message : Due(i, Delivery(d, n))' <=> Due(i, Delivery(d, n))
    BY <1>9, <1>13
  <2>3. \A l \in Unhanded(d) : sent[d][l] \in Message
    BY SentFacts
  <2>4. Unhanded(d)' = Unhanded(d) /\ sent'[d] = sent[d]
    BY <1>2, <1>12, <1>13
  <2> QED
    BY <2>1, <2>2, <2>3, <2>4 DEF Preceded
<1>14. ASSUME ended'[c] = "no" PROVE Preceded(c)'
  <2> SUFFICES ASSUME NEW n \in Message, NEW i \in Nat, Due(i, Delivery(c, n))'
               PROVE  \E l \in Unhanded(c)' :
                        /\ sent'[c][l] = n
                        /\ \A q \in Unhanded(c)' : q < l =>
                              \E j \in Nat : j < i /\ Due(j, Delivery(c, sent[c][q]))'
    BY DEF Preceded
  <2>1. Preceded(c) /\ (Wired => Awaited(c))
    BY <1>1, <1>14 DEF FlowInv, DueInOrder
  <2>2. CASE Due(i, Delivery(c, n))
    <3>1. PICK l \in Unhanded(c) :
             /\ sent[c][l] = n
             /\ \A q \in Unhanded(c) : q < l => \E j \in Nat : j < i /\ Due(j, Delivery(c, sent[c][q]))
      BY <2>1, <2>2 DEF Preceded
    <3>2. ASSUME NEW q \in Unhanded(c)', q < l
          PROVE  \E j \in Nat : j < i /\ Due(j, Delivery(c, sent[c][q]))'
      <4>1. q \in Unhanded(c) /\ sent'[c][q] = sent[c][q] /\ sent[c][q] \in Message
        <5>1. l < Len(sent[c]) + 1
          BY <1>12
        <5>2. q # Len(sent[c]) + 1
          BY <3>2, <5>1, <1>3, <1>12, SentFacts
        <5> QED
          BY <5>2, <1>12, SentFacts
      <4> QED
        BY <3>1, <3>2, <4>1, <1>9
    <3> QED
      BY <3>1, <3>2, <1>12
  <2>3. CASE Wired /\ i = End /\ n = m
    <3>1. ASSUME NEW q \in Unhanded(c)', q < Len(sent[c]) + 1
          PROVE  \E j \in Nat : j < i /\ Due(j, Delivery(c, sent[c][q]))'
      <4>1. q \in Unhanded(c) /\ sent'[c][q] = sent[c][q] /\ sent[c][q] \in Message
        BY <3>1, <1>3, <1>12, SentFacts
      <4>2. PICK j \in Nat : Due(j, Delivery(c, sent[c][q]))
        BY <2>1, <2>3, <4>1 DEF Awaited
      <4>3. j < End
        BY <4>2, <1>7
      <4> QED
        BY <2>3, <4>1, <4>2, <4>3, <1>9
    <3> QED
      BY <2>3, <3>1, <1>3, <1>12
  <2> QED
    BY <2>2, <2>3, <1>9
<1>15. ASSUME NEW d \in Consumer, d # c, ended'[d] = "no", Wired', d \in serving'.consumers PROVE Awaited(d)'
  <2>1. Awaited(d)
    BY <1>1, <1>15 DEF FlowInv, DueInOrder
  <2>2. \A l \in Unhanded(d) : sent[d][l] \in Message
    BY SentFacts
  <2>3. Unhanded(d)' = Unhanded(d) /\ sent'[d] = sent[d]
    BY <1>2, <1>12, <1>15
  <2> QED
    BY <2>1, <2>2, <2>3, <1>9 DEF Awaited
<1>16. ASSUME ended'[c] = "no", Wired' PROVE Awaited(c)'
  <2> SUFFICES ASSUME NEW q \in Unhanded(c)' PROVE \E j \in Nat : Due(j, Delivery(c, sent[c][q]))'
    BY DEF Awaited
  <2>1. CASE q \in Unhanded(c)
    <3>1. sent'[c][q] = sent[c][q] /\ sent[c][q] \in Message
      BY <2>1, <1>12, SentFacts
    <3>2. PICK j \in Nat : Due(j, Delivery(c, sent[c][q]))
      BY <2>1, <1>1, <1>16 DEF FlowInv, DueInOrder, Awaited
    <3> QED
      BY <3>1, <3>2, <1>9
  <2>2. CASE q = Len(sent[c]) + 1
    <3>1. PICK e \in Nat : e = End
      BY <1>7
    <3>2. sent'[c][q] = m
      BY <2>2, <1>3
    <3>3. Due(e, Delivery(c, m))'
      BY <3>1, <1>1, <1>9, <1>16
    <3> QED
      BY <3>2, <3>3
  <2> QED
    BY <2>1, <2>2, <1>12
<1>17. DueInOrder'
  BY <1>13, <1>14, <1>15, <1>16 DEF DueInOrder
<1> QED
  BY <1>5, <1>6, <1>10, <1>11, <1>17 DEF FlowInv

----------------------------------------------------------------------------
(* The promise of basicConsume and the consumer it leads to *)

\* The answer is due until the promise is fulfilled, at one place, and ahead of what the
\* broker delivers to the consumer.
Answered(c) ==
    /\ \A i \in Nat : Due(i, Registration(c)) =>
          consume[c] = IF i <= Len(Backlog) THEN "answered" ELSE "asked"
    /\ \A i, j \in Nat : Due(i, Registration(c)) /\ Due(j, Registration(c)) => i = j
    /\ consume[c] = "answered" => \E i \in Nat : Due(i, Registration(c))
    /\ \A i \in Nat, m \in Message : Due(i, Delivery(c, m)) =>
          consume[c] = "fulfilled" \/ \E j \in Nat : j < i /\ Due(j, Registration(c))
    /\ Wired /\ c \in serving.consumers =>
          consume[c] = "fulfilled" \/ \E j \in Nat : Due(j, Registration(c))
\* A consumer is in the map from there to its end.
Lives(c) ==
    /\ c \in consumers => consume[c] = "fulfilled"
    /\ ended[c] # "no" <=> consume[c] = "fulfilled" /\ c \notin consumers
    /\ consume[c] = "none" => c \notin serving.consumers /\ sent[c] = <<>>
RegInv == \A c \in Consumer : Answered(c) /\ Lives(c)

Of(c) == {Registration(c)} \cup {Delivery(c, m) : m \in Message}

LEMMA OfFacts ==
    ASSUME NEW c \in Consumer
    PROVE  /\ Of(c) \in SUBSET Job /\ Registration(c) \in Of(c)
           /\ \A m \in Message : Delivery(c, m) \in Of(c)
           /\ \A d : Cancellation(d) \notin Of(c)
           /\ \A d : d # c => Registration(d) \notin Of(c) /\ \A m : Delivery(d, m) \notin Of(c)
BY JobForms, JobsDiffer DEF Of

\* Moved along, an answer stays due, unless the channel is cut off and rejects the promise.
LEMMA AnsweredMoved ==
    ASSUME BaseInv, NEW c \in Consumer, Answered(c), NEW t \in Nat, NEW b \in Nat, Moves(Of(c), t, b),
           \/ consume'[c] = consume[c]
           \/ consume[c] = "asked" /\ consume'[c] = "rejected" /\ b = Len(Backlog),
           c \in serving'.consumers => c \in serving.consumers
    PROVE  Answered(c)'
<1> DEFINE R == Registration(c)
<1>1. R \in Of(c) /\ \A m \in Message : Delivery(c, m) \in Of(c)
  BY OfFacts
<1>2. \A x \in Of(c) : /\ ~Due(t, x)
                       /\ \A i \in Nat : Due(i, x)' <=> Due(Was(i, t), x) /\ Was(i, t) <= b
                       /\ Wired' => \A i \in Nat : Due(i, x) => i <= b
  BY DEF Moves
<1>3. (Wired' => Wired) /\ Len(Backlog) <= b /\ Len(Backlog) \in Nat
  BY DuePlace DEF Moves
<1>4. \A i \in Nat : Due(i, R)' => (i <= Len(Backlog') <=> Was(i, t) <= Len(Backlog))
  BY <1>1 DEF Moves
<1>5. /\ \A i \in Nat : Due(i, R) => consume[c] = IF i <= Len(Backlog) THEN "answered" ELSE "asked"
      /\ \A i, j \in Nat : Due(i, R) /\ Due(j, R) => i = j
      /\ consume[c] = "answered" => \E i \in Nat : Due(i, R)
      /\ \A i \in Nat, m \in Message : Due(i, Delivery(c, m)) =>
            consume[c] = "fulfilled" \/ \E j \in Nat : j < i /\ Due(j, R)
      /\ Wired /\ c \in serving.consumers => consume[c] = "fulfilled" \/ \E j \in Nat : Due(j, R)
  BY DEF Answered
<1> HIDE DEF R
<1>6. \A x \in Of(c), j \in Nat : Due(j, x) /\ j <= b => \E p \in Nat : Was(p, t) = j /\ Due(p, x)'
  <2> SUFFICES ASSUME NEW x \in Of(c), NEW j \in Nat, Due(j, x), j <= b
               PROVE  \E p \in Nat : Was(p, t) = j /\ Due(p, x)'
    OBVIOUS
  <2>0. j # t
    BY <1>2
  <2>1. PICK p \in Nat : Was(p, t) = j
    BY <2>0, WasOrder
  <2> QED
    BY <1>2, <2>1
<1>7. \A i \in Nat, x \in Of(c) : Due(i, x)' => Was(i, t) \in Nat /\ Was(i, t) <= b /\ Due(Was(i, t), x)
  BY <1>2, WasOrder
<1>8. \A i \in Nat : Due(i, R)' => consume'[c] = IF i <= Len(Backlog') THEN "answered" ELSE "asked"
  <2> SUFFICES ASSUME NEW i \in Nat, Due(i, R)'
               PROVE  consume'[c] = IF i <= Len(Backlog') THEN "answered" ELSE "asked"
    OBVIOUS
  <2>1. /\ Was(i, t) \in Nat /\ Was(i, t) <= b
        /\ i <= Len(Backlog') <=> Was(i, t) <= Len(Backlog)
        /\ consume[c] = IF Was(i, t) <= Len(Backlog) THEN "answered" ELSE "asked"
    BY <1>1, <1>4, <1>5, <1>7
  <2> QED
    BY <2>1
<1>9. \A i, j \in Nat : Due(i, R)' /\ Due(j, R)' => i = j
  <2> SUFFICES ASSUME NEW i \in Nat, NEW j \in Nat, Due(i, R)', Due(j, R)' PROVE i = j
    OBVIOUS
  <2>1. Was(i, t) = Was(j, t)
    BY <1>1, <1>5, <1>7
  <2> QED
    BY <2>1, WasOrder
<1>10. consume'[c] = "answered" => \E i \in Nat : Due(i, R)'
  <2> SUFFICES ASSUME consume'[c] = "answered" PROVE \E i \in Nat : Due(i, R)'
    OBVIOUS
  <2>1. PICK i \in Nat : Due(i, R)
    BY <1>5
  <2>2. i <= b
    BY <1>3, <1>5, <2>1
  <2> QED
    BY <1>1, <1>6, <2>1, <2>2
<1>11. \A i \in Nat, m \in Message : Due(i, Delivery(c, m))' =>
          consume'[c] = "fulfilled" \/ \E j \in Nat : j < i /\ Due(j, R)'
  <2> SUFFICES ASSUME NEW i \in Nat, NEW m \in Message, Due(i, Delivery(c, m))', consume'[c] # "fulfilled"
               PROVE  \E j \in Nat : j < i /\ Due(j, R)'
    OBVIOUS
  <2>1. Was(i, t) \in Nat /\ Was(i, t) <= b /\ Due(Was(i, t), Delivery(c, m))
    BY <1>1, <1>7
  <2>2. PICK j \in Nat : j < Was(i, t) /\ Due(j, R)
    BY <1>5, <2>1
  <2>3. PICK p \in Nat : Was(p, t) = j /\ Due(p, R)'
    BY <1>1, <1>6, <2>1, <2>2
  <2>4. p < i
    BY <2>2, <2>3, WasOrder
  <2> QED
    BY <2>3, <2>4
<1>12. Wired' /\ c \in serving'.consumers => consume'[c] = "fulfilled" \/ \E j \in Nat : Due(j, R)'
  <2> SUFFICES ASSUME Wired', c \in serving'.consumers, consume'[c] # "fulfilled" PROVE \E j \in Nat : Due(j, R)'
    OBVIOUS
  <2>1. PICK j \in Nat : Due(j, R)
    BY <1>3, <1>5
  <2>2. j <= b
    BY <1>1, <1>2, <2>1
  <2> QED
    BY <1>1, <1>6, <2>1, <2>2
<1> QED
  BY <1>8, <1>9, <1>10, <1>11, <1>12 DEF Answered, R

----------------------------------------------------------------------------
(* Most steps only move the row, end consumers and reject promises *)

Ends(c) == \/ ended'[c] = ended[c] /\ (c \in consumers' <=> c \in consumers)
           \/ c \in consumers /\ c \notin consumers' /\ ended'[c] # "no"
Plain(J) ==
    /\ UNCHANGED <<handed, sent, dropped>> /\ used \subseteq used'
    /\ serving'.consumers \subseteq serving.consumers
    /\ \A c \in Consumer : Ends(c)
    /\ \E t, b \in Nat :
          /\ Moves(J, t, b)
          /\ \A c \in Consumer : \/ consume'[c] = consume[c]
                                 \/ consume[c] = "asked" /\ consume'[c] = "rejected" /\ b = Len(Backlog)
Lasting == {x \in Job : x.do # "cancelled"}

LEMMA LastingFacts ==
    /\ Lasting \in SUBSET Job
    /\ \A c \in Consumer : Registration(c) \in Lasting /\ Cancellation(c) \notin Lasting /\ Of(c) \subseteq Lasting
    /\ \A c \in Consumer, m \in Message : Delivery(c, m) \in Lasting
BY JobForms DEF Lasting, Of, Registration, Cancellation, Delivery

\* A step that moves many jobs moves fewer.
LEMMA MovesFewer ==
    ASSUME NEW J, NEW K \in SUBSET J, NEW t, NEW b, Moves(J, t, b)
    PROVE  Moves(K, t, b)
BY DEF Moves

LEMMA PlainFewer == ASSUME NEW J, NEW K \in SUBSET J, Plain(J) PROVE Plain(K)
BY MovesFewer DEF Plain

LEMMA PlainReg == ASSUME BaseInv, RegInv, Plain(Lasting) PROVE RegInv'
<1> PICK t \in Nat, b \in Nat :
        /\ Moves(Lasting, t, b)
        /\ \A c \in Consumer : \/ consume'[c] = consume[c]
                               \/ consume[c] = "asked" /\ consume'[c] = "rejected" /\ b = Len(Backlog)
  BY DEF Plain
<1>1. ASSUME NEW c \in Consumer PROVE Answered(c)'
  <2>1. Of(c) \in SUBSET Lasting
    BY LastingFacts
  <2>2. Moves(Of(c), t, b)
    BY <2>1, MovesFewer
  <2>3. c \in serving'.consumers => c \in serving.consumers
    BY DEF Plain
  <2> QED
    BY <2>2, <2>3, AnsweredMoved DEF RegInv
<1>2. ASSUME NEW c \in Consumer PROVE Lives(c)'
  <2>1. Lives(c) /\ Ends(c) /\ sent'[c] = sent[c] /\ (c \in serving'.consumers => c \in serving.consumers)
    BY DEF RegInv, Plain
  <2>2. \/ consume'[c] = consume[c]
        \/ consume[c] = "asked" /\ consume'[c] = "rejected"
    OBVIOUS
  <2> QED
    BY <2>1, <2>2 DEF Lives, Ends
<1> QED
  BY <1>1, <1>2 DEF RegInv

LEMMA PlainFlow == ASSUME BaseInv, FlowInv, RegInv, Plain(Lasting) PROVE FlowInv'
<1>1. PICK t \in Nat, b \in Nat : Moves(Lasting, t, b)
  BY DEF Plain
<1>2. Kept(t, b)
  BY <1>1, LastingFacts, MovesKept
<1>3. \A c \in Consumer : ended'[c] = "no" => ended[c] = "no"
  BY DEF Plain, Ends
<1> QED
  BY <1>2, <1>3, FlowKept DEF Plain

\* The steps that end consumers
LEMMA EndConsumersEnds ==
    ASSUME BaseInv, NEW C \in SUBSET consumers, NEW how \in {"closed", "error"}, EndConsumers(C, how), Forget(C)
    PROVE  \A c \in Consumer : Ends(c)
BY DEF EndConsumers, Forget, Ends, BaseInv, TypeOK

LEMMA SetClosedEnds ==
    ASSUME BaseInv, NEW how \in {"closed", "error"}, SetClosed(how)
    PROVE  /\ closed' = TRUE
           /\ \A c \in Consumer : Ends(c)
           /\ \A c \in Consumer : consume'[c] = consume[c] \/ (consume[c] = "asked" /\ consume'[c] = "rejected")
<1>1. CASE closed
  BY <1>1 DEF SetClosed, Ends, promises
<1>2. CASE ~closed
  <2>1. /\ closed' = TRUE
        /\ ended' = [c \in Consumer |-> IF c \in consumers THEN how ELSE ended[c]]
        /\ consumers' = {}
        /\ consume' = [c \in Consumer |-> IF consume[c] = "asked" THEN "rejected" ELSE consume[c]]
    BY <1>2 DEF SetClosed, EndConsumers
  <2>2. \A c \in Consumer : Ends(c)
    BY <2>1 DEF Ends
  <2>3. \A c \in Consumer : consume'[c] = consume[c] \/ (consume[c] = "asked" /\ consume'[c] = "rejected")
    BY <2>1
  <2> QED
    BY <2>1, <2>2, <2>3
<1> QED
  BY <1>1, <1>2

\* A step that leaves the promises and the consumers alone
LEMMA IdlePlain ==
    ASSUME UNCHANGED <<handed, sent, dropped, ended, consumers, consume>>, used \subseteq used',
           serving'.consumers \subseteq serving.consumers, NEW J, \E t, b \in Nat : Moves(J, t, b)
    PROVE  Plain(J)
BY DEF Plain, Ends

LEMMA CancelPlain == ASSUME BaseInv, NEW c \in Consumer, Cancel(c) PROVE Plain(Lasting)
<1>1. UNCHANGED <<handed, sent, dropped, ended, consumers, consume, used, attached, sock, partial, jobs>>
  BY DEF Cancel, chanVars, handVars
<1>2. Backlog' = Backlog /\ (Wired' => Wired)
  BY <1>1 DEF Backlog, Wired
<1>3. Cancellation(c) \notin Lasting /\ Lasting \in SUBSET Job
  BY LastingFacts
<1>4. serving'.consumers \subseteq serving.consumers
  <2>1. serving' = [serving EXCEPT !.consumers = serving.consumers \ {c}] \/ serving' = serving
    BY CancelRow
  <2>2. serving \in [open : BOOLEAN, consumers : SUBSET Consumer]
    BY DEF BaseInv, TypeOK
  <2>3. serving' = [serving EXCEPT !.consumers = serving.consumers \ {c}] => serving'.consumers = serving.consumers \ {c}
    BY <2>2
  <2> QED
    BY <2>1, <2>3
<1>5. \E t, b \in Nat : Moves(Lasting, t, b)
  <2>1. CASE Same
    BY <1>2, <1>3, <2>1, SameMoves
  <2>2. CASE Added(Cancellation(c))
    BY <1>2, <1>3, <2>2, AddedMoves
  <2> QED
    BY <2>1, <2>2, CancelRow
<1> QED
  BY <1>1, <1>4, <1>5, IdlePlain

LEMMA CancelledPlain == ASSUME BaseInv, Cancelled PROVE Plain(Lasting)
<1>1. /\ Run("cancelled") /\ UNCHANGED <<handed, sent, dropped, consume, used, serving>>
      /\ Head(jobs).do = "cancelled" /\ jobs[1].do = "cancelled"
  BY RunBase DEF Cancelled, Run, serverVars
<1>2. \A c \in Consumer : Ends(c)
  <2>1. \E C \in SUBSET consumers : EndConsumers(C, "closed") /\ Forget(C)
    BY DEF Cancelled
  <2> QED
    BY <2>1, EndConsumersEnds
<1>3. \A x \in Lasting : ~Due(1, x)
  BY <1>1, RanRow DEF Lasting
<1>4. \E t, b \in Nat : Moves(Lasting, t, b)
  BY <1>1, <1>3, RanMoves, LastingFacts
<1> QED
  BY <1>1, <1>2, <1>4 DEF Plain

\* Steps that also leave the cancellations alone, end a consumer as closed only with the
\* channel, and reopen nothing
Steady ==
    /\ Plain(Job) /\ (closed => closed')
    /\ ~closed' => \A c \in Consumer : ended'[c] = "closed" => ended[c] = "closed"

LEMMA IdleSteady ==
    ASSUME UNCHANGED <<handed, sent, dropped, ended, consumers, consume, closed>>, used \subseteq used',
           serving'.consumers \subseteq serving.consumers, \E t, b \in Nat : Moves(Job, t, b)
    PROVE  Steady
BY IdlePlain DEF Steady

LEMMA SameJobs ==
    ASSUME BaseInv, Same, UNCHANGED <<attached, sock, partial, jobs>>
    PROVE  \E t, b \in Nat : Moves(Job, t, b)
<1>1. Backlog' = Backlog /\ (Wired' => Wired)
  BY DEF Backlog, Wired
<1> QED
  BY <1>1, SameMoves

LEMMA PassedJobs ==
    ASSUME BaseInv, Passed(Len(Backlog) + 1), Backlog' = Backlog, UNCHANGED <<attached, sock>>
    PROVE  \E t, b \in Nat : Moves(Job, t, b)
<1>1. Wired' => Wired
  BY DEF Wired
<1> QED
  BY <1>1, PassedMoves

LEMMA BasicGetSteady == ASSUME BaseInv, BasicGet PROVE Steady
<1>1. /\ UNCHANGED <<handed, sent, dropped, ended, consumers, consume, closed, attached, sock, partial, jobs>>
      /\ used \subseteq used'
  BY DEF BasicGet, chanVars, handVars
<1>2. serving'.consumers \subseteq serving.consumers
  BY DEF BasicGet, Answer, BaseInv, TypeOK
<1> QED
  BY <1>1, <1>2, BasicGetRow, SameJobs, IdleSteady

LEMMA WaitSteady == ASSUME BaseInv, NEW w \in Waiter, NEW c \in Consumer, NEW timed, Wait(w, c, timed) PROVE Steady
<1>1. UNCHANGED <<handed, sent, dropped, ended, consumers, consume, closed, attached, sock, partial, jobs, toClient,
                  used, serving>>
  BY DEF Wait, chanVars, handVars, promises, serverVars
<1> QED
  BY <1>1, WaitingRow, SameJobs, IdleSteady

LEMMA TimeoutSteady == ASSUME BaseInv, NEW w \in Waiter, Timeout(w) PROVE Steady
<1>1. UNCHANGED <<handed, sent, dropped, ended, consumers, consume, closed, attached, sock, partial, jobs, toClient,
                  used, serving>>
  BY DEF Timeout, chanVars, handVars, promises, serverVars
<1> QED
  BY <1>1, WaitingRow, SameJobs, IdleSteady

LEMMA CloseChannelSteady == ASSUME BaseInv, CloseChannel PROVE Steady
<1>1. /\ UNCHANGED <<handed, sent, dropped, ended, consumers, consume, attached, sock, partial, jobs, used>>
      /\ serving'.consumers = {} /\ closed'
  BY DEF CloseChannel, handVars, promises
<1>2. Plain(Job)
  BY <1>1, CloseChannelRow, SameJobs, IdlePlain
<1> QED
  BY <1>1, <1>2 DEF Steady

LEMMA SkipFrameSteady == ASSUME BaseInv, SkipFrame PROVE Steady
<1>1. UNCHANGED <<handed, sent, dropped, ended, consumers, consume, closed, attached, sock, partial, jobs,
                  used, serving>>
  BY DEF SkipFrame, Receive, promises, serverVars
<1> QED
  BY <1>1, SkipFrameRow, SameJobs, IdleSteady

LEMMA StutterSteady == ASSUME BaseInv, UNCHANGED vars PROVE Steady
<1>1. UNCHANGED <<handed, sent, dropped, ended, consumers, consume, closed, attached, sock, partial, jobs, toClient,
                  used, serving>>
  BY DEF vars, chanVars, handVars, promises, serverVars
<1> QED
  BY <1>1, WaitingRow, SameJobs, IdleSteady

LEMMA ServerReturnsSteady ==
    ASSUME BaseInv, NEW m \in Message, NEW k \in 0 .. MaxBodies, ServerReturns(m, k)
    PROVE  Steady
<1>1. /\ UNCHANGED <<handed, sent, dropped, ended, consumers, consume, closed, attached, sock, partial, jobs, serving>>
      /\ used \subseteq used'
  BY DEF ServerReturns, Server, chanVars, handVars, promises
<1> QED
  BY <1>1, ServerReturnsRow, SameJobs, IdleSteady

LEMMA ServerCancelsSteady == ASSUME BaseInv, NEW c \in Consumer, ServerCancels(c) PROVE Steady
<1>1. UNCHANGED <<handed, sent, dropped, ended, consumers, consume, closed, attached, sock, partial, jobs, used>>
  BY DEF ServerCancels, Server, chanVars, handVars, promises
<1>2. serving'.consumers \subseteq serving.consumers
  BY DEF ServerCancels, BaseInv, TypeOK
<1> QED
  BY <1>1, <1>2, ServerCancelsRow, SameJobs, IdleSteady

LEMMA ServerClosesSteady == ASSUME BaseInv, ServerCloses PROVE Steady
<1>1. /\ UNCHANGED <<handed, sent, dropped, ended, consumers, consume, closed, attached, sock, partial, jobs, used>>
      /\ serving'.consumers = {}
  BY DEF ServerCloses, Server, chanVars, handVars, promises
<1> QED
  BY <1>1, ServerClosesRow, SameJobs, IdleSteady

\* Frames that are read
LEMMA ReceiveFrame ==
    ASSUME NEW f, Receive(f)
    PROVE  UNCHANGED <<sock, handed, dropped, serving, sent, used>>
BY DEF Receive, serverVars

LEMMA GotCancelSteady == ASSUME BaseInv, GotCancel PROVE Steady
<1>1. UNCHANGED <<handed, dropped, sent, used, serving, consume, closed, attached, sock, partial, jobs>>
  BY ReceiveFrame DEF GotCancel, promises
<1>2. PICK C \in SUBSET consumers : EndConsumers(C, "error") /\ Forget(C)
  BY DEF GotCancel
<1>3. \A c \in Consumer : Ends(c)
  BY <1>2, EndConsumersEnds
<1>4. \A c \in Consumer : ended'[c] = "closed" => ended[c] = "closed"
  BY <1>2 DEF EndConsumers
<1>5. Backlog' = Backlog
  BY <1>1 DEF Backlog
<1>6. \E t, b \in Nat : Moves(Job, t, b)
  BY <1>1, <1>5, GotCancelRow, PassedJobs
<1> QED
  BY <1>1, <1>3, <1>4, <1>6 DEF Steady, Plain

LEMMA GotGetEmptySteady == ASSUME BaseInv, GotGetEmpty PROVE Steady
<1>1. UNCHANGED <<handed, dropped, sent, used, serving, consume, ended, consumers, closed, attached, sock, partial, jobs>>
  BY ReceiveFrame DEF GotGetEmpty
<1>2. Backlog' = Backlog
  BY <1>1 DEF Backlog
<1> QED
  BY <1>1, <1>2, GotGetEmptyRow, PassedJobs, IdleSteady

LEMMA GotPartSteady == ASSUME BaseInv, GotHeader \/ GotBody PROVE Steady
<1>1. UNCHANGED <<handed, dropped, sent, used, serving, consume, ended, consumers, closed, attached, sock>>
  BY ReceiveFrame DEF GotHeader, GotBody, Expect
<1> QED
  BY <1>1, GotPartRow, PassedJobs, IdleSteady

LEMMA GotMethodSteady == ASSUME BaseInv, GotMethod PROVE Steady
<1>1. UNCHANGED <<handed, dropped, sent, used, serving, consume, ended, consumers, closed, attached, sock>>
  BY ReceiveFrame DEF GotMethod, promises
<1>2. Wired' => Wired
  BY <1>1 DEF Wired
<1>3. CASE Passed(Len(Backlog) + 1) /\ Backlog' = Backlog
  BY <1>1, <1>3, PassedJobs, IdleSteady
<1>4. CASE /\ Same /\ Len(Backlog') = Len(Backlog) + 1
           /\ \E c \in Consumer, m \in Message : Due(Len(Backlog) + 1, Delivery(c, m))
  <2>1. \A c \in Consumer : ~Due(Len(Backlog) + 1, Registration(c))
    BY <1>4, DueAlone, JobsDiffer
  <2>2. \E t, b \in Nat : Moves(Job, t, b)
    BY <1>2, <1>4, <2>1, SameMoves
  <2> QED
    BY <1>1, <2>2, IdleSteady
<1> QED
  BY <1>3, <1>4, GotMethodRow

LEMMA GotCancelOkSteady == ASSUME BaseInv, GotCancelOk PROVE Steady
<1>1. UNCHANGED <<handed, dropped, sent, used, serving, consume, ended, consumers, closed, attached, sock>>
  BY ReceiveFrame DEF GotCancelOk
<1>2. Wired' => Wired
  BY <1>1 DEF Wired
<1>3. \A c \in Consumer : ~Due(Len(Backlog) + 1, Registration(c))
  BY GotCancelOkRow, DueAlone, JobsDiffer
<1>4. \E t, b \in Nat : Moves(Job, t, b)
  BY <1>2, <1>3, GotCancelOkRow, SameMoves
<1> QED
  BY <1>1, <1>4, IdleSteady

\* Steps that cut the channel off
LEMMA CutSteady ==
    ASSUME BaseInv, UNCHANGED <<handed, sent, dropped, used, serving, partial, jobs>>, ~Wired',
           (\E how \in {"closed", "error"} : SetClosed(how)) \/ UNCHANGED <<closed, consumers, ended, promises>>
    PROVE  Steady
<1>1. Backlog' = Backlog
  BY DEF Backlog
<1>2. PICK t \in Nat : Moves(Job, t, Len(Backlog))
  BY <1>1, CutRow, CutMoves
<1>3. Len(Backlog) \in Nat
  BY DuePlace
<1>4. CASE \E how \in {"closed", "error"} : SetClosed(how)
  <2>1. PICK how \in {"closed", "error"} : SetClosed(how)
    BY <1>4
  <2>2. /\ closed' = TRUE
        /\ \A c \in Consumer : Ends(c)
        /\ \A c \in Consumer : consume'[c] = consume[c] \/ (consume[c] = "asked" /\ consume'[c] = "rejected")
    BY <2>1, SetClosedEnds
  <2> QED
    BY <1>2, <1>3, <2>2 DEF Steady, Plain
<1>5. CASE UNCHANGED <<closed, consumers, ended, promises>>
  BY <1>2, <1>3, <1>5 DEF Steady, Plain, Ends, promises
<1> QED
  BY <1>4, <1>5

LEMMA GotCloseSteady == ASSUME BaseInv, GotClose PROVE Steady
<1>1. UNCHANGED <<handed, sent, dropped, used, serving, partial, jobs>> /\ ~Wired'
  BY ReceiveFrame DEF GotClose, Wired
<1> QED
  BY <1>1, CutSteady DEF GotClose

LEMMA ConnectionEndsSteady == ASSUME BaseInv, ConnectionEnds PROVE Steady
<1>1. UNCHANGED <<handed, sent, dropped, used, serving, partial, jobs>> /\ ~Wired'
  BY DEF ConnectionEnds, Wired, handVars, serverVars
<1> QED
  BY <1>1, CutSteady DEF ConnectionEnds

\* The steps of the promise
Unmoved(d) == /\ ended'[d] = ended[d] /\ (d \in consumers' <=> d \in consumers) /\ consume'[d] = consume[d]
              /\ sent'[d] = sent[d] /\ (d \in serving'.consumers => d \in serving.consumers)

LEMMA UnmovedReg ==
    ASSUME BaseInv, NEW d \in Consumer, Answered(d), Lives(d), Unmoved(d), \E t, b \in Nat : Moves(Of(d), t, b)
    PROVE  Answered(d)' /\ Lives(d)'
<1>1. PICK t \in Nat, b \in Nat : Moves(Of(d), t, b)
  OBVIOUS
<1>2. Answered(d)'
  BY <1>1, AnsweredMoved DEF Unmoved
<1>3. Lives(d)'
  BY DEF Lives, Unmoved
<1> QED
  BY <1>2, <1>3

LEMMA BasicConsumeReg == ASSUME BaseInv, RegInv, NEW c \in Consumer, BasicConsume(c) PROVE RegInv'
<1>1. /\ UNCHANGED <<ended, consumers, sent, partial, jobs, attached, sock>>
      /\ consume[c] = "none" /\ consume \in [Consumer -> PromiseState]
      /\ serving \in [open : BOOLEAN, consumers : SUBSET Consumer]
  BY DEF BasicConsume, chanVars, BaseInv, TypeOK
<1>2. Backlog' = Backlog /\ (Wired' => Wired)
  BY <1>1 DEF Backlog, Wired
<1>3. c \notin serving.consumers /\ sent[c] = <<>> /\ \A i \in Nat : ~Due(i, Registration(c))
  BY <1>1 DEF RegInv, Answered, Lives
<1>4. \A i \in Nat, m \in Message : ~Due(i, Delivery(c, m))
  BY <1>1, <1>3 DEF RegInv, Answered
<1>5. ASSUME NEW d \in Consumer, d # c PROVE Answered(d)' /\ Lives(d)'
  <2>1. Unmoved(d)
    <3>1. consume'[d] = consume[d]
      BY <1>1, <1>5, BasicConsumeRow
    <3>2. d \in serving'.consumers => d \in serving.consumers
      <4>1. \/ serving' = [serving EXCEPT !.consumers = serving.consumers \cup {c}]
            \/ serving' = serving
        BY BasicConsumeRow
      <4>2. CASE serving' = serving
        BY <4>2
      <4>3. CASE serving' = [serving EXCEPT !.consumers = serving.consumers \cup {c}]
        BY <4>3, <1>1, <1>5
      <4> QED
        BY <4>1, <4>2, <4>3
    <3> QED
      BY <1>1, <3>1, <3>2 DEF Unmoved
  <2>2. Of(d) \in SUBSET Job /\ Registration(c) \notin Of(d)
    BY <1>5, OfFacts
  <2>3. \E t, b \in Nat : Moves(Of(d), t, b)
    <3>1. CASE Same
      BY <1>2, <2>2, <3>1, SameMoves
    <3>2. CASE Added(Registration(c))
      BY <1>2, <2>2, <3>2, AddedMoves
    <3> QED
      BY <3>1, <3>2, BasicConsumeRow
  <2> QED
    BY <2>1, <2>3, UnmovedReg DEF RegInv
<1>6. consume'[c] \in {"asked", "rejected"}
  BY <1>1, BasicConsumeRow
<1>7. Lives(c)'
  BY <1>1, <1>6 DEF RegInv, Lives
<1>8. CASE Same /\ serving' = serving
  <2>1. \A i \in Nat : ~Due(i, Registration(c))' /\ \A m \in Message : ~Due(i, Delivery(c, m))'
    BY <1>3, <1>4, <1>8, JobForms DEF Same
  <2>2. Answered(c)'
    BY <1>3, <1>6, <1>8, <2>1 DEF Answered
  <2> QED
    BY <1>5, <1>7, <2>2 DEF RegInv
<1>9. CASE Added(Registration(c)) /\ consume' = [consume EXCEPT ![c] = "asked"]
  <2> PICK e \in Nat : e = End /\ ~(e <= Len(Backlog)) /\ Len(Backlog') = Len(Backlog)
    BY <1>2, DuePlace
  <2>1. \A i \in Nat : Due(i, Registration(c))' <=> i = e
    BY <1>3, <1>9, JobForms DEF Added
  <2>2. \A i \in Nat, m \in Message : ~Due(i, Delivery(c, m))'
    BY <1>4, <1>9, JobForms, JobsDiffer DEF Added
  <2>3. consume'[c] = "asked"
    BY <1>1, <1>9
  <2>4. Answered(c)'
    BY <2>1, <2>2, <2>3 DEF Answered
  <2> QED
    BY <1>5, <1>7, <2>4 DEF RegInv
<1> QED
  BY <1>8, <1>9, BasicConsumeRow

LEMMA BasicConsumeKept == ASSUME BaseInv, NEW c \in Consumer, BasicConsume(c) PROVE \E t, b \in Nat : Kept(t, b)
<1>1. UNCHANGED <<partial, jobs, attached, sock>>
  BY DEF BasicConsume, chanVars
<1>2. Backlog' = Backlog /\ (Wired' => Wired)
  BY <1>1 DEF Backlog, Wired
<1> DEFINE J == {x \in Job : x.do = "deliver"}
<1>3. /\ J \in SUBSET Job /\ Registration(c) \notin J
      /\ \A d \in Consumer, m \in Message : Delivery(d, m) \in J
  BY JobForms DEF Registration, Delivery
<1>4. \E t, b \in Nat : Moves(J, t, b)
  <2> HIDE DEF J
  <2>1. CASE Same
    BY <1>2, <1>3, <2>1, SameMoves
  <2>2. CASE Added(Registration(c))
    BY <1>2, <1>3, <2>2, AddedMoves
  <2> QED
    BY <2>1, <2>2, BasicConsumeRow
<1> QED
  BY <1>3, <1>4, MovesKept

LEMMA BasicConsumeFlow == ASSUME BaseInv, FlowInv, RegInv, NEW c \in Consumer, BasicConsume(c) PROVE FlowInv'
<1>1. /\ UNCHANGED <<ended, handed, sent, used>>
      /\ consume[c] = "none" /\ serving \in [open : BOOLEAN, consumers : SUBSET Consumer]
  BY DEF BasicConsume, chanVars, handVars, BaseInv, TypeOK
<1>2. sent[c] = <<>>
  BY <1>1 DEF RegInv, Lives
<1>3. \A d \in Consumer : d \in serving'.consumers => d \in serving.consumers \/ sent[d] = <<>>
  <2>1. \/ serving' = [serving EXCEPT !.consumers = serving.consumers \cup {c}]
        \/ serving' = serving
    BY BasicConsumeRow
  <2>2. CASE serving' = serving
    BY <2>2
  <2>3. CASE serving' = [serving EXCEPT !.consumers = serving.consumers \cup {c}]
    BY <2>3, <1>1, <1>2
  <2> QED
    BY <2>1, <2>2, <2>3
<1> QED
  BY <1>1, <1>3, BasicConsumeKept, FlowKept

LEMMA GotConsumeOkReg == ASSUME BaseInv, RegInv, GotConsumeOk PROVE RegInv'
<1>1. /\ UNCHANGED <<ended, consumers, sent, serving, attached, sock>>
      /\ consume \in [Consumer -> PromiseState]
  BY ReceiveFrame DEF GotConsumeOk, BaseInv, TypeOK
<1>2. PICK c \in Consumer :
          /\ Same /\ consume' = [consume EXCEPT ![c] = "answered"]
          /\ Due(Len(Backlog) + 1, Registration(c)) /\ Len(Backlog') = Len(Backlog) + 1
  BY GotConsumeOkRow
<1>3. Wired' => Wired
  BY <1>1 DEF Wired
<1>4. ASSUME NEW d \in Consumer, d # c PROVE Answered(d)' /\ Lives(d)'
  <2>1. Unmoved(d)
    BY <1>1, <1>2, <1>4 DEF Unmoved
  <2>2. Of(d) \in SUBSET Job
    BY OfFacts
  <2>3. \A x \in Consumer : Registration(x) \in Of(d) => ~Due(Len(Backlog) + 1, Registration(x))
    BY <1>2, <1>4, OfFacts, DueAlone, JobsDiffer
  <2>4. \E t, b \in Nat : Moves(Of(d), t, b)
    BY <1>2, <1>3, <2>2, <2>3, SameMoves
  <2> QED
    BY <2>1, <2>4, UnmovedReg DEF RegInv
<1> PICK B \in Nat : B = Len(Backlog)
  BY DuePlace
<1>5. /\ \A i, j \in Nat : Due(i, Registration(c)) /\ Due(j, Registration(c)) => i = j
      /\ Due(B + 1, Registration(c)) /\ consume[c] = "asked" /\ ~(B + 1 <= B)
  BY <1>2 DEF RegInv, Answered
<1>6. consume'[c] = "answered"
  BY <1>1, <1>2
<1>7. /\ \A i \in Nat : Due(i, Registration(c))' <=> Due(i, Registration(c))
      /\ \A i \in Nat, m \in Message : Due(i, Delivery(c, m))' <=> Due(i, Delivery(c, m))
  BY <1>2, JobForms DEF Same
<1>8. Lives(c)'
  BY <1>1, <1>5, <1>6 DEF RegInv, Lives
<1>9. \A i \in Nat, m \in Message : Due(i, Delivery(c, m)) => \E j \in Nat : j < i /\ Due(j, Registration(c))
  BY <1>5 DEF RegInv, Answered
<1>10. \A i \in Nat : Due(i, Registration(c)) => i = B + 1
  BY <1>5
<1>11. Answered(c)'
  BY <1>2, <1>5, <1>6, <1>7, <1>9, <1>10 DEF Answered
<1> QED
  BY <1>4, <1>8, <1>11 DEF RegInv

LEMMA GotConsumeOkKept == ASSUME BaseInv, GotConsumeOk PROVE \E t, b \in Nat : Kept(t, b)
<1>1. Wired' => Wired
  BY ReceiveFrame DEF GotConsumeOk, Wired
<1> DEFINE J == {x \in Job : x.do = "deliver"}
<1>2. /\ J \in SUBSET Job /\ \A c \in Consumer : Registration(c) \notin J
      /\ \A d \in Consumer, m \in Message : Delivery(d, m) \in J
  BY JobForms DEF Registration, Delivery
<1>3. \E t, b \in Nat : Moves(J, t, b)
  <2> HIDE DEF J
  <2> QED
    BY <1>1, <1>2, GotConsumeOkRow, SameMoves
<1> QED
  BY <1>2, <1>3, MovesKept

LEMMA GotConsumeOkFlow == ASSUME BaseInv, FlowInv, GotConsumeOk PROVE FlowInv'
<1>1. UNCHANGED <<ended, handed, sent, used, serving>>
  BY ReceiveFrame DEF GotConsumeOk
<1> QED
  BY <1>1, GotConsumeOkKept, FlowKept

LEMMA RegisterReg == ASSUME BaseInv, RegInv, Register PROVE RegInv'
<1> PICK c \in Consumer : c = jobs[1].consumer /\ jobs[1] = Registration(c)
  BY RunBase, JobForms, FrameFacts, JobFacts DEF Register
<1>1. /\ UNCHANGED <<ended, sent, serving, attached, sock>> /\ Run("register")
      /\ consumers' = consumers \cup {c} /\ consume' = [consume EXCEPT ![c] = "fulfilled"]
      /\ consume \in [Consumer -> PromiseState]
  BY RunBase DEF Register, BaseInv, TypeOK
<1>2. Ran /\ Due(1, Registration(c)) /\ \A x : Due(1, x) => x = Registration(c)
  BY <1>1, RanRow
<1>3. ASSUME NEW d \in Consumer, d # c PROVE Answered(d)' /\ Lives(d)'
  <2>1. Unmoved(d)
    BY <1>1, <1>3 DEF Unmoved
  <2>2. Of(d) \in SUBSET Job /\ Registration(c) \notin Of(d)
    BY <1>3, OfFacts
  <2>3. \A x \in Of(d) : ~Due(1, x)
    BY <1>2, <2>2
  <2>4. \E t, b \in Nat : Moves(Of(d), t, b)
    BY <1>1, <2>2, <2>3, RanMoves
  <2> QED
    BY <2>1, <2>4, UnmovedReg DEF RegInv
<1>4. consume[c] \in {"asked", "answered"} /\ \A i \in Nat : Due(i, Registration(c)) => i = 1
  BY <1>2 DEF RegInv, Answered
<1>5. \A i \in Nat : ~Due(i, Registration(c))'
  BY <1>2, <1>4, JobForms DEF Ran
<1>6. consume'[c] = "fulfilled"
  BY <1>1
<1>7. Answered(c)'
  BY <1>5, <1>6 DEF Answered
<1>8. Lives(c)'
  BY <1>1, <1>4, <1>6 DEF RegInv, Lives
<1> QED
  BY <1>3, <1>7, <1>8 DEF RegInv

LEMMA RegisterKept == ASSUME BaseInv, Register PROVE \E t, b \in Nat : Kept(t, b)
<1>1. Run("register")
  BY DEF Register
<1> DEFINE J == {x \in Job : x.do = "deliver"}
<1>2. J \in SUBSET Job /\ \A d \in Consumer, m \in Message : Delivery(d, m) \in J
  BY JobForms DEF Delivery
<1>3. \A x \in J : ~Due(1, x)
  <2>1. jobs[1].do = "register" /\ \A x : Due(1, x) => x = jobs[1]
    BY <1>1, RunBase, RanRow
  <2> QED
    BY <2>1
<1>4. \E t, b \in Nat : Moves(J, t, b)
  <2> HIDE DEF J
  <2> QED
    BY <1>1, <1>2, <1>3, RanMoves
<1> QED
  BY <1>2, <1>4, MovesKept

LEMMA RegisterFlow == ASSUME BaseInv, FlowInv, Register PROVE FlowInv'
<1>1. UNCHANGED <<ended, handed, sent, used, serving>>
  BY RunBase DEF Register
<1> QED
  BY <1>1, RegisterKept, FlowKept

LEMMA DeliverFacts ==
    ASSUME BaseInv, RegInv, Deliver
    PROVE  \E c \in Consumer, m \in Message :
              /\ jobs[1] = Delivery(c, m) /\ Due(1, Delivery(c, m)) /\ consume[c] = "fulfilled"
              /\ \A x : Due(1, x) => x = Delivery(c, m)
              /\ Ran /\ Run("deliver")
              /\ UNCHANGED <<consumers, consume, ended, sent, used, serving, closed, attached, sock>>
              /\ \/ c \in consumers /\ handed' = [handed EXCEPT ![c] = Append(handed[c], m)] /\ dropped' = dropped
                 \/ c \notin consumers /\ handed' = handed /\ dropped' = dropped \cup {m}
<1>1. Run("deliver") /\ UNCHANGED <<sent, used, serving, closed, attached, sock>>
  BY RunBase DEF Deliver
<1>2. PICK c \in Consumer, m \in Message :
          c = Head(jobs).consumer /\ m = Head(jobs).message /\ jobs[1] = Delivery(c, m)
  BY <1>1, RunBase, JobForms, JobFacts
<1>3. Ran /\ Due(1, Delivery(c, m)) /\ \A x : Due(1, x) => x = Delivery(c, m)
  BY <1>1, <1>2, RanRow
<1>4. consume[c] = "fulfilled"
  <2>1. consume[c] = "fulfilled" \/ \E j \in Nat : j < 1 /\ Due(j, Registration(c))
    BY <1>3 DEF RegInv, Answered
  <2> QED
    BY <2>1, DuePlace
<1>5. /\ UNCHANGED <<consumers, consume, ended>>
      /\ \/ c \in consumers /\ handed' = [handed EXCEPT ![c] = Append(handed[c], m)] /\ dropped' = dropped
         \/ c \notin consumers /\ handed' = handed /\ dropped' = dropped \cup {m}
  BY <1>2 DEF Deliver
<1> QED
  BY <1>1, <1>2, <1>3, <1>4, <1>5

LEMMA DeliverReg == ASSUME BaseInv, RegInv, Deliver PROVE RegInv'
<1>1. PICK c \in Consumer, m \in Message :
          /\ consume[c] = "fulfilled" /\ \A x : Due(1, x) => x = Delivery(c, m)
          /\ Ran /\ Run("deliver")
          /\ UNCHANGED <<consumers, consume, ended, sent, serving>>
  BY DeliverFacts
<1>2. ASSUME NEW d \in Consumer, d # c PROVE Answered(d)' /\ Lives(d)'
  <2>1. Unmoved(d)
    BY <1>1 DEF Unmoved
  <2>2. Of(d) \in SUBSET Job /\ Delivery(c, m) \notin Of(d)
    BY <1>2, OfFacts
  <2>3. \A x \in Of(d) : ~Due(1, x)
    BY <1>1, <2>2
  <2>4. \E t, b \in Nat : Moves(Of(d), t, b)
    BY <1>1, <2>2, <2>3, RanMoves
  <2> QED
    BY <2>1, <2>4, UnmovedReg DEF RegInv
<1>3. \A i \in Nat : ~Due(i, Registration(c))
  BY <1>1 DEF RegInv, Answered
<1>4. \A i \in Nat : ~Due(i, Registration(c))'
  BY <1>1, <1>3, JobForms DEF Ran
<1>5. Answered(c)'
  BY <1>1, <1>4 DEF Answered
<1>6. Lives(c)'
  BY <1>1 DEF RegInv, Lives
<1> QED
  BY <1>2, <1>5, <1>6 DEF RegInv

\* The message that is handed over is the first that was not.
LEMMA DeliverNext ==
    ASSUME BaseInv, FlowInv, NEW c \in Consumer, NEW m \in Message, Due(1, Delivery(c, m)), ended[c] = "no"
    PROVE  Len(handed[c]) + 1 \in Unhanded(c) /\ sent[c][Len(handed[c]) + 1] = m
<1>1. PICK l \in Unhanded(c) :
          /\ sent[c][l] = m
          /\ \A k \in Unhanded(c) : k < l => \E j \in Nat : j < 1 /\ Due(j, Delivery(c, sent[c][k]))
  BY DEF FlowInv, DueInOrder, Preceded
<1>2. \A k \in Unhanded(c) : ~(k < l)
  BY <1>1, DuePlace
<1>3. l = Len(handed[c]) + 1
  BY <1>2, SentFacts DEF Unhanded
<1> QED
  BY <1>1, <1>3

LEMMA DeliverFlow == ASSUME BaseInv, FlowInv, RegInv, Deliver PROVE FlowInv'
<1>1. PICK c \in Consumer, m \in Message :
          /\ Due(1, Delivery(c, m)) /\ consume[c] = "fulfilled" /\ \A x : Due(1, x) => x = Delivery(c, m)
          /\ Ran /\ UNCHANGED <<consumers, ended, sent, used, serving, attached, sock>>
          /\ \/ c \in consumers /\ handed' = [handed EXCEPT ![c] = Append(handed[c], m)]
             \/ c \notin consumers /\ handed' = handed
  BY DeliverFacts
<1>2. Wired' = Wired
  BY <1>1 DEF Wired
<1>3. ended[c] = "no" <=> c \in consumers
  BY <1>1 DEF RegInv, Lives
<1>4. \A i \in Nat, d \in Consumer, n \in Message :
          Due(i, Delivery(d, n))' <=> i # 0 /\ Due(i + 1, Delivery(d, n))
  BY <1>1, JobForms DEF Ran
<1>5. SentOnce'
  BY <1>1 DEF FlowInv, SentOnce
<1>6. c \in consumers => Len(handed[c]) + 1 \in Unhanded(c) /\ sent[c][Len(handed[c]) + 1] = m
  BY <1>1, <1>3, DeliverNext
<1>7. c \in consumers =>
        /\ Len(handed'[c]) = Len(handed[c]) + 1 /\ handed'[c][Len(handed[c]) + 1] = m
        /\ \A i \in 1 .. Len(handed[c]) : handed'[c][i] = handed[c][i]
  <2> SUFFICES ASSUME c \in consumers
               PROVE  /\ Len(handed'[c]) = Len(handed[c]) + 1 /\ handed'[c][Len(handed[c]) + 1] = m
                      /\ \A i \in 1 .. Len(handed[c]) : handed'[c][i] = handed[c][i]
    OBVIOUS
  <2>1. handed'[c] = Append(handed[c], m) /\ handed[c] \in Seq(Message)
    BY <1>1 DEF BaseInv, TypeOK
  <2> QED
    BY <2>1
<1>8. \A d \in Consumer : handed'[d] = handed[d] \/ (d = c /\ c \in consumers)
  BY <1>1 DEF BaseInv, TypeOK
<1>9. HandedFirst'
  <2> SUFFICES ASSUME NEW d \in Consumer
               PROVE  /\ Len(handed'[d]) <= Len(sent[d])
                      /\ \A i \in 1 .. Len(handed'[d]) : handed'[d][i] = sent[d][i]
    BY <1>1 DEF HandedFirst
  <2>1. Len(handed[d]) <= Len(sent[d]) /\ \A i \in 1 .. Len(handed[d]) : handed[d][i] = sent[d][i]
    BY DEF FlowInv, HandedFirst
  <2>2. CASE handed'[d] = handed[d]
    BY <2>1, <2>2
  <2>3. CASE d = c /\ c \in consumers
    <3>1. Len(handed[c]) + 1 <= Len(sent[c]) /\ Len(handed[c]) \in Nat
      BY <1>6, <2>3, SentFacts DEF Unhanded
    <3>2. \A i \in 1 .. Len(handed'[c]) : i \in 1 .. Len(handed[c]) \/ i = Len(handed[c]) + 1
      BY <1>7, <2>3, <3>1
    <3> QED
      BY <1>6, <1>7, <2>1, <2>3, <3>1, <3>2
  <2> QED
    BY <1>8, <2>2, <2>3
<1>10. DueOnce'
  <2> SUFFICES ASSUME NEW d \in Consumer, NEW n \in Message, NEW i \in Nat, NEW j \in Nat,
                      Due(i, Delivery(d, n))', Due(j, Delivery(d, n))'
               PROVE  i = j
    BY DEF DueOnce
  <2>1. i + 1 = j + 1
    BY <1>4 DEF FlowInv, DueOnce
  <2> QED
    BY <2>1
<1>11. DueIsSent'
  <2> SUFFICES ASSUME NEW d \in Consumer, NEW n \in Message, NEW i \in Nat, Due(i, Delivery(d, n))'
               PROVE  \E k \in 1 .. Len(sent[d]) : sent[d][k] = n
    BY <1>1 DEF DueIsSent
  <2>1. Due(i + 1, Delivery(d, n)) /\ i + 1 \in Nat
    BY <1>4
  <2> QED
    BY <2>1 DEF FlowInv, DueIsSent
<1>12. ASSUME NEW d \in Consumer, ended[d] = "no"
       PROVE  /\ \A k \in Unhanded(d)' : k \in Unhanded(d) /\ Delivery(d, sent[d][k]) # Delivery(c, m)
              /\ \A k \in Unhanded(d) : Delivery(d, sent[d][k]) # Delivery(c, m) => k \in Unhanded(d)'
  <2>1. CASE d # c
    <3>1. Unhanded(d)' = Unhanded(d)
      BY <1>1, <1>8, <2>1 DEF Unhanded
    <3> QED
      BY <2>1, <3>1, JobsDiffer
  <2>2. CASE d = c
    <3>1. c \in consumers
      BY <1>3, <1>12, <2>2
    <3>2. Len(handed[c]) \in Nat /\ Len(sent[c]) \in Nat
      BY SentFacts
    <3>3. \A k \in Unhanded(c)' : k \in Unhanded(c) /\ k # Len(handed[c]) + 1
      BY <1>1, <1>7, <3>1, <3>2 DEF Unhanded
    <3>4. \A k \in Unhanded(c) : k # Len(handed[c]) + 1 => k \in Unhanded(c)'
      BY <1>1, <1>7, <3>1, <3>2 DEF Unhanded
    <3>5. \A k \in Unhanded(c) : k # Len(handed[c]) + 1 <=> sent[c][k] # m
      BY <1>6, <3>1, SentFacts DEF FlowInv, SentOnce
    <3> QED
      BY <2>2, <3>3, <3>4, <3>5, JobsDiffer
  <2> QED
    BY <2>1, <2>2
\* what is due and not handed over moves up by one
<1>13. \A j \in Nat, d \in Consumer, n \in Message :
          Due(j, Delivery(d, n)) /\ Delivery(d, n) # Delivery(c, m) => \E i \in Nat : j = i + 1 /\ Due(i, Delivery(d, n))'
  <2> SUFFICES ASSUME NEW j \in Nat, NEW d \in Consumer, NEW n \in Message,
                      Due(j, Delivery(d, n)), Delivery(d, n) # Delivery(c, m)
               PROVE  \E i \in Nat : j = i + 1 /\ Due(i, Delivery(d, n))'
    OBVIOUS
  <2>1. j # 1 /\ 0 < j
    BY <1>1, DuePlace
  <2>2. j - 1 \in Nat /\ j - 1 # 0 /\ (j - 1) + 1 = j
    BY <2>1
  <2> QED
    BY <1>4, <2>2
<1>14. ASSUME NEW d \in Consumer, ended'[d] = "no" PROVE Preceded(d)'
  <2> SUFFICES ASSUME NEW n \in Message, NEW i \in Nat, Due(i, Delivery(d, n))'
               PROVE  \E l \in Unhanded(d)' :
                        /\ sent[d][l] = n
                        /\ \A k \in Unhanded(d)' : k < l => \E j \in Nat : j < i /\ Due(j, Delivery(d, sent[d][k]))'
    BY <1>1 DEF Preceded
  <2>1. ended[d] = "no"
    BY <1>1, <1>14
  <2>2. i # 0 /\ Due(i + 1, Delivery(d, n)) /\ i + 1 \in Nat
    BY <1>4
  <2>3. PICK l \in Unhanded(d) :
           /\ sent[d][l] = n
           /\ \A k \in Unhanded(d) : k < l => \E j \in Nat : j < i + 1 /\ Due(j, Delivery(d, sent[d][k]))
    BY <2>1, <2>2 DEF FlowInv, DueInOrder, Preceded
  <2>4. Delivery(d, n) # Delivery(c, m)
    <3>1. CASE Delivery(d, n) = Delivery(c, m)
      <4>1. Due(1, Delivery(d, n))
        BY <1>1, <3>1
      <4>2. i + 1 = 1
        BY <2>2, <4>1 DEF FlowInv, DueOnce
      <4> QED
        BY <2>2, <4>2
    <3> QED
      BY <3>1
  <2>5. l \in Unhanded(d)'
    BY <1>12, <2>1, <2>3, <2>4
  <2>6. ASSUME NEW k \in Unhanded(d)', k < l
        PROVE  \E j \in Nat : j < i /\ Due(j, Delivery(d, sent[d][k]))'
    <3>1. k \in Unhanded(d) /\ Delivery(d, sent[d][k]) # Delivery(c, m)
      BY <1>12, <2>1
    <3>2. sent[d][k] \in Message
      BY <3>1, SentFacts
    <3>3. PICK j \in Nat : j < i + 1 /\ Due(j, Delivery(d, sent[d][k]))
      BY <2>3, <2>6, <3>1
    <3>4. PICK p \in Nat : j = p + 1 /\ Due(p, Delivery(d, sent[d][k]))'
      BY <1>1, <1>13, <3>1, <3>2, <3>3
    <3> QED
      BY <3>3, <3>4
  <2> QED
    BY <2>3, <2>5, <2>6
<1>15. ASSUME NEW d \in Consumer, ended'[d] = "no", Wired', d \in serving'.consumers PROVE Awaited(d)'
  <2> SUFFICES ASSUME NEW k \in Unhanded(d)' PROVE \E j \in Nat : Due(j, Delivery(d, sent[d][k]))'
    BY DEF Awaited
  <2>1. ended[d] = "no" /\ Wired /\ d \in serving.consumers
    BY <1>1, <1>2, <1>15
  <2>2. k \in Unhanded(d) /\ Delivery(d, sent[d][k]) # Delivery(c, m)
    BY <1>12, <2>1
  <2>3. sent[d][k] \in Message
    BY <2>2, SentFacts
  <2>4. PICK j \in Nat : Due(j, Delivery(d, sent[d][k]))
    BY <2>1, <2>2 DEF FlowInv, DueInOrder, Awaited
  <2>5. \E i \in Nat : j = i + 1 /\ Due(i, Delivery(d, sent[d][k]))'
    BY <1>1, <1>13, <2>2, <2>3, <2>4
  <2> QED
    BY <2>5
<1>16. DueInOrder'
  BY <1>14, <1>15 DEF DueInOrder
<1> QED
  BY <1>5, <1>9, <1>10, <1>11, <1>16 DEF FlowInv

LEMMA ServerDeliversReg ==
    ASSUME BaseInv, RegInv, NEW c \in Consumer, NEW m \in Message, NEW k \in 0 .. MaxBodies, ServerDelivers(c, m, k)
    PROVE  RegInv'
<1>1. /\ UNCHANGED <<ended, consumers, consume, serving, attached, sock, partial, jobs>>
      /\ c \in serving.consumers
      /\ \A d \in Consumer : d # c => sent'[d] = sent[d]
  BY DEF ServerDelivers, Server, chanVars, promises, BaseInv, TypeOK
<1>2. Backlog' = Backlog /\ Wired' = Wired
  BY <1>1 DEF Backlog, Wired
<1>3. ASSUME NEW d \in Consumer, d # c PROVE Answered(d)' /\ Lives(d)'
  <2>1. Unmoved(d)
    BY <1>1, <1>3 DEF Unmoved
  <2>2. Of(d) \in SUBSET Job /\ Delivery(c, m) \notin Of(d)
    BY <1>3, OfFacts
  <2>3. \E t, b \in Nat : Moves(Of(d), t, b)
    <3>1. CASE Wired
      BY <1>2, <2>2, <3>1, AddedMoves, ServerDeliversRow
    <3>2. CASE ~Wired
      BY <1>2, <2>2, <3>2, SameMoves, ServerDeliversRow
    <3> QED
      BY <3>1, <3>2
  <2> QED
    BY <2>1, <2>3, UnmovedReg DEF RegInv
<1>4. Lives(c)'
  BY <1>1 DEF RegInv, Lives
<1> PICK e \in Nat : e = End /\ \A i, x : Due(i, x) => i < e
  BY DuePlace
<1>5. \A i \in Nat : Due(i, Registration(c))' <=> Due(i, Registration(c))
  BY ServerDeliversRow, JobForms, JobsDiffer DEF Same, Added
<1>6. \A i \in Nat, n \in Message : Due(i, Delivery(c, n))' => Due(i, Delivery(c, n)) \/ (Wired /\ i = e)
  BY ServerDeliversRow, JobForms DEF Same, Added
<1>7. Wired => consume[c] = "fulfilled" \/ \E j \in Nat : j < e /\ Due(j, Registration(c))
  BY <1>1 DEF RegInv, Answered
<1>8. \A i \in Nat, n \in Message : Due(i, Delivery(c, n))' =>
          consume[c] = "fulfilled" \/ \E j \in Nat : j < i /\ Due(j, Registration(c))
  BY <1>6, <1>7 DEF RegInv, Answered
<1>9. Answered(c)'
  <2>1. Answered(c)
    BY DEF RegInv
  <2> QED
    BY <1>1, <1>2, <1>5, <1>8, <2>1 DEF Answered
<1> QED
  BY <1>3, <1>4, <1>9 DEF RegInv

LEMMA SteadyLasting == ASSUME Steady PROVE Plain(Lasting)
BY LastingFacts, PlainFewer DEF Steady

\* One step of the channel, of its application or of the broker
LEMMA StepFlow == ASSUME BaseInv, RegInv, FlowInv, [Next]_vars PROVE RegInv' /\ FlowInv'
<1>1. ASSUME Plain(Lasting) PROVE RegInv' /\ FlowInv'
  BY <1>1, PlainReg, PlainFlow
<1>2. ASSUME Steady PROVE RegInv' /\ FlowInv'
  BY <1>1, <1>2, SteadyLasting
<1>3. CASE UNCHANGED vars
  BY <1>2, <1>3, StutterSteady
<1>4. CASE Application
  <2>1. ASSUME NEW c \in Consumer, BasicConsume(c) PROVE RegInv' /\ FlowInv'
    BY <2>1, BasicConsumeReg, BasicConsumeFlow
  <2>2. ASSUME NEW c \in Consumer, Cancel(c) PROVE RegInv' /\ FlowInv'
    BY <1>1, <2>2, CancelPlain
  <2>3. ASSUME NEW c \in Consumer, NEW w \in Waiter, NEW timed \in BOOLEAN, Wait(w, c, timed)
        PROVE  RegInv' /\ FlowInv'
    BY <1>2, <2>3, WaitSteady
  <2>4. CASE BasicGet
    BY <1>2, <2>4, BasicGetSteady
  <2>5. CASE CloseChannel
    BY <1>2, <2>5, CloseChannelSteady
  <2> QED
    BY <1>4, <2>1, <2>2, <2>3, <2>4, <2>5 DEF Application
<1>5. CASE Handler
  <2>1. CASE GotConsumeOk
    BY <2>1, GotConsumeOkReg, GotConsumeOkFlow
  <2>2. CASE Register
    BY <2>2, RegisterReg, RegisterFlow
  <2>3. CASE Deliver
    BY <2>3, DeliverReg, DeliverFlow
  <2>4. CASE Cancelled
    BY <1>1, <2>4, CancelledPlain
  <2>5. CASE SkipFrame \/ GotCancelOk \/ GotCancel \/ GotGetEmpty \/ GotMethod \/ GotHeader \/ GotBody \/ GotClose
    BY <1>2, <2>5, SkipFrameSteady, GotCancelOkSteady, GotCancelSteady, GotGetEmptySteady, GotMethodSteady,
       GotPartSteady, GotCloseSteady
  <2> QED
    BY <1>5, <2>1, <2>2, <2>3, <2>4, <2>5 DEF Handler
<1>6. CASE Broker
  <2>1. ASSUME NEW c \in Consumer, NEW m \in Message, NEW k \in 0 .. MaxBodies, ServerDelivers(c, m, k)
        PROVE  RegInv' /\ FlowInv'
    BY <2>1, ServerDeliversReg, ServerDeliversFlow
  <2>2. ASSUME NEW m \in Message, NEW k \in 0 .. MaxBodies, ServerReturns(m, k) PROVE RegInv' /\ FlowInv'
    BY <1>2, <2>2, ServerReturnsSteady
  <2>3. ASSUME NEW c \in Consumer, ServerCancels(c) PROVE RegInv' /\ FlowInv'
    BY <1>2, <2>3, ServerCancelsSteady
  <2>4. CASE ServerCloses
    BY <1>2, <2>4, ServerClosesSteady
  <2> QED
    BY <1>6, <2>1, <2>2, <2>3, <2>4 DEF Broker
<1>7. CASE ConnectionEnds
  BY <1>2, <1>7, ConnectionEndsSteady
<1>8. ASSUME NEW w \in Waiter, Timeout(w) PROVE RegInv' /\ FlowInv'
  BY <1>2, <1>8, TimeoutSteady
<1> QED
  BY <1>3, <1>4, <1>5, <1>6, <1>7, <1>8 DEF Next

LEMMA InitRow == ASSUME Init PROVE \A i, x : ~Due(i, x)
<1>1. jobs = <<>> /\ toClient = <<>> /\ partial.delivery = None
  BY DEF Init, Nothing
<1>2. Backlog = <<>> /\ Wire = <<>>
  BY <1>1 DEF Backlog, Wire
<1> QED
  BY <1>2 DEF Due, DueIn

LEMMA InitFlow == Init => RegInv /\ FlowInv
<1> SUFFICES ASSUME Init PROVE RegInv /\ FlowInv
  OBVIOUS
<1>1. \A c \in Consumer : /\ consume[c] = "none" /\ ended[c] = "no" /\ handed[c] = <<>> /\ sent[c] = <<>>
                          /\ c \notin consumers /\ c \notin serving.consumers
  BY DEF Init
<1>2. RegInv
  BY <1>1, InitRow DEF RegInv, Answered, Lives
<1>3. SentOnce /\ HandedFirst /\ DueOnce /\ DueIsSent
  BY <1>1, InitRow DEF SentOnce, HandedFirst, DueOnce, DueIsSent
<1>4. DueInOrder
  BY <1>1, InitRow DEF DueInOrder, Preceded, Awaited
<1> QED
  BY <1>2, <1>3, <1>4 DEF FlowInv

LEMMA FlowInvariance == Spec => [](BaseInv /\ RegInv /\ FlowInv)
<1>1. Init => RegInv /\ FlowInv
  BY InitFlow
<1>2. BaseInv /\ RegInv /\ FlowInv /\ [Next]_vars => RegInv' /\ FlowInv'
  BY StepFlow
<1> QED
  BY <1>1, <1>2, BaseInvariance, PTL DEF Spec

\* Once a consumer has ended, whatever ended it, its callback is not called any more:
\* AMQPChannel.deliver looks the consumer up when the microtask runs, and ends and
\* removals go together.
THEOREM EndedIsQuietHolds == Spec => EndedIsQuiet
<1>1. ASSUME BaseInv, RegInv, FlowInv, [Next]_vars
      PROVE  [\A c \in Consumer : ended[c] # "no" => handed'[c] = handed[c]]_vars
  <2> USE <1>1
  <2>1. CASE Deliver
    <3>1. PICK c \in Consumer, m \in Message :
              \/ c \in consumers /\ handed' = [handed EXCEPT ![c] = Append(handed[c], m)]
              \/ c \notin consumers /\ handed' = handed
      BY <2>1, DeliverFacts
    <3>2. c \in consumers => ended[c] = "no"
      BY DEF RegInv, Lives
    <3>3. \A d \in Consumer : d # c => handed'[d] = handed[d]
      BY <3>1 DEF BaseInv, TypeOK
    <3> QED
      BY <3>1, <3>2, <3>3
  <2>2. CASE handed' = handed
    BY <2>2
  <2>3. Handler => Deliver \/ handed' = handed
    BY ReceiveFrame DEF Handler, SkipFrame, GotConsumeOk, GotCancelOk, GotCancel, GotGetEmpty, GotMethod, GotHeader,
       GotBody, GotClose, Register, Cancelled
  <2>4. Application \/ Broker \/ ConnectionEnds \/ (\E w \in Waiter : Timeout(w)) \/ UNCHANGED vars => handed' = handed
    BY DEF Application, BasicConsume, BasicGet, Cancel, Wait, CloseChannel, Broker, ServerDelivers, ServerReturns,
       ServerCancels, ServerCloses, Server, ConnectionEnds, Timeout, handVars, vars
  <2> QED
    BY <2>1, <2>2, <2>3, <2>4 DEF Next
<1> QED
  BY <1>1, FlowInvariance, PTL DEF Spec, EndedIsQuiet

----------------------------------------------------------------------------
(* Why a message is dropped *)

\* As long as the channel is open, nothing is due for a consumer that the client cancelled
\* and that has ended, and nothing follows an answer to a cancel.
Cause(c) ==
    /\ ended[c] = "closed" => c \notin serving.consumers /\ \A i \in Nat, m \in Message : ~Due(i, Delivery(c, m))
    /\ \A i \in Nat : Due(i, Cancellation(c)) =>
          /\ c \notin serving.consumers /\ consume[c] # "none"
          /\ \A j \in Nat, m \in Message : Due(j, Delivery(c, m)) => j < i
CauseInv == (closed \/ \A c \in Consumer : Cause(c)) /\ DroppedForCause

Mine(c) == {Cancellation(c)} \cup {Delivery(c, m) : m \in Message}

LEMMA MineFacts ==
    ASSUME NEW c \in Consumer
    PROVE  /\ Mine(c) \in SUBSET Job /\ Cancellation(c) \in Mine(c)
           /\ \A m \in Message : Delivery(c, m) \in Mine(c)
           /\ \A d : Registration(d) \notin Mine(c)
           /\ \A d : d # c => Cancellation(d) \notin Mine(c) /\ \A m : Delivery(d, m) \notin Mine(c)
BY JobForms, JobsDiffer DEF Mine

LEMMA CauseMoved ==
    ASSUME NEW c \in Consumer, Cause(c), NEW t \in Nat, NEW b \in Nat, Moves(Mine(c), t, b),
           ended'[c] = "closed" => ended[c] = "closed",
           c \in serving'.consumers => c \in serving.consumers,
           consume'[c] = "none" => consume[c] = "none"
    PROVE  Cause(c)'
<1>1. \A i \in Nat, x \in Mine(c) : Due(i, x)' => Was(i, t) \in Nat /\ Due(Was(i, t), x)
  BY WasOrder DEF Moves
<1>2. Cancellation(c) \in Mine(c) /\ \A m \in Message : Delivery(c, m) \in Mine(c)
  BY MineFacts
<1>3. ended'[c] = "closed" =>
          c \notin serving'.consumers /\ \A i \in Nat, m \in Message : ~Due(i, Delivery(c, m))'
  BY <1>1, <1>2 DEF Cause
<1>4. ASSUME NEW i \in Nat, Due(i, Cancellation(c))'
      PROVE  /\ c \notin serving'.consumers /\ consume'[c] # "none"
             /\ \A j \in Nat, m \in Message : Due(j, Delivery(c, m))' => j < i
  <2>1. Was(i, t) \in Nat /\ Due(Was(i, t), Cancellation(c))
    BY <1>1, <1>2, <1>4
  <2>2. c \notin serving'.consumers /\ consume'[c] # "none"
    BY <2>1 DEF Cause
  <2>3. ASSUME NEW j \in Nat, NEW m \in Message, Due(j, Delivery(c, m))' PROVE j < i
    <3>1. Was(j, t) \in Nat /\ Due(Was(j, t), Delivery(c, m))
      BY <1>1, <1>2, <2>3
    <3>2. Was(j, t) < Was(i, t)
      BY <2>1, <3>1 DEF Cause
    <3> QED
      BY <3>2, WasOrder
  <2> QED
    BY <2>2, <2>3
<1> QED
  BY <1>3, <1>4 DEF Cause

LEMMA DroppedKept ==
    ASSUME DroppedForCause, closed => closed', dropped' = dropped,
           \A c \in Consumer : ended[c] = "error" => ended'[c] = "error",
           \A c \in Consumer : ToSet(sent[c]) \subseteq ToSet(sent'[c])
    PROVE  DroppedForCause'
BY DEF DroppedForCause

LEMMA SteadyCause == ASSUME BaseInv, RegInv, CauseInv, Steady PROVE CauseInv'
<1>1. Plain(Job) /\ (closed => closed') /\ (~closed' => \A c \in Consumer : ended'[c] = "closed" => ended[c] = "closed")
  BY DEF Steady
<1>2. PICK t \in Nat, b \in Nat :
          /\ Moves(Job, t, b)
          /\ \A c \in Consumer : consume'[c] = consume[c] \/ (consume[c] = "asked" /\ consume'[c] = "rejected")
  BY <1>1 DEF Plain
<1>3. ASSUME ~closed', NEW c \in Consumer PROVE Cause(c)'
  <2>1. Cause(c)
    BY <1>1, <1>3 DEF CauseInv
  <2>2. Mine(c) \in SUBSET Job
    BY MineFacts
  <2>3. Moves(Mine(c), t, b)
    BY <1>2, <2>2, MovesFewer
  <2>4. c \in serving'.consumers => c \in serving.consumers
    BY <1>1 DEF Plain
  <2>5. consume'[c] = "none" => consume[c] = "none"
    BY <1>2
  <2> QED
    BY <1>1, <1>3, <2>1, <2>3, <2>4, <2>5, CauseMoved
<1>4. \A c \in Consumer : ended[c] = "error" => ended'[c] = "error"
  BY <1>1 DEF Plain, Ends, RegInv, Lives
<1>5. DroppedForCause'
  BY <1>1, <1>4, DroppedKept DEF CauseInv, Plain
<1> QED
  BY <1>3, <1>5 DEF CauseInv

LEMMA BasicConsumeCause == ASSUME BaseInv, RegInv, CauseInv, NEW c \in Consumer, BasicConsume(c) PROVE CauseInv'
<1>1. /\ UNCHANGED <<ended, sent, dropped, closed, partial, jobs, attached, sock>>
      /\ consume[c] = "none" /\ consume \in [Consumer -> PromiseState]
      /\ serving \in [open : BOOLEAN, consumers : SUBSET Consumer]
  BY DEF BasicConsume, chanVars, handVars, BaseInv, TypeOK
<1>2. Backlog' = Backlog /\ (Wired' => Wired)
  BY <1>1 DEF Backlog, Wired
<1>3. \A d \in Consumer : consume'[d] = "none" => consume[d] = "none"
  BY <1>1, BasicConsumeRow
<1>4. \A d \in Consumer : d # c => (d \in serving'.consumers => d \in serving.consumers)
  <2>1. \/ serving' = [serving EXCEPT !.consumers = serving.consumers \cup {c}]
        \/ serving' = serving
    BY BasicConsumeRow
  <2>2. CASE serving' = [serving EXCEPT !.consumers = serving.consumers \cup {c}]
    BY <2>2, <1>1
  <2> QED
    BY <2>1, <2>2
<1>5. ASSUME NEW d \in Consumer PROVE \E t, b \in Nat : Moves(Mine(d), t, b)
  <2>1. Mine(d) \in SUBSET Job /\ \A x \in Consumer : Registration(x) \notin Mine(d)
    BY MineFacts
  <2>2. CASE Same
    BY <1>2, <2>1, <2>2, SameMoves
  <2>3. CASE Added(Registration(c))
    BY <1>2, <2>1, <2>3, AddedMoves
  <2> QED
    BY <2>2, <2>3, BasicConsumeRow
<1>6. ASSUME ~closed', NEW d \in Consumer, d # c PROVE Cause(d)'
  <2>1. Cause(d)
    BY <1>1, <1>6 DEF CauseInv
  <2> QED
    BY <1>1, <1>3, <1>4, <1>5, <1>6, <2>1, CauseMoved
<1>7. ASSUME ~closed' PROVE Cause(c)'
  <2>1. ended[c] = "no" /\ \A i \in Nat : ~Due(i, Cancellation(c))
    BY <1>1, <1>7 DEF CauseInv, Cause, RegInv, Lives
  <2>2. PICK t \in Nat, b \in Nat : Moves(Mine(c), t, b)
    BY <1>5
  <2>3. \A i \in Nat : ~Due(i, Cancellation(c))'
    BY <2>1, <2>2, MineFacts, WasOrder DEF Moves
  <2> QED
    BY <1>1, <2>1, <2>3 DEF Cause
<1>8. DroppedForCause'
  BY <1>1, DroppedKept DEF CauseInv
<1> QED
  BY <1>6, <1>7, <1>8 DEF CauseInv

LEMMA CancelCause == ASSUME BaseInv, RegInv, CauseInv, NEW c \in Consumer, Cancel(c) PROVE CauseInv'
<1>1. /\ UNCHANGED <<ended, sent, dropped, consume, closed, partial, jobs, attached, sock>>
      /\ consume[c] = "fulfilled" /\ serving \in [open : BOOLEAN, consumers : SUBSET Consumer]
  BY DEF Cancel, chanVars, handVars, BaseInv, TypeOK
<1>2. Backlog' = Backlog /\ (Wired' => Wired)
  BY <1>1 DEF Backlog, Wired
<1>3. /\ serving'.consumers \subseteq serving.consumers
      /\ (Same /\ serving' = serving) \/ (Added(Cancellation(c)) /\ c \notin serving'.consumers)
  <2>1. CASE Same /\ serving' = serving
    BY <2>1
  <2>2. CASE Added(Cancellation(c)) /\ serving' = [serving EXCEPT !.consumers = serving.consumers \ {c}]
    BY <1>1, <2>2
  <2> QED
    BY <2>1, <2>2, CancelRow
<1>4. ASSUME ~closed', NEW d \in Consumer, Same \/ d # c PROVE Cause(d)'
  <2>1. Cause(d) /\ (d \in serving'.consumers => d \in serving.consumers)
    BY <1>1, <1>3, <1>4 DEF CauseInv
  <2>2. Mine(d) \in SUBSET Job /\ (d # c => Cancellation(c) \notin Mine(d))
    BY MineFacts
  <2>3. \A x \in Consumer : Registration(x) \notin Mine(d)
    BY MineFacts
  <2>4. \E t, b \in Nat : Moves(Mine(d), t, b)
    <3>1. CASE Same
      BY <1>2, <2>2, <2>3, <3>1, SameMoves
    <3>2. CASE d # c /\ Added(Cancellation(c))
      BY <1>2, <2>2, <3>2, AddedMoves
    <3> QED
      BY <1>3, <1>4, <3>1, <3>2
  <2> QED
    BY <1>1, <2>1, <2>4, CauseMoved
<1>5. ASSUME ~closed', Added(Cancellation(c)), c \notin serving'.consumers PROVE Cause(c)'
  <2> PICK e \in Nat : e = End /\ \A i, x : Due(i, x) => i \in Nat /\ i < e
    BY DuePlace
  <2>1. Cause(c)
    BY <1>1, <1>5 DEF CauseInv
  <2>2. /\ \A i \in Nat : Due(i, Cancellation(c))' <=> Due(i, Cancellation(c)) \/ i = e
        /\ \A i \in Nat, m \in Message : Due(i, Delivery(c, m))' <=> Due(i, Delivery(c, m))
    BY <1>5, JobForms, JobsDiffer DEF Added
  <2>3. \A i \in Nat, m \in Message : Due(i, Delivery(c, m)) => i < e
    OBVIOUS
  <2> QED
    BY <1>1, <1>5, <2>1, <2>2, <2>3 DEF Cause
<1>6. DroppedForCause'
  BY <1>1, DroppedKept DEF CauseInv
<1> QED
  BY <1>3, <1>4, <1>5, <1>6 DEF CauseInv

LEMMA GotConsumeOkCause == ASSUME BaseInv, RegInv, CauseInv, GotConsumeOk PROVE CauseInv'
<1>1. /\ UNCHANGED <<ended, sent, dropped, closed, serving, attached, sock>> /\ consume \in [Consumer -> PromiseState]
  BY ReceiveFrame DEF GotConsumeOk, BaseInv, TypeOK
<1>2. Wired' => Wired
  BY <1>1 DEF Wired
<1>3. PICK c \in Consumer :
          /\ Same /\ consume' = [consume EXCEPT ![c] = "answered"] /\ Len(Backlog') = Len(Backlog) + 1
  BY GotConsumeOkRow
<1>4. ASSUME ~closed', NEW d \in Consumer PROVE Cause(d)'
  <2>1. Cause(d) /\ (consume'[d] = "none" => consume[d] = "none")
    BY <1>1, <1>3, <1>4 DEF CauseInv
  <2>2. Mine(d) \in SUBSET Job /\ \A x \in Consumer : Registration(x) \notin Mine(d)
    BY MineFacts
  <2>3. \E t, b \in Nat : Moves(Mine(d), t, b)
    BY <1>2, <1>3, <2>2, SameMoves
  <2> QED
    BY <1>1, <2>1, <2>3, CauseMoved
<1>5. DroppedForCause'
  BY <1>1, DroppedKept DEF CauseInv
<1> QED
  BY <1>4, <1>5 DEF CauseInv

LEMMA RegisterCause == ASSUME BaseInv, RegInv, CauseInv, Register PROVE CauseInv'
<1>1. /\ UNCHANGED <<ended, sent, dropped, closed, serving>> /\ Run("register")
      /\ consume \in [Consumer -> PromiseState] /\ jobs[1].do = "register"
  BY RunBase DEF Register, BaseInv, TypeOK
<1>2. PICK c \in Consumer : consume' = [consume EXCEPT ![c] = "fulfilled"]
  BY <1>1, RunBase, JobFacts DEF Register
<1>3. ASSUME ~closed', NEW d \in Consumer PROVE Cause(d)'
  <2>1. Cause(d) /\ (consume'[d] = "none" => consume[d] = "none")
    BY <1>1, <1>2, <1>3 DEF CauseInv
  <2>2. Mine(d) \in SUBSET Job /\ \A x \in Mine(d) : x.do # "register"
    <3>1. Cancellation(d).do = "cancelled" /\ \A m \in Message : Delivery(d, m).do = "deliver"
      BY DEF Cancellation, Delivery
    <3> QED
      BY <3>1, MineFacts DEF Mine
  <2>3. \A x \in Mine(d) : ~Due(1, x)
    BY <1>1, <2>2, RanRow
  <2>4. \E t, b \in Nat : Moves(Mine(d), t, b)
    BY <1>1, <2>2, <2>3, RanMoves
  <2> QED
    BY <1>1, <2>1, <2>4, CauseMoved
<1>4. DroppedForCause'
  BY <1>1, DroppedKept DEF CauseInv
<1> QED
  BY <1>3, <1>4 DEF CauseInv

\* For a consumer other than the one whose job runs
LEMMA RunCause ==
    ASSUME BaseInv, CauseInv, NEW do, Run(do), NEW d \in Consumer, ~closed', UNCHANGED <<ended[d], consume, serving, closed>>,
           \A x : Due(1, x) => x \notin Mine(d)
    PROVE  Cause(d)'
<1>1. Cause(d)
  BY DEF CauseInv
<1>2. Mine(d) \in SUBSET Job /\ \A x \in Mine(d) : ~Due(1, x)
  BY MineFacts
<1>3. \E t, b \in Nat : Moves(Mine(d), t, b)
  BY <1>2, RanMoves
<1> QED
  BY <1>1, <1>3, CauseMoved

LEMMA CancelledCause == ASSUME BaseInv, RegInv, CauseInv, Cancelled PROVE CauseInv'
<1>1. UNCHANGED <<sent, dropped, consume, closed, serving>> /\ Run("cancelled")
  BY RunBase DEF Cancelled
<1>2. PICK c \in Consumer : c = Head(jobs).consumer /\ jobs[1] = Cancellation(c)
  BY <1>1, RunBase, JobForms, JobFacts
<1>3. PICK C \in SUBSET (consumers \cap {c}) : EndConsumers(C, "closed") /\ Forget(C)
  BY <1>2 DEF Cancelled
<1>4. ended' = [d \in Consumer |-> IF d \in C THEN "closed" ELSE ended[d]]
  BY <1>3 DEF EndConsumers
<1>5. Ran /\ Due(1, Cancellation(c)) /\ \A x : Due(1, x) => x = Cancellation(c)
  BY <1>1, <1>2, RanRow
<1>6. ASSUME ~closed', NEW d \in Consumer, d # c PROVE Cause(d)'
  <2>1. ended'[d] = ended[d]
    BY <1>3, <1>4, <1>6
  <2>2. \A x : Due(1, x) => x \notin Mine(d)
    BY <1>5, <1>6, MineFacts
  <2> QED
    BY <1>1, <1>6, <2>1, <2>2, RunCause
<1>7. ASSUME ~closed' PROVE Cause(c)'
  <2>1. Cause(c)
    BY <1>1, <1>7 DEF CauseInv
  <2>2. c \notin serving.consumers /\ \A j \in Nat, m \in Message : ~Due(j, Delivery(c, m))
    BY <1>5, <2>1, DuePlace DEF Cause
  <2>3. \A j \in Nat, m \in Message : ~Due(j, Delivery(c, m))'
    BY <1>5, <2>2, JobForms DEF Ran
  <2>4. \A i \in Nat : Due(i, Cancellation(c))' => consume'[c] # "none"
    BY <1>1, <1>5, <2>1, JobForms DEF Ran, Cause
  <2> QED
    BY <1>1, <2>2, <2>3, <2>4 DEF Cause
<1>8. \A d \in Consumer : ended[d] = "error" => ended'[d] = "error"
  BY <1>3, <1>4 DEF RegInv, Lives
<1>9. DroppedForCause'
  BY <1>1, <1>8, DroppedKept DEF CauseInv
<1> QED
  BY <1>6, <1>7, <1>9 DEF CauseInv

LEMMA DeliverCause == ASSUME BaseInv, RegInv, FlowInv, CauseInv, Deliver PROVE CauseInv'
<1>1. PICK c \in Consumer, m \in Message :
          /\ Due(1, Delivery(c, m)) /\ consume[c] = "fulfilled" /\ \A x : Due(1, x) => x = Delivery(c, m)
          /\ Ran /\ Run("deliver") /\ UNCHANGED <<consumers, consume, ended, sent, serving, closed>>
          /\ \/ c \in consumers /\ dropped' = dropped
             \/ c \notin consumers /\ dropped' = dropped \cup {m}
  BY DeliverFacts
<1>2. ASSUME ~closed', NEW d \in Consumer, d # c PROVE Cause(d)'
  <2>1. \A x : Due(1, x) => x \notin Mine(d)
    BY <1>1, <1>2, MineFacts
  <2> QED
    BY <1>1, <1>2, <2>1, RunCause
<1>3. ASSUME ~closed' PROVE Cause(c)'
  <2>1. Cause(c)
    BY <1>1, <1>3 DEF CauseInv
  <2>2. /\ \A i \in Nat : Due(i, Cancellation(c))' => Due(i + 1, Cancellation(c))
        /\ \A i \in Nat, n \in Message : Due(i, Delivery(c, n))' => Due(i + 1, Delivery(c, n))
    BY <1>1, JobForms DEF Ran
  <2>3. ended'[c] = "closed" =>
            c \notin serving'.consumers /\ \A i \in Nat, n \in Message : ~Due(i, Delivery(c, n))'
    BY <1>1, <2>1, <2>2 DEF Cause
  <2>4. ASSUME NEW i \in Nat, Due(i, Cancellation(c))'
        PROVE  /\ c \notin serving'.consumers /\ consume'[c] # "none"
               /\ \A j \in Nat, n \in Message : Due(j, Delivery(c, n))' => j < i
    <3>1. Due(i + 1, Cancellation(c)) /\ i + 1 \in Nat
      BY <2>2, <2>4
    <3>2. \A j \in Nat, n \in Message : Due(j, Delivery(c, n))' => j + 1 < i + 1
      BY <2>1, <2>2, <3>1 DEF Cause
    <3> QED
      BY <1>1, <2>1, <3>1, <3>2 DEF Cause
  <2> QED
    BY <2>3, <2>4 DEF Cause
<1>4. DroppedForCause'
  <2>1. CASE dropped' = dropped
    BY <1>1, <2>1, DroppedKept DEF CauseInv
  <2>2. CASE c \notin consumers /\ dropped' = dropped \cup {m}
    <3>1. closed \/ ended[c] = "error"
      <4> SUFFICES ASSUME ~closed PROVE ended[c] = "error"
        OBVIOUS
      <4>1. ended[c] # "no" /\ ended[c] \in {"no", "closed", "error"}
        BY <1>1, <2>2 DEF RegInv, Lives, BaseInv, TypeOK
      <4>2. ended[c] # "closed"
        BY <1>1 DEF CauseInv, Cause
      <4> QED
        BY <4>1, <4>2
    <3>2. m \in ToSet(sent[c])
      <4>1. PICK k \in 1 .. Len(sent[c]) : sent[c][k] = m
        BY <1>1 DEF FlowInv, DueIsSent
      <4>2. k \in DOMAIN sent[c]
        BY SentFacts
      <4> QED
        BY <4>1, <4>2 DEF ToSet
    <3> QED
      BY <1>1, <2>2, <3>1, <3>2 DEF CauseInv, DroppedForCause
  <2> QED
    BY <1>1, <2>1, <2>2
<1> QED
  BY <1>2, <1>3, <1>4 DEF CauseInv

LEMMA ServerDeliversCause ==
    ASSUME BaseInv, RegInv, CauseInv, NEW c \in Consumer, NEW m \in Message, NEW k \in 0 .. MaxBodies,
           ServerDelivers(c, m, k)
    PROVE  CauseInv'
<1>1. /\ UNCHANGED <<ended, consume, dropped, closed, serving, attached, sock, partial, jobs>>
      /\ c \in serving.consumers /\ sent' = [sent EXCEPT ![c] = Append(sent[c], m)]
  BY DEF ServerDelivers, Server, chanVars, promises, handVars
<1>2. Backlog' = Backlog /\ (Wired' => Wired)
  BY <1>1 DEF Backlog, Wired
<1>3. ASSUME ~closed', NEW d \in Consumer, d # c PROVE Cause(d)'
  <2>1. Cause(d)
    BY <1>1, <1>3 DEF CauseInv
  <2>2. Mine(d) \in SUBSET Job /\ Delivery(c, m) \notin Mine(d) /\ \A x \in Consumer : Registration(x) \notin Mine(d)
    BY <1>3, MineFacts
  <2>3. \E t, b \in Nat : Moves(Mine(d), t, b)
    <3>1. CASE Wired
      BY <1>2, <2>2, <3>1, AddedMoves, ServerDeliversRow
    <3>2. CASE ~Wired
      BY <1>2, <2>2, <3>2, SameMoves, ServerDeliversRow
    <3> QED
      BY <3>1, <3>2
  <2> QED
    BY <1>1, <2>1, <2>3, CauseMoved
<1>4. ASSUME ~closed' PROVE Cause(c)'
  <2>1. ended[c] # "closed" /\ \A i \in Nat : ~Due(i, Cancellation(c))
    BY <1>1, <1>4 DEF CauseInv, Cause
  <2>2. \A i \in Nat : ~Due(i, Cancellation(c))'
    BY <2>1, ServerDeliversRow, JobForms, JobsDiffer DEF Same, Added
  <2> QED
    BY <1>1, <2>1, <2>2 DEF Cause
<1>5. \A d \in Consumer : ToSet(sent[d]) \subseteq ToSet(sent'[d])
  <2> SUFFICES ASSUME NEW d \in Consumer PROVE ToSet(sent[d]) \subseteq ToSet(sent'[d])
    OBVIOUS
  <2>1. sent[d] \in Seq(Message) /\ sent \in [Consumer -> Seq(Message)]
    BY DEF BaseInv, TypeOK
  <2>2. CASE d = c
    <3>1. sent'[d] = Append(sent[d], m)
      BY <1>1, <2>1, <2>2
    <3> QED
      BY <2>1, <3>1 DEF ToSet
  <2>3. CASE d # c
    <3>1. sent'[d] = sent[d]
      BY <1>1, <2>1, <2>3
    <3> QED
      BY <3>1
  <2> QED
    BY <2>2, <2>3
<1>6. DroppedForCause'
  BY <1>1, <1>5, DroppedKept DEF CauseInv
<1> QED
  BY <1>3, <1>4, <1>6 DEF CauseInv

LEMMA StepCause ==
    ASSUME BaseInv, RegInv, FlowInv, CauseInv, [Next]_vars
    PROVE  CauseInv'
<1>1. ASSUME Steady PROVE CauseInv'
  BY <1>1, SteadyCause
<1>2. CASE UNCHANGED vars
  BY <1>1, <1>2, StutterSteady
<1>3. CASE Application
  <2>1. ASSUME NEW c \in Consumer, BasicConsume(c) PROVE CauseInv'
    BY <2>1, BasicConsumeCause
  <2>2. ASSUME NEW c \in Consumer, Cancel(c) PROVE CauseInv'
    BY <2>2, CancelCause
  <2>3. ASSUME NEW c \in Consumer, NEW w \in Waiter, NEW timed \in BOOLEAN, Wait(w, c, timed) PROVE CauseInv'
    BY <1>1, <2>3, WaitSteady
  <2>4. CASE BasicGet \/ CloseChannel
    BY <1>1, <2>4, BasicGetSteady, CloseChannelSteady
  <2> QED
    BY <1>3, <2>1, <2>2, <2>3, <2>4 DEF Application
<1>4. CASE Handler
  <2>1. CASE GotConsumeOk \/ Register \/ Cancelled \/ Deliver
    BY <2>1, GotConsumeOkCause, RegisterCause, CancelledCause, DeliverCause
  <2>2. CASE SkipFrame \/ GotCancelOk \/ GotCancel \/ GotGetEmpty \/ GotMethod \/ GotHeader \/ GotBody \/ GotClose
    BY <1>1, <2>2, SkipFrameSteady, GotCancelOkSteady, GotCancelSteady, GotGetEmptySteady, GotMethodSteady,
       GotPartSteady, GotCloseSteady
  <2> QED
    BY <1>4, <2>1, <2>2 DEF Handler
<1>5. CASE Broker
  <2>1. ASSUME NEW c \in Consumer, NEW m \in Message, NEW k \in 0 .. MaxBodies, ServerDelivers(c, m, k)
        PROVE  CauseInv'
    BY <2>1, ServerDeliversCause
  <2>2. ASSUME NEW m \in Message, NEW k \in 0 .. MaxBodies, ServerReturns(m, k) PROVE CauseInv'
    BY <1>1, <2>2, ServerReturnsSteady
  <2>3. ASSUME NEW c \in Consumer, ServerCancels(c) PROVE CauseInv'
    BY <1>1, <2>3, ServerCancelsSteady
  <2>4. CASE ServerCloses
    BY <1>1, <2>4, ServerClosesSteady
  <2> QED
    BY <1>5, <2>1, <2>2, <2>3, <2>4 DEF Broker
<1>6. CASE ConnectionEnds
  BY <1>1, <1>6, ConnectionEndsSteady
<1>7. ASSUME NEW w \in Waiter, Timeout(w) PROVE CauseInv'
  BY <1>1, <1>7, TimeoutSteady
<1> QED
  BY <1>2, <1>3, <1>4, <1>5, <1>6, <1>7 DEF Next

LEMMA CauseInvariance == Spec => []CauseInv
<1>1. Init => CauseInv
  <2> SUFFICES ASSUME Init PROVE CauseInv
    OBVIOUS
  <2>1. dropped = {} /\ \A c \in Consumer : ended[c] = "no"
    BY DEF Init
  <2> QED
    BY <2>1, InitRow DEF CauseInv, Cause, DroppedForCause
<1>2. BaseInv /\ RegInv /\ FlowInv /\ CauseInv /\ [Next]_vars => CauseInv'
  BY StepCause
<1> QED
  BY <1>1, <1>2, FlowInvariance, PTL DEF Spec

\* AMQPChannel.deliver says that a consumer is not available only for a message whose
\* consumer the broker cancelled, or on a closed channel: what was sent before the answer
\* to the client's cancel is handed over before the consumer is removed.
THEOREM DroppedForCauseHolds == Spec => []DroppedForCause
<1>1. CauseInv => DroppedForCause
  BY DEF CauseInv
<1> QED
  BY <1>1, CauseInvariance, PTL

----------------------------------------------------------------------------
(* Waits *)

\* A pending wait is about a consumer.
ToldInv == EndedIsTold /\ \A w \in Waiter : waits[w].state = "pending" => waits[w].on \in Consumer

LEMMA ToldKept == ASSUME ToldInv, UNCHANGED <<waits, holder, ended>> PROVE ToldInv'
BY DEF ToldInv, EndedIsTold

LEMMA EndConsumersTold ==
    ASSUME BaseInv, ToldInv, NEW C \in SUBSET Consumer, NEW how \in {"closed", "error"}, EndConsumers(C, how)
    PROVE  ToldInv'
<1> DEFINE out == IF how = "error" THEN "rejected" ELSE "resolved"
<1>1. /\ ended' = [c \in Consumer |-> IF c \in C THEN how ELSE ended[c]]
      /\ waits' = Settle({holder[c] : c \in C}, out) /\ holder' = holder /\ out # "pending"
  BY DEF EndConsumers
<1>2. waits \in [Waiter -> [on : Consumer \cup {None}, state : {"none", "pending", "resolved", "rejected"}]]
  BY DEF BaseInv, TypeOK
<1> HIDE DEF out
<1>3. \A w \in Waiter : waits'[w].state = "pending" =>
          waits'[w] = waits[w] /\ w \notin {holder[c] : c \in C}
  BY <1>1, <1>2 DEF Settle
<1>4. ASSUME NEW w \in Waiter, waits'[w].state = "pending"
      PROVE  waits'[w].on \in Consumer /\ (ended'[waits'[w].on] # "no" => holder'[waits'[w].on] # w)
  <2>1. PICK c \in Consumer : c = waits[w].on /\ c = waits'[w].on
    BY <1>3, <1>4 DEF ToldInv
  <2>2. CASE c \in C
    BY <1>1, <1>3, <1>4, <2>1, <2>2
  <2>3. CASE c \notin C
    BY <1>1, <1>3, <1>4, <2>1, <2>3 DEF ToldInv, EndedIsTold
  <2> QED
    BY <2>2, <2>3
<1> QED
  BY <1>4 DEF ToldInv, EndedIsTold

LEMMA SetClosedTold ==
    ASSUME BaseInv, ToldInv, NEW how \in {"closed", "error"}, SetClosed(how)
    PROVE  ToldInv'
<1>1. CASE EndConsumers(consumers, how)
  BY <1>1, EndConsumersTold DEF BaseInv, TypeOK
<1> QED
  BY <1>1, ToldKept DEF SetClosed, waitVars

LEMMA WaitTold ==
    ASSUME BaseInv, ToldInv, NEW w \in Waiter, NEW c \in Consumer, NEW timed, Wait(w, c, timed)
    PROVE  ToldInv'
<1>1. /\ ended' = ended /\ waits[w].state = "none"
      /\ waits \in [Waiter -> [on : Consumer \cup {None}, state : {"none", "pending", "resolved", "rejected"}]]
      /\ holder \in [Consumer -> Waiter \cup {None}]
  BY DEF Wait, BaseInv, TypeOK
<1>2. CASE ended[c] # "no"
  <2>1. /\ holder' = holder /\ waits'[w].state # "pending"
        /\ \A v \in Waiter : v # w => waits'[v] = waits[v]
    BY <1>1, <1>2 DEF Wait
  <2> QED
    BY <1>1, <2>1 DEF ToldInv, EndedIsTold
<1>3. CASE ended[c] = "no"
  <2>1. /\ holder' = [holder EXCEPT ![c] = w] /\ waits'[w].on = c
        /\ \A v \in Waiter : v # w => waits'[v] = waits[v]
    BY <1>1, <1>3 DEF Wait
  <2>2. \A d \in Consumer : d # c => holder'[d] = holder[d]
    BY <1>1, <2>1
  <2>3. ASSUME NEW v \in Waiter, v # w, waits'[v].state = "pending"
        PROVE  waits'[v].on \in Consumer /\ (ended'[waits'[v].on] # "no" => holder'[waits'[v].on] # v)
    BY <1>1, <1>3, <2>1, <2>2, <2>3 DEF ToldInv, EndedIsTold
  <2>4. waits'[w].on \in Consumer /\ ended'[waits'[w].on] = "no"
    BY <1>1, <1>3, <2>1
  <2> QED
    BY <2>3, <2>4 DEF ToldInv, EndedIsTold
<1> QED
  BY <1>2, <1>3

LEMMA TimeoutTold == ASSUME BaseInv, ToldInv, NEW w \in Waiter, Timeout(w) PROVE ToldInv'
<1>1. ended' = ended /\ holder' = holder /\ waits' = Settle({w}, "rejected")
  BY DEF Timeout
<1>2. waits \in [Waiter -> [on : Consumer \cup {None}, state : {"none", "pending", "resolved", "rejected"}]]
  BY DEF BaseInv, TypeOK
<1>3. \A v \in Waiter : waits'[v].state = "pending" => waits'[v] = waits[v]
  BY <1>1, <1>2 DEF Settle
<1> QED
  BY <1>1, <1>3 DEF ToldInv, EndedIsTold

LEMMA StepTold == ASSUME BaseInv, ToldInv, [Next]_vars PROVE ToldInv'
<1>1. CASE UNCHANGED vars
  BY <1>1, ToldKept DEF vars, waitVars
<1>2. CASE Application
  <2>1. ASSUME NEW c \in Consumer, NEW w \in Waiter, NEW timed \in BOOLEAN, Wait(w, c, timed) PROVE ToldInv'
    BY <2>1, WaitTold
  <2>2. CASE BasicGet \/ CloseChannel \/ \E c \in Consumer : BasicConsume(c) \/ Cancel(c)
    BY <2>2, ToldKept DEF BasicGet, CloseChannel, BasicConsume, Cancel, waitVars
  <2> QED
    BY <1>2, <2>1, <2>2 DEF Application
<1>3. CASE Handler
  <2>1. CASE GotCancel
    <3>1. \E C \in SUBSET Consumer : EndConsumers(C, "error")
      BY <2>1 DEF GotCancel, BaseInv, TypeOK
    <3> QED
      BY <3>1, EndConsumersTold
  <2>2. CASE Cancelled
    <3>1. \E C \in SUBSET Consumer : EndConsumers(C, "closed")
      BY <2>2 DEF Cancelled, BaseInv, TypeOK
    <3> QED
      BY <3>1, EndConsumersTold
  <2>3. CASE GotClose
    BY <2>3, SetClosedTold DEF GotClose
  <2>4. CASE SkipFrame \/ GotConsumeOk \/ GotCancelOk \/ GotGetEmpty \/ GotMethod \/ GotHeader \/ GotBody
    BY <2>4, ToldKept DEF SkipFrame, GotConsumeOk, GotCancelOk, GotGetEmpty, GotMethod, GotHeader, GotBody, Expect,
       waitVars
  <2>5. CASE Register \/ Deliver
    BY <2>5, ToldKept DEF Register, Deliver, waitVars
  <2> QED
    BY <1>3, <2>1, <2>2, <2>3, <2>4, <2>5 DEF Handler
<1>4. CASE Broker
  BY <1>4, ToldKept DEF Broker, ServerDelivers, ServerReturns, ServerCancels, ServerCloses, Server, waitVars
<1>5. CASE ConnectionEnds
  BY <1>5, SetClosedTold, ToldKept DEF ConnectionEnds, waitVars
<1>6. ASSUME NEW w \in Waiter, Timeout(w) PROVE ToldInv'
  BY <1>6, TimeoutTold
<1> QED
  BY <1>1, <1>2, <1>3, <1>4, <1>5, <1>6 DEF Next

\* Whatever ends a consumer - its cancel, the broker's, a closed channel or a lost
\* connection - settles the wait whose callbacks it holds.
THEOREM EndedIsToldHolds == Spec => []EndedIsTold
<1>1. Init => ToldInv
  BY DEF Init, ToldInv, EndedIsTold
<1>2. BaseInv /\ ToldInv /\ [Next]_vars => ToldInv'
  BY StepTold
<1>3. ToldInv => EndedIsTold
  BY DEF ToldInv
<1> QED
  BY <1>1, <1>2, <1>3, BaseInvariance, PTL DEF Spec

----------------------------------------------------------------------------
(* No delivery is lost *)

\* As long as the channel is open at both ends, what was sent for a consumer was handed
\* over or dropped, or is due.
Handled(c, m) == (\E i \in 1 .. Len(handed[c]) : handed[c][i] = m) \/ m \in dropped
AllDue ==
    Wired /\ serving.open =>
        \A c \in Consumer : \A k \in 1 .. Len(sent[c]) :
            Handled(c, sent[c][k]) \/ \E i \in Nat : Due(i, Delivery(c, sent[c][k]))

LEMMA ServingOpen == ASSUME BaseInv, [Next]_vars PROVE serving'.open => serving.open
<1>1. serving \in [open : BOOLEAN, consumers : SUBSET Consumer]
  BY DEF BaseInv, TypeOK
<1>2. ASSUME NEW fs, NEW C, Answer(fs, C) PROVE serving'.open = serving.open
  BY <1>1, <1>2 DEF Answer
<1>3. Application => (serving'.open => serving.open)
  <2>1. \A c \in Consumer : BasicConsume(c) \/ Cancel(c) => serving'.open = serving.open
    BY <1>2 DEF BasicConsume, Cancel
  <2>2. BasicGet => serving'.open = serving.open
    BY <1>2 DEF BasicGet
  <2>3. CloseChannel => ~serving'.open
    BY DEF CloseChannel
  <2>4. \A c \in Consumer, w \in Waiter, timed \in BOOLEAN : Wait(w, c, timed) => serving' = serving
    BY DEF Wait, serverVars
  <2> QED
    BY <2>1, <2>2, <2>3, <2>4 DEF Application
<1>4. Handler => serving' = serving
  BY ReceiveFrame, RunBase DEF Handler, SkipFrame, GotConsumeOk, GotCancelOk, GotCancel, GotGetEmpty, GotMethod,
     GotHeader, GotBody, GotClose, Register, Cancelled, Deliver
<1>5. Broker => (serving'.open => serving.open)
  BY <1>1 DEF Broker, ServerDelivers, ServerReturns, ServerCancels, ServerCloses
<1>6. ConnectionEnds \/ (\E w \in Waiter : Timeout(w)) \/ UNCHANGED vars => serving' = serving
  BY DEF ConnectionEnds, Timeout, serverVars, vars
<1> QED
  BY <1>3, <1>4, <1>5, <1>6 DEF Next

LEMMA KeptDue ==
    ASSUME BaseInv, AllDue, \E t, b \in Nat : Kept(t, b), UNCHANGED <<handed, sent, dropped>>,
           serving'.open => serving.open
    PROVE  AllDue'
<1> PICK t \in Nat, b \in Nat : Kept(t, b)
  OBVIOUS
<1> SUFFICES ASSUME Wired', serving'.open, NEW c \in Consumer, NEW k \in 1 .. Len(sent[c]),
                    ~Handled(c, sent[c][k])
             PROVE  \E i \in Nat : Due(i, Delivery(c, sent[c][k]))'
  BY DEF AllDue, Handled
<1>1. PICK m \in Message : m = sent[c][k]
  BY SentFacts
<1>2. PICK j \in Nat : Due(j, Delivery(c, m))
  BY <1>1 DEF AllDue, Kept
<1>3. j <= b
  BY <1>2 DEF Kept
<1>4. PICK i \in Nat : Due(i, Delivery(c, m))'
  BY <1>2, <1>3, KeptBefore
<1> QED
  BY <1>1, <1>4

LEMMA DeliverDue == ASSUME BaseInv, RegInv, AllDue, Deliver PROVE AllDue'
<1>1. PICK c \in Consumer, m \in Message :
          /\ \A x : Due(1, x) => x = Delivery(c, m)
          /\ Ran /\ UNCHANGED <<sent, serving, attached, sock>>
          /\ \/ c \in consumers /\ handed' = [handed EXCEPT ![c] = Append(handed[c], m)] /\ dropped' = dropped
             \/ c \notin consumers /\ handed' = handed /\ dropped' = dropped \cup {m}
  BY DeliverFacts
<1>2. handed \in [Consumer -> Seq(Message)]
  BY DEF BaseInv, TypeOK
<1>3. \A d \in Consumer, n \in Message : Handled(d, n) => Handled(d, n)'
  <2> SUFFICES ASSUME NEW d \in Consumer, NEW n \in Message, Handled(d, n) PROVE Handled(d, n)'
    OBVIOUS
  <2>1. CASE n \in dropped
    BY <1>1, <2>1 DEF Handled
  <2>2. CASE \E i \in 1 .. Len(handed[d]) : handed[d][i] = n
    <3>1. PICK i \in 1 .. Len(handed[d]) : handed[d][i] = n
      BY <2>2
    <3>2. i \in 1 .. Len(handed'[d]) /\ handed'[d][i] = n
      <4>1. CASE handed'[d] = handed[d]
        BY <3>1, <4>1
      <4>2. CASE handed'[d] = Append(handed[d], m)
        BY <1>2, <3>1, <4>2
      <4> QED
        BY <1>1, <1>2, <4>1, <4>2
    <3> QED
      BY <3>2 DEF Handled
  <2> QED
    BY <2>1, <2>2 DEF Handled
<1>4. Handled(c, m)'
  <2>1. CASE m \in dropped'
    BY <2>1 DEF Handled
  <2>2. CASE handed' = [handed EXCEPT ![c] = Append(handed[c], m)]
    <3>1. handed'[c] = Append(handed[c], m) /\ handed[c] \in Seq(Message)
      BY <1>2, <2>2
    <3>2. Len(handed[c]) + 1 \in 1 .. Len(handed'[c]) /\ handed'[c][Len(handed[c]) + 1] = m
      BY <3>1
    <3> QED
      BY <3>2 DEF Handled
  <2> QED
    BY <1>1, <2>1, <2>2
<1>5. ASSUME NEW d \in Consumer, NEW n \in Message, NEW j \in Nat, Due(j, Delivery(d, n)), ~Handled(d, n)'
      PROVE  \E i \in Nat : Due(i, Delivery(d, n))'
  <2>1. j # 1 /\ 0 < j
    BY <1>1, <1>4, <1>5, DuePlace, JobsDiffer
  <2>2. j - 1 \in Nat /\ j - 1 # 0 /\ (j - 1) + 1 = j
    BY <2>1
  <2> QED
    BY <1>1, <1>5, <2>2, JobForms DEF Ran
<1> SUFFICES ASSUME Wired', serving'.open, NEW d \in Consumer, NEW k \in 1 .. Len(sent[d])
             PROVE  Handled(d, sent[d][k])' \/ \E i \in Nat : Due(i, Delivery(d, sent[d][k]))'
  BY <1>1 DEF AllDue
<1>6. PICK n \in Message : n = sent[d][k]
  BY SentFacts
<1>7. Handled(d, n) \/ \E j \in Nat : Due(j, Delivery(d, n))
  BY <1>1, <1>6 DEF AllDue, Wired
<1>8. Handled(d, n)' \/ \E i \in Nat : Due(i, Delivery(d, n))'
  BY <1>3, <1>5, <1>7
<1> QED
  BY <1>1, <1>6, <1>8

LEMMA ServerDeliversDue ==
    ASSUME BaseInv, AllDue, NEW c \in Consumer, NEW m \in Message, NEW k \in 0 .. MaxBodies, ServerDelivers(c, m, k)
    PROVE  AllDue'
<1>1. /\ UNCHANGED <<handed, dropped, serving, attached, sock>>
      /\ sent' = [sent EXCEPT ![c] = Append(sent[c], m)] /\ sent \in [Consumer -> Seq(Message)]
  BY DEF ServerDelivers, Server, chanVars, handVars, BaseInv, TypeOK
<1> SUFFICES ASSUME Wired', serving'.open, NEW d \in Consumer, NEW q \in 1 .. Len(sent'[d])
             PROVE  Handled(d, sent[d][q])' \/ \E i \in Nat : Due(i, Delivery(d, sent[d][q]))'
  BY DEF AllDue
<1>2. Wired /\ serving.open
  BY <1>1 DEF Wired
<1>3. \A n \in Message : Handled(d, n)' <=> Handled(d, n)
  BY <1>1 DEF Handled
<1>4. \A i \in Nat, n \in Message : Due(i, Delivery(d, n)) => Due(i, Delivery(d, n))'
  BY <1>2, ServerDeliversRow, JobForms DEF Added
<1>5. CASE q \in 1 .. Len(sent[d]) /\ sent'[d][q] = sent[d][q]
  <2>1. PICK n \in Message : n = sent[d][q] /\ n = sent'[d][q]
    BY <1>5, SentFacts
  <2>2. Handled(d, n) \/ \E i \in Nat : Due(i, Delivery(d, n))
    BY <1>2, <1>5, <2>1 DEF AllDue
  <2>3. Handled(d, n)' \/ \E i \in Nat : Due(i, Delivery(d, n))'
    BY <1>3, <1>4, <2>2
  <2> QED
    BY <2>1, <2>3
<1>6. CASE d = c /\ sent'[d][q] = m
  <2>1. PICK e \in Nat : e = End
    BY DuePlace
  <2>2. Due(e, Delivery(c, m))'
    BY <1>2, <2>1, ServerDeliversRow, JobForms DEF Added
  <2> QED
    BY <1>6, <2>2
<1>7. (q \in 1 .. Len(sent[d]) /\ sent'[d][q] = sent[d][q]) \/ (d = c /\ sent'[d][q] = m)
  <2>1. CASE d = c
    <3>1. sent'[d] = Append(sent[d], m) /\ sent[d] \in Seq(Message)
      BY <1>1, <2>1
    <3> QED
      BY <2>1, <3>1
  <2>2. CASE d # c
    BY <1>1, <2>2
  <2> QED
    BY <2>1, <2>2
<1> QED
  BY <1>5, <1>6, <1>7

LEMMA PlainDue == ASSUME BaseInv, AllDue, Plain(Lasting), serving'.open => serving.open PROVE AllDue'
<1>1. \E t, b \in Nat : Kept(t, b)
  BY LastingFacts, MovesKept DEF Plain
<1> QED
  BY <1>1, KeptDue DEF Plain

LEMMA StepDue == ASSUME BaseInv, RegInv, AllDue, [Next]_vars PROVE AllDue'
<1>1. serving'.open => serving.open
  BY ServingOpen
<1>2. ASSUME Plain(Lasting) \/ Steady PROVE AllDue'
  BY <1>1, <1>2, PlainDue, SteadyLasting
<1>3. CASE UNCHANGED vars
  BY <1>2, <1>3, StutterSteady
<1>4. CASE Application
  <2>1. ASSUME NEW c \in Consumer, BasicConsume(c) PROVE AllDue'
    BY <1>1, <2>1, BasicConsumeKept, KeptDue DEF BasicConsume, handVars
  <2>2. ASSUME NEW c \in Consumer, Cancel(c) PROVE AllDue'
    BY <1>2, <2>2, CancelPlain
  <2>3. ASSUME NEW c \in Consumer, NEW w \in Waiter, NEW timed \in BOOLEAN, Wait(w, c, timed) PROVE AllDue'
    BY <1>2, <2>3, WaitSteady
  <2>4. CASE BasicGet \/ CloseChannel
    BY <1>2, <2>4, BasicGetSteady, CloseChannelSteady
  <2> QED
    BY <1>4, <2>1, <2>2, <2>3, <2>4 DEF Application
<1>5. CASE Handler
  <2>1. CASE GotConsumeOk
    BY <1>1, <2>1, GotConsumeOkKept, KeptDue, ReceiveFrame DEF GotConsumeOk
  <2>2. CASE Register
    BY <1>1, <2>2, RegisterKept, KeptDue, RunBase DEF Register
  <2>3. CASE Deliver
    BY <2>3, DeliverDue
  <2>4. CASE Cancelled
    BY <1>2, <2>4, CancelledPlain
  <2>5. CASE SkipFrame \/ GotCancelOk \/ GotCancel \/ GotGetEmpty \/ GotMethod \/ GotHeader \/ GotBody \/ GotClose
    BY <1>2, <2>5, SkipFrameSteady, GotCancelOkSteady, GotCancelSteady, GotGetEmptySteady, GotMethodSteady,
       GotPartSteady, GotCloseSteady
  <2> QED
    BY <1>5, <2>1, <2>2, <2>3, <2>4, <2>5 DEF Handler
<1>6. CASE Broker
  <2>1. ASSUME NEW c \in Consumer, NEW m \in Message, NEW k \in 0 .. MaxBodies, ServerDelivers(c, m, k)
        PROVE  AllDue'
    BY <2>1, ServerDeliversDue
  <2>2. ASSUME NEW m \in Message, NEW k \in 0 .. MaxBodies, ServerReturns(m, k) PROVE AllDue'
    BY <1>2, <2>2, ServerReturnsSteady
  <2>3. ASSUME NEW c \in Consumer, ServerCancels(c) PROVE AllDue'
    BY <1>2, <2>3, ServerCancelsSteady
  <2>4. CASE ServerCloses
    BY <1>2, <2>4, ServerClosesSteady
  <2> QED
    BY <1>6, <2>1, <2>2, <2>3, <2>4 DEF Broker
<1>7. CASE ConnectionEnds
  BY <1>2, <1>7, ConnectionEndsSteady
<1>8. ASSUME NEW w \in Waiter, Timeout(w) PROVE AllDue'
  BY <1>2, <1>8, TimeoutSteady
<1> QED
  BY <1>3, <1>4, <1>5, <1>6, <1>7, <1>8 DEF Next

----------------------------------------------------------------------------
(* The other messages: the answer to basicGet and what is returned *)

Answers  == {"GetOk", "GetEmpty"}
Carriers == {"GetOk", "Return"}
Closings == {"Close", "CloseOk"}
Loud     == Answers \cup Carriers \cup Closings
Carries(f, m) == f.frame \in Carriers /\ f.message = m

WasSent(m) == \E c \in Consumer : \E k \in 1 .. Len(sent[c]) : sent[c][k] = m
\* Where a message that is no delivery may be
Placed(m) == \/ \E i \in 1 .. Len(returned) : returned[i] = m
             \/ m = get \/ m = partial.getMessage \/ m = partial.returned
             \/ \E k \in 1 .. Len(Wire) : Carries(Wire[k], m)

\* Deliveries and other messages are told apart ...
Told     == /\ \A m \in Message : Placed(m) => m \in used /\ ~WasSent(m)
            /\ \A m \in Message : WasSent(m) => m \in used
            /\ \A m \in dropped : WasSent(m)
\* ... and none of the others is lost.
NoneLost == Wired /\ serving.open => \A m \in used : WasSent(m) \/ Placed(m)
\* A basicGet waits for one answer, which is on the wire or being assembled.
GetInv ==
    /\ Wired /\ partial.getMessage # None =>
          get = "asked" /\ \A k \in 1 .. Len(Wire) : Wire[k].frame \notin Answers
    /\ \A k, l \in 1 .. Len(Wire) : Wire[k].frame \in Answers /\ Wire[l].frame \in Answers => k = l
    /\ \A k \in 1 .. Len(Wire) : Wire[k].frame \in Answers => get = "asked"
    /\ Wired /\ serving.open /\ get = "asked" =>
          partial.getMessage # None \/ \E k \in 1 .. Len(Wire) : Wire[k].frame \in Answers
\* The broker closes the channel with a frame that is on the wire until it is read.
ShutInv  == Wired /\ ~serving.open => \E k \in 1 .. Len(Wire) : Wire[k].frame \in Closings
OtherInv == Told /\ NoneLost /\ GetInv /\ ShutInv

\* The frames of the kinds in K stay on the wire, d places nearer.
Hushed(K, d) ==
    /\ \A k \in 1 .. Len(Wire) : Wire[k].frame \in K => k - d \in 1 .. Len(Wire') /\ Wire'[k - d] = Wire[k]
    /\ \A k \in 1 .. Len(Wire') : Wire'[k].frame \in K => k + d \in 1 .. Len(Wire) /\ Wire'[k] = Wire[k + d]
\* Frame f alone or with the header and the bodies that follow it
Load(fs, f) ==
    /\ fs \in Seq(Frame) /\ fs # <<>> /\ fs[1] = f
    /\ \A k \in 1 .. Len(fs) : k # 1 => fs[k].frame \in {"Header", "Body"}

LEMMA HushedFewer == ASSUME NEW K, NEW L \in SUBSET K, NEW d, Hushed(K, d) PROVE Hushed(L, d)
BY DEF Hushed

LEMMA HushedSame == ASSUME BaseInv, Wire' = Wire, NEW K PROVE Hushed(K, 0)
BY RowType DEF Hushed

LEMMA HushedPut ==
    ASSUME BaseInv, NEW fs, NEW f, Load(fs, f), NEW K, f.frame \notin K, {"Header", "Body"} \cap K = {},
           Wire' = Wire \o fs
    PROVE  Hushed(K, 0)
<1>1. /\ Len(Wire') = Len(Wire) + Len(fs) /\ Len(Wire) \in Nat /\ Len(fs) \in Nat
      /\ \A k \in 1 .. Len(Wire) : Wire'[k] = Wire[k]
      /\ \A k \in 1 .. Len(Wire') :
            k \in 1 .. Len(Wire) \/ (k - Len(Wire) \in 1 .. Len(fs) /\ Wire'[k] = fs[k - Len(Wire)])
  BY RowType DEF Load
<1>2. \A k \in 1 .. Len(fs) : fs[k].frame \notin K
  BY DEF Load
<1> QED
  BY <1>1, <1>2 DEF Hushed

LEMMA HushedTail ==
    ASSUME BaseInv, Wire # <<>>, Wire' = Tail(Wire), NEW K, Wire[1].frame \notin K
    PROVE  Hushed(K, 1)
<1>1. /\ Len(Wire) \in Nat /\ Len(Wire) > 0 /\ Len(Wire') = Len(Wire) - 1
      /\ \A k \in 1 .. Len(Wire') : Wire'[k] = Wire[k + 1]
  BY RowType
<1> QED
  BY <1>1 DEF Hushed

LEMMA ContentLoad ==
    ASSUME NEW f \in Frame, NEW k \in 0 .. MaxBodies
    PROVE  Load(Content(f, k), f)
<1> DEFINE s == Content(f, k)
<1>1. /\ s \in Seq(Frame) /\ Len(s) = k + 2 /\ s[1] = f /\ s[2].frame = "Header" /\ s[2].bodies = k
      /\ \A j \in 1 .. k : s[j + 2].frame = "Body"
  BY ContentFacts
<1> HIDE DEF s
<1>2. k \in Nat
  OBVIOUS
<1>3. \A i \in 1 .. Len(s) : i = 1 \/ i = 2 \/ (i - 2 \in 1 .. k /\ i = (i - 2) + 2)
  BY <1>1, <1>2
<1>4. \A i \in 1 .. Len(s) : i # 1 => s[i].frame \in {"Header", "Body"}
  BY <1>1, <1>3
<1>5. s # <<>>
  BY <1>1, <1>2
<1>6. Load(s, f)
  BY <1>1, <1>4, <1>5 DEF Load
<1> QED
  BY <1>6 DEF s

LEMMA SingleLoad == ASSUME NEW f \in Frame PROVE Load(<<f>>, f)
BY DEF Load

LEMMA WirePut ==
    ASSUME BaseInv, NEW fs, UNCHANGED <<attached, sock>>, toClient' = toClient \o fs
    PROVE  Wired' = Wired /\ (Wired => Wire' = Wire \o fs) /\ (~Wired => Wire' = Wire)
BY DEF Wire, Wired

LEMMA WireReceive ==
    ASSUME BaseInv, attached, attached' = attached, NEW k, Receive(k)
    PROVE  /\ Wired /\ Wired' /\ Wire' = Tail(Wire) /\ Wire # <<>> /\ Wire[1].frame = k
           /\ Wire[1] = Head(toClient) /\ 1 \in 1 .. Len(Wire) /\ Wire[1] \in Frame
BY ReceiveFacts DEF BaseInv, Wire, Wired

\* What stays on the wire carries what it carried.
LEMMA HushedCarries ==
    ASSUME NEW d \in {0, 1}, Hushed(Carriers, d)
    PROVE  \A m : (\E k \in 1 .. Len(Wire') : Carries(Wire'[k], m)) <=> \E k \in 1 .. Len(Wire) : Carries(Wire[k], m)
BY DEF Hushed, Carries

LEMMA HushedGet ==
    ASSUME BaseInv, GetInv, NEW d \in {0, 1}, Hushed(Answers, d), UNCHANGED <<get, partial.getMessage>>,
           Wired' => Wired, serving'.open => serving.open
    PROVE  GetInv'
<1>1. \A k \in 1 .. Len(Wire') : Wire'[k].frame \in Answers => k + d \in 1 .. Len(Wire) /\ Wire[k + d].frame \in Answers
  BY DEF Hushed
<1>2. \A k \in 1 .. Len(Wire) : Wire[k].frame \in Answers => k - d \in 1 .. Len(Wire') /\ Wire'[k - d].frame \in Answers
  BY DEF Hushed
<1>3. Wired' /\ partial.getMessage' # None =>
          get' = "asked" /\ \A k \in 1 .. Len(Wire') : Wire'[k].frame \notin Answers
  BY <1>1 DEF GetInv
<1>4. \A k, l \in 1 .. Len(Wire') : Wire'[k].frame \in Answers /\ Wire'[l].frame \in Answers => k = l
  BY <1>1 DEF GetInv
<1>5. \A k \in 1 .. Len(Wire') : Wire'[k].frame \in Answers => get' = "asked"
  BY <1>1 DEF GetInv
<1>6. Wired' /\ serving'.open /\ get' = "asked" =>
          partial.getMessage' # None \/ \E k \in 1 .. Len(Wire') : Wire'[k].frame \in Answers
  BY <1>2 DEF GetInv
<1> QED
  BY <1>3, <1>4, <1>5, <1>6 DEF GetInv

LEMMA HushedShut ==
    ASSUME ShutInv, NEW d \in {0, 1}, Hushed(Closings, d), serving'.open = serving.open, Wired' => Wired
    PROVE  ShutInv'
BY DEF ShutInv, Hushed

\* Nothing loud happens.
LEMMA HushedOther ==
    ASSUME BaseInv, OtherInv, NEW d \in {0, 1}, Hushed(Loud, d), serving'.open = serving.open, Wired' => Wired,
           UNCHANGED <<returned, get, partial.getMessage, partial.returned, used, sent, dropped>>
    PROVE  OtherInv'
<1>1. Hushed(Answers, d) /\ Hushed(Carriers, d) /\ Hushed(Closings, d)
  BY HushedFewer DEF Loud
<1>2. \A m : Placed(m)' <=> Placed(m)
  BY <1>1, HushedCarries DEF Placed
<1>3. \A m : WasSent(m)' <=> WasSent(m)
  BY DEF WasSent
<1>4. Told'
  BY <1>2, <1>3 DEF OtherInv, Told
<1>5. NoneLost'
  BY <1>2, <1>3 DEF OtherInv, NoneLost
<1>6. GetInv' /\ ShutInv'
  BY <1>1, HushedGet, HushedShut DEF OtherInv
<1> QED
  BY <1>4, <1>5, <1>6 DEF OtherInv

\* When the channel is cut off, nothing is promised but the difference.
LEMMA CutOther ==
    ASSUME BaseInv, OtherInv, ~Wired', UNCHANGED <<returned, partial, used, sent, dropped>>,
           get' = get \/ get' = "rejected"
    PROVE  OtherInv'
<1>1. Wire' = <<>> /\ Len(Wire') = 0
  BY DEF Wire
<1>2. \A m : WasSent(m)' <=> WasSent(m)
  BY DEF WasSent
<1>3. \A m \in Message : m # "rejected"
  BY ConsumersAssumption
<1>4. \A m \in Message : Placed(m)' => Placed(m)
  BY <1>1, <1>3 DEF Placed
<1>5. Told'
  BY <1>2, <1>4 DEF OtherInv, Told
<1>6. GetInv'
  BY <1>1 DEF GetInv
<1> QED
  BY <1>5, <1>6 DEF OtherInv, NoneLost, ShutInv

\* Steps that leave the other messages and the wire alone
LEMMA IdleOther ==
    ASSUME BaseInv, OtherInv,
           UNCHANGED <<attached, sock, toClient, serving, returned, get, partial, used, sent, dropped>>
    PROVE  OtherInv'
<1>1. Wire' = Wire /\ Wired' = Wired
  BY DEF Wire, Wired
<1>2. Hushed(Loud, 0)
  BY <1>1, HushedSame
<1> QED
  BY <1>1, <1>2, HushedOther

LEMMA NotLoud ==
    /\ \A k \in {"ConsumeOk", "CancelOk", "Cancel", "Deliver", "Header", "Body"} : k \notin Loud
    /\ "Header" \notin Loud /\ "Body" \notin Loud
BY DEF Loud, Answers, Carriers, Closings

\* The broker puts a frame on the wire that is not loud.
LEMMA PutOther ==
    ASSUME BaseInv, OtherInv, NEW f \in Frame, f.frame \notin Loud, NEW fs, Load(fs, f), toClient' = toClient \o fs,
           UNCHANGED <<attached, sock, serving.open, returned, get, partial, used, sent, dropped>>
    PROVE  OtherInv'
<1>1. Wired' = Wired /\ (Wired => Wire' = Wire \o fs) /\ (~Wired => Wire' = Wire)
  BY WirePut
<1>2. Hushed(Loud, 0)
  BY <1>1, HushedSame, HushedPut, NotLoud
<1> QED
  BY <1>1, <1>2, HushedOther

LEMMA BasicConsumeOther == ASSUME BaseInv, OtherInv, NEW c \in Consumer, BasicConsume(c) PROVE OtherInv'
<1>1. UNCHANGED <<attached, sock, returned, get, partial, used, sent, dropped>>
  BY DEF BasicConsume, chanVars, handVars
<1>2. CASE UNCHANGED <<toClient, serving>>
  BY <1>1, <1>2, IdleOther
<1>3. CASE Answer(<<[frame |-> "ConsumeOk", consumer |-> c]>>, serving.consumers \cup {c})
  <2>1. PICK f \in Frame : f = [frame |-> "ConsumeOk", consumer |-> c]
    BY FramesMade
  <2>2. f.frame \notin Loud /\ Load(<<f>>, f)
    BY <2>1, NotLoud, SingleLoad
  <2>3. CASE toClient' = toClient \o <<f>> /\ serving' = [serving EXCEPT !.consumers = serving.consumers \cup {c}]
    <3>1. serving'.open = serving.open
      BY <2>3 DEF BaseInv, TypeOK
    <3> QED
      BY <1>1, <2>2, <2>3, <3>1, PutOther
  <2> QED
    BY <1>2, <1>3, <2>1, <2>3 DEF Answer, Put
<1> QED
  BY <1>2, <1>3 DEF BasicConsume

LEMMA CancelOther == ASSUME BaseInv, OtherInv, NEW c \in Consumer, Cancel(c) PROVE OtherInv'
<1>1. UNCHANGED <<attached, sock, returned, get, partial, used, sent, dropped>>
  BY DEF Cancel, chanVars, handVars
<1>2. CASE UNCHANGED <<toClient, serving>>
  BY <1>1, <1>2, IdleOther
<1>3. CASE Answer(<<[frame |-> "CancelOk", consumer |-> c]>>, serving.consumers \ {c})
  <2>1. PICK f \in Frame : f = [frame |-> "CancelOk", consumer |-> c]
    BY FramesMade
  <2>2. f.frame \notin Loud /\ Load(<<f>>, f)
    BY <2>1, NotLoud, SingleLoad
  <2>3. CASE toClient' = toClient \o <<f>> /\ serving' = [serving EXCEPT !.consumers = serving.consumers \ {c}]
    <3>1. serving'.open = serving.open
      BY <2>3 DEF BaseInv, TypeOK
    <3> QED
      BY <1>1, <2>2, <2>3, <3>1, PutOther
  <2> QED
    BY <1>2, <1>3, <2>1, <2>3 DEF Answer, Put
<1> QED
  BY <1>2, <1>3 DEF Cancel

LEMMA ServerCancelsOther == ASSUME BaseInv, OtherInv, NEW c \in Consumer, ServerCancels(c) PROVE OtherInv'
<1>1. PICK f \in Frame : f = [frame |-> "Cancel", consumer |-> c]
  BY FramesMade
<1>2. f.frame \notin Loud /\ Load(<<f>>, f)
  BY <1>1, NotLoud, SingleLoad
<1>3. /\ UNCHANGED <<attached, sock, returned, get, partial, used, sent, dropped>>
      /\ toClient' = toClient \o <<f>> /\ serving'.open = serving.open
  BY <1>1 DEF ServerCancels, Server, chanVars, handVars, promises, Put, BaseInv, TypeOK
<1> QED
  BY <1>2, <1>3, PutOther

\* A frame is read that is not loud.
LEMMA TailOther ==
    ASSUME BaseInv, OtherInv, attached, attached' = attached, NEW k, Receive(k), k \notin Loud,
           UNCHANGED <<returned, get, partial.getMessage, partial.returned>>
    PROVE  OtherInv'
<1>1. Wired /\ Wired' /\ Wire' = Tail(Wire) /\ Wire # <<>> /\ Wire[1].frame = k
  BY WireReceive
<1>2. Hushed(Loud, 1)
  BY <1>1, HushedTail
<1>3. UNCHANGED <<used, sent, dropped, serving>>
  BY ReceiveFrame
<1> QED
  BY <1>1, <1>2, <1>3, HushedOther

LEMMA SkipFrameOther == ASSUME BaseInv, OtherInv, SkipFrame PROVE OtherInv'
<1>1. UNCHANGED <<returned, get, partial, used, sent, dropped>> /\ ~Wired'
  BY ReceiveFrame DEF SkipFrame, Wired, promises
<1> QED
  BY <1>1, CutOther

LEMMA GotQuietOther == ASSUME BaseInv, OtherInv, GotConsumeOk \/ GotCancelOk \/ GotCancel PROVE OtherInv'
<1>1. CASE GotConsumeOk
  BY <1>1, TailOther, NotLoud DEF GotConsumeOk
<1>2. CASE GotCancelOk
  BY <1>2, TailOther, NotLoud DEF GotCancelOk
<1>3. CASE GotCancel
  BY <1>3, TailOther, NotLoud DEF GotCancel, promises
<1> QED
  BY <1>1, <1>2, <1>3

LEMMA GotCloseOther == ASSUME BaseInv, OtherInv, GotClose PROVE OtherInv'
<1>1. UNCHANGED <<returned, partial, used, sent, dropped>> /\ ~Wired'
  BY ReceiveFrame DEF GotClose, Wired
<1>2. get' = get \/ get' = "rejected"
  BY DEF GotClose, SetClosed, promises
<1> QED
  BY <1>1, <1>2, CutOther

LEMMA ConnectionEndsOther == ASSUME BaseInv, OtherInv, ConnectionEnds PROVE OtherInv'
<1>1. UNCHANGED <<returned, partial, used, sent, dropped>> /\ ~Wired'
  BY DEF ConnectionEnds, Wired, handVars, serverVars
<1>2. get' = get \/ get' = "rejected"
  BY DEF ConnectionEnds, SetClosed, promises
<1> QED
  BY <1>1, <1>2, CutOther

LEMMA DeliverOther == ASSUME BaseInv, RegInv, FlowInv, OtherInv, Deliver PROVE OtherInv'
<1>1. PICK c \in Consumer, m \in Message :
          /\ Due(1, Delivery(c, m)) /\ Run("deliver")
          /\ dropped' = dropped \/ dropped' = dropped \cup {m}
  BY DeliverFacts
<1>2. UNCHANGED <<attached, sock, toClient, serving, returned, get, partial, used, sent>>
  BY <1>1, RunBase
<1>3. WasSent(m)
  BY <1>1 DEF FlowInv, DueIsSent, WasSent
<1>4. Wire' = Wire /\ Wired' = Wired
  BY <1>2 DEF Wire, Wired
<1>5. /\ \A x : Placed(x)' <=> Placed(x)
      /\ \A x : WasSent(x)' <=> WasSent(x)
  BY <1>2, <1>4 DEF Placed, WasSent
<1>6. Told'
  BY <1>1, <1>2, <1>3, <1>5 DEF OtherInv, Told
<1>7. NoneLost' /\ GetInv' /\ ShutInv'
  BY <1>2, <1>4, <1>5 DEF OtherInv, NoneLost, GetInv, ShutInv
<1> QED
  BY <1>6, <1>7 DEF OtherInv

LEMMA ServerDeliversOther ==
    ASSUME BaseInv, OtherInv, NEW c \in Consumer, NEW m \in Message, NEW k \in 0 .. MaxBodies, ServerDelivers(c, m, k)
    PROVE  OtherInv'
<1>1. /\ UNCHANGED <<attached, sock, serving, returned, get, partial, dropped>>
      /\ m \notin used /\ used' = used \cup {m} /\ sent' = [sent EXCEPT ![c] = Append(sent[c], m)]
      /\ sent \in [Consumer -> Seq(Message)]
  BY DEF ServerDelivers, Server, chanVars, handVars, promises, BaseInv, TypeOK
<1>2. PICK f \in Frame : f = [frame |-> "Deliver", consumer |-> c, message |-> m]
  BY FramesMade
<1>3. f.frame \notin Loud /\ Load(Content(f, k), f)
  BY <1>2, NotLoud, ContentLoad
<1>4. toClient' = toClient \o Content(f, k)
  BY <1>2 DEF ServerDelivers, Put
<1>5. Wired' = Wired /\ (Wired => Wire' = Wire \o Content(f, k)) /\ (~Wired => Wire' = Wire)
  BY <1>1, <1>4, WirePut
<1>6. Hushed(Loud, 0)
  BY <1>3, <1>5, HushedSame, HushedPut, NotLoud
<1>7. Hushed(Answers, 0) /\ Hushed(Carriers, 0) /\ Hushed(Closings, 0)
  BY <1>6, HushedFewer DEF Loud
<1>8. GetInv' /\ ShutInv'
  BY <1>1, <1>5, <1>7, HushedGet, HushedShut DEF OtherInv
<1>9. \A x : Placed(x)' <=> Placed(x)
  BY <1>1, <1>7, HushedCarries DEF Placed
<1>10. \A x \in Message : WasSent(x)' <=> WasSent(x) \/ x = m
  <2>1. \A d \in Consumer : d # c => sent'[d] = sent[d]
    BY <1>1
  <2>2. /\ Len(sent'[c]) = Len(sent[c]) + 1 /\ sent'[c][Len(sent[c]) + 1] = m
        /\ \A i \in 1 .. Len(sent[c]) : sent'[c][i] = sent[c][i]
    <3>1. sent'[c] = Append(sent[c], m) /\ sent[c] \in Seq(Message)
      BY <1>1
    <3> QED
      BY <3>1
  <2>3. Len(sent[c]) \in Nat
    BY SentFacts
  <2>4. WasSent(m)'
    BY <2>2, <2>3 DEF WasSent
  <2>5. ASSUME NEW x \in Message, WasSent(x) PROVE WasSent(x)'
    <3>1. PICK d \in Consumer : \E i \in 1 .. Len(sent[d]) : sent[d][i] = x
      BY <2>5 DEF WasSent
    <3>2. CASE d = c
      BY <2>2, <2>3, <3>1, <3>2 DEF WasSent
    <3>3. CASE d # c
      BY <2>1, <3>1, <3>3 DEF WasSent
    <3> QED
      BY <3>2, <3>3
  <2>6. ASSUME NEW x \in Message, WasSent(x)' PROVE WasSent(x) \/ x = m
    <3>0. PICK d \in Consumer : \E i \in 1 .. Len(sent'[d]) : sent'[d][i] = x
      BY <2>6 DEF WasSent
    <3>1. PICK i \in 1 .. Len(sent'[d]) : sent'[d][i] = x
      BY <3>0
    <3>2. CASE d = c
      <4>1. i \in 1 .. Len(sent[c]) \/ i = Len(sent[c]) + 1
        BY <2>2, <2>3, <3>1, <3>2
      <4> QED
        BY <2>2, <3>1, <3>2, <4>1 DEF WasSent
    <3>3. CASE d # c
      BY <2>1, <3>1, <3>3 DEF WasSent
    <3> QED
      BY <3>2, <3>3
  <2> QED
    BY <2>4, <2>5, <2>6
<1>11. dropped \subseteq Message
  BY DEF BaseInv, TypeOK
<1>12. Told'
  BY <1>1, <1>9, <1>10, <1>11 DEF OtherInv, Told
<1>13. used \subseteq Message
  BY DEF BaseInv, TypeOK
<1>14. NoneLost'
  BY <1>1, <1>5, <1>9, <1>10, <1>13 DEF OtherInv, NoneLost
<1> QED
  BY <1>8, <1>12, <1>14 DEF OtherInv

\* What a load puts on the wire
LEMMA LoadCarries ==
    ASSUME BaseInv, NEW fs, NEW f, Load(fs, f), Wire' = Wire \o fs
    PROVE  /\ \A m : (\E k \in 1 .. Len(Wire') : Carries(Wire'[k], m)) <=>
                     (\E k \in 1 .. Len(Wire) : Carries(Wire[k], m)) \/ Carries(f, m)
           /\ Len(Wire) + 1 \in 1 .. Len(Wire') /\ Wire'[Len(Wire) + 1] = f
           /\ \A k \in 1 .. Len(Wire) : k \in 1 .. Len(Wire') /\ Wire'[k] = Wire[k]
           /\ \A k \in 1 .. Len(Wire') : k \in 1 .. Len(Wire) \/ k = Len(Wire) + 1
                                         \/ Wire'[k].frame \in {"Header", "Body"}
<1>1. /\ Len(Wire') = Len(Wire) + Len(fs) /\ Len(Wire) \in Nat /\ Len(fs) \in Nat /\ Len(fs) > 0
      /\ \A k \in 1 .. Len(Wire) : Wire'[k] = Wire[k]
      /\ \A k \in 1 .. Len(Wire') :
            k \in 1 .. Len(Wire) \/ (k - Len(Wire) \in 1 .. Len(fs) /\ Wire'[k] = fs[k - Len(Wire)])
      /\ \A k \in 1 .. Len(fs) : Wire'[Len(Wire) + k] = fs[k]
  BY RowType DEF Load
<1>2. Len(Wire) + 1 \in 1 .. Len(Wire') /\ Wire'[Len(Wire) + 1] = f
  BY <1>1 DEF Load
<1>3. \A k \in 1 .. Len(Wire) : k \in 1 .. Len(Wire') /\ Wire'[k] = Wire[k]
  BY <1>1
<1>4. \A k \in 1 .. Len(Wire') : k \in 1 .. Len(Wire) \/ k = Len(Wire) + 1 \/ Wire'[k].frame \in {"Header", "Body"}
  BY <1>1 DEF Load
<1>5. "Header" \notin Carriers /\ "Body" \notin Carriers
  BY DEF Carriers
<1>6. \A m : (\E k \in 1 .. Len(Wire') : Carries(Wire'[k], m)) <=>
             (\E k \in 1 .. Len(Wire) : Carries(Wire[k], m)) \/ Carries(f, m)
  BY <1>2, <1>3, <1>4, <1>5 DEF Carries
<1> QED
  BY <1>2, <1>3, <1>4, <1>6

\* The history of what was sent for consumers stays.
LEMMA SameSent == ASSUME sent' = sent PROVE \A m : WasSent(m)' <=> WasSent(m)
BY DEF WasSent

LEMMA NewTold ==
    ASSUME Told, NEW m \in Message, m \notin used, used' = used \cup {m}, UNCHANGED <<sent, dropped>>,
           \A x \in Message : Placed(x)' => Placed(x) \/ x = m
    PROVE  Told'
BY SameSent DEF Told

LEMMA ServerReturnsOther ==
    ASSUME BaseInv, OtherInv, NEW m \in Message, NEW k \in 0 .. MaxBodies, ServerReturns(m, k)
    PROVE  OtherInv'
<1>1. /\ UNCHANGED <<attached, sock, serving, returned, get, partial, dropped, sent>>
      /\ m \notin used /\ used' = used \cup {m} /\ used \subseteq Message
  BY DEF ServerReturns, Server, chanVars, handVars, promises, BaseInv, TypeOK
<1>2. PICK f \in Frame : f = [frame |-> "Return", message |-> m]
  BY FramesMade
<1>3. f.frame = "Return" /\ Load(Content(f, k), f) /\ \A x : Carries(f, x) <=> x = m
  BY <1>2, ContentLoad DEF Carries, Carriers
<1>4. toClient' = toClient \o Content(f, k)
  BY <1>2 DEF ServerReturns, Put
<1>5. Wired' = Wired /\ (Wired => Wire' = Wire \o Content(f, k)) /\ (~Wired => Wire' = Wire)
  BY <1>1, <1>4, WirePut
<1>6. /\ "Return" \notin Answers /\ "Return" \notin Closings
      /\ {"Header", "Body"} \cap Answers = {} /\ {"Header", "Body"} \cap Closings = {}
  BY DEF Answers, Closings
<1>7. Hushed(Answers, 0) /\ Hushed(Closings, 0)
  BY <1>3, <1>5, <1>6, HushedSame, HushedPut
<1>8. GetInv' /\ ShutInv'
  BY <1>1, <1>5, <1>7, HushedGet, HushedShut DEF OtherInv
<1>9. \A x : Placed(x)' <=> Placed(x) \/ (Wired /\ x = m)
  <2>1. CASE Wired
    BY <1>1, <1>3, <1>5, <2>1, LoadCarries DEF Placed
  <2>2. CASE ~Wired
    BY <1>1, <1>5, <2>2 DEF Placed
  <2> QED
    BY <2>1, <2>2
<1>10. Told'
  BY <1>1, <1>9, NewTold DEF OtherInv
<1>11. NoneLost'
  BY <1>1, <1>5, <1>9, SameSent DEF OtherInv, NoneLost
<1> QED
  BY <1>8, <1>10, <1>11 DEF OtherInv

\* The channel is closed by the application or by the broker.
LEMMA ClosingOther ==
    ASSUME BaseInv, OtherInv, NEW f \in Frame, f.frame \in Closings, toClient' = toClient \o <<f>>,
           UNCHANGED <<attached, sock, returned, get, partial, used, sent, dropped>>, ~serving'.open
    PROVE  OtherInv'
<1>1. Load(<<f>>, f)
  BY SingleLoad
<1>2. Wired' = Wired /\ (Wired => Wire' = Wire \o <<f>>) /\ (~Wired => Wire' = Wire)
  BY WirePut
<1>3. /\ f.frame \notin Answers /\ f.frame \notin Carriers
      /\ {"Header", "Body"} \cap Answers = {} /\ {"Header", "Body"} \cap Carriers = {}
  BY DEF Answers, Closings, Carriers
<1>4. Hushed(Answers, 0) /\ Hushed(Carriers, 0)
  BY <1>1, <1>2, <1>3, HushedSame, HushedPut
<1>5. GetInv'
  BY <1>2, <1>4, HushedGet DEF OtherInv
<1>6. \A x : Placed(x)' <=> Placed(x)
  BY <1>4, HushedCarries DEF Placed
<1>7. Told'
  BY <1>6, SameSent DEF OtherInv, Told
<1>8. ShutInv'
  <2>1. CASE Wired
    <3>1. Len(Wire) + 1 \in 1 .. Len(Wire') /\ Wire'[Len(Wire) + 1] = f
      BY <1>1, <1>2, <2>1, LoadCarries
    <3> QED
      BY <3>1 DEF ShutInv
  <2>2. CASE ~Wired
    BY <1>2, <2>2 DEF ShutInv
  <2> QED
    BY <2>1, <2>2
<1> QED
  BY <1>5, <1>7, <1>8 DEF OtherInv, NoneLost

LEMMA CloseChannelOther == ASSUME BaseInv, OtherInv, CloseChannel PROVE OtherInv'
<1>1. PICK f \in Frame : f = [frame |-> "CloseOk"]
  BY FramesMade
<1>2. f.frame \in Closings
  BY <1>1 DEF Closings
<1>3. toClient' = toClient \o <<f>> /\ ~serving'.open /\ UNCHANGED <<attached, sock, returned, get, partial, used, sent, dropped>>
  BY <1>1 DEF CloseChannel, Put, promises, handVars
<1> QED
  BY <1>2, <1>3, ClosingOther

LEMMA ServerClosesOther == ASSUME BaseInv, OtherInv, ServerCloses PROVE OtherInv'
<1>1. PICK f \in Frame : f = [frame |-> "Close"]
  BY FramesMade
<1>2. f.frame \in Closings
  BY <1>1 DEF Closings
<1>3. toClient' = toClient \o <<f>> /\ ~serving'.open /\ UNCHANGED <<attached, sock, returned, get, partial, used, sent, dropped>>
  BY <1>1 DEF ServerCloses, Server, Put, promises, handVars, chanVars
<1> QED
  BY <1>2, <1>3, ClosingOther

\* The answer to basicGet is put on the wire with the request.
LEMMA AskedOther ==
    ASSUME BaseInv, OtherInv, Wired, get = "none", get' = "asked", NEW f \in Frame, f.frame \in Answers,
           NEW fs, Load(fs, f), toClient' = toClient \o fs,
           UNCHANGED <<attached, sock, serving, returned, partial, sent, dropped>>, used \subseteq Message,
           \/ used' = used /\ f.frame = "GetEmpty"
           \/ f.message \in Message \ used /\ used' = used \cup {f.message} /\ f.frame = "GetOk"
    PROVE  OtherInv'
<1>1. Wired' /\ Wire' = Wire \o fs
  BY WirePut
<1>2. /\ \A x : (\E k \in 1 .. Len(Wire') : Carries(Wire'[k], x)) <=>
                (\E k \in 1 .. Len(Wire) : Carries(Wire[k], x)) \/ Carries(f, x)
      /\ Len(Wire) + 1 \in 1 .. Len(Wire') /\ Wire'[Len(Wire) + 1] = f
      /\ \A k \in 1 .. Len(Wire) : k \in 1 .. Len(Wire') /\ Wire'[k] = Wire[k]
      /\ \A k \in 1 .. Len(Wire') : k \in 1 .. Len(Wire) \/ k = Len(Wire) + 1 \/ Wire'[k].frame \in {"Header", "Body"}
  BY <1>1, LoadCarries
<1>3. {"Header", "Body"} \cap Answers = {} /\ "asked" \notin Message /\ "none" \notin Message
  BY ConsumersAssumption DEF Answers
<1>4. partial.getMessage = None /\ \A k \in 1 .. Len(Wire) : Wire[k].frame \notin Answers
  BY DEF OtherInv, GetInv
<1>5. \A k \in 1 .. Len(Wire') : Wire'[k].frame \in Answers => k = Len(Wire) + 1
  BY <1>2, <1>3, <1>4
<1>6. GetInv'
  BY <1>2, <1>4, <1>5 DEF GetInv
<1>7. ShutInv'
  BY <1>1, <1>2 DEF OtherInv, ShutInv
<1>8. \A x \in Message : Placed(x)' <=> Placed(x) \/ Carries(f, x)
  BY <1>2, <1>3 DEF Placed
<1>9. CASE used' = used /\ f.frame = "GetEmpty"
  <2>1. \A x \in Message : Placed(x)' <=> Placed(x)
    BY <1>8, <1>9 DEF Carries, Carriers
  <2>2. Told'
    BY <1>9, <2>1, SameSent DEF OtherInv, Told
  <2>3. NoneLost'
    BY <1>1, <1>9, <2>1, SameSent DEF OtherInv, NoneLost
  <2> QED
    BY <1>6, <1>7, <2>2, <2>3 DEF OtherInv
<1>10. CASE f.message \in Message \ used /\ used' = used \cup {f.message} /\ f.frame = "GetOk"
  <2>1. \A x \in Message : Placed(x)' <=> Placed(x) \/ x = f.message
    BY <1>8, <1>10 DEF Carries, Carriers
  <2>2. Told'
    BY <1>10, <2>1, NewTold DEF OtherInv
  <2>3. NoneLost'
    BY <1>1, <1>10, <2>1, SameSent DEF OtherInv, NoneLost
  <2> QED
    BY <1>6, <1>7, <2>2, <2>3 DEF OtherInv
<1> QED
  BY <1>9, <1>10

LEMMA BasicGetOther == ASSUME BaseInv, OtherInv, BasicGet PROVE OtherInv'
<1>1. /\ UNCHANGED <<attached, sock, returned, partial, sent, dropped, closed>>
      /\ get = "none" /\ get' = "asked" /\ ~closed /\ sock
      /\ serving \in [open : BOOLEAN, consumers : SUBSET Consumer] /\ used \subseteq Message
  BY DEF BasicGet, Usable, chanVars, handVars, BaseInv, TypeOK
<1>2. Wired
  BY <1>1 DEF BaseInv, Wired
<1>3. CASE serving.open
  <2>1. serving' = [serving EXCEPT !.consumers = serving.consumers] => serving' = serving
    BY <1>1
  <2>2. CASE Put(<<[frame |-> "GetEmpty"]>>) /\ used' = used /\ serving' = serving
    <3>1. PICK f \in Frame : f = [frame |-> "GetEmpty"]
      BY FramesMade
    <3>2. f.frame = "GetEmpty" /\ f.frame \in Answers /\ Load(<<f>>, f)
      BY <3>1, SingleLoad DEF Answers
    <3>3. toClient' = toClient \o <<f>>
      BY <2>2, <3>1 DEF Put
    <3> QED
      BY <1>1, <1>2, <2>2, <3>2, <3>3, AskedOther
  <2>3. ASSUME NEW m \in Message \ used, NEW k \in 0 .. MaxBodies, used' = used \cup {m}, serving' = serving,
               Put(Content([frame |-> "GetOk", message |-> m], k))
        PROVE  OtherInv'
    <3>1. PICK f \in Frame : f = [frame |-> "GetOk", message |-> m]
      BY FramesMade
    <3>2. f.frame = "GetOk" /\ f.frame \in Answers /\ f.message = m /\ Load(Content(f, k), f)
      BY <3>1, ContentLoad DEF Answers
    <3>3. toClient' = toClient \o Content(f, k)
      BY <2>3, <3>1 DEF Put
    <3> QED
      BY <1>1, <1>2, <2>3, <3>2, <3>3, AskedOther
  <2> QED
    BY <1>3, <2>1, <2>2, <2>3 DEF BasicGet, Answer
<1>4. CASE ~serving.open
  <2>1. UNCHANGED <<toClient, serving>>
    BY <1>4 DEF BasicGet, Answer
  <2>2. Wire' = Wire /\ Wired' = Wired
    BY <1>1, <2>1 DEF Wire, Wired
  <2>3. "asked" \notin Message /\ \A x \in Message : Placed(x)' => Placed(x)
    BY <1>1, <2>2, ConsumersAssumption DEF Placed
  <2>4. Told'
    <3>1. used \subseteq used'
      BY DEF BasicGet
    <3> QED
      BY <1>1, <2>3, <3>1, SameSent DEF OtherInv, Told
  <2>5. GetInv'
    BY <1>1, <1>4, <2>1, <2>2 DEF OtherInv, GetInv
  <2>6. ShutInv'
    BY <2>1, <2>2 DEF OtherInv, ShutInv
  <2> QED
    BY <1>4, <2>1, <2>4, <2>5, <2>6 DEF OtherInv, NoneLost
<1> QED
  BY <1>3, <1>4

\* Reading a frame takes it from the wire.
LEMMA TailFacts ==
    ASSUME BaseInv, Wire # <<>>, Wire' = Tail(Wire)
    PROVE  /\ \A k \in 1 .. Len(Wire') : k + 1 \in 1 .. Len(Wire) /\ Wire'[k] = Wire[k + 1]
           /\ \A k \in 1 .. Len(Wire) : k = 1 \/ (k - 1 \in 1 .. Len(Wire') /\ Wire'[k - 1] = Wire[k])
           /\ 1 \in 1 .. Len(Wire)
<1>1. /\ Len(Wire) \in Nat /\ Len(Wire) > 0 /\ Len(Wire') = Len(Wire) - 1
      /\ \A k \in 1 .. Len(Wire') : Wire'[k] = Wire[k + 1]
  BY RowType
<1> QED
  BY <1>1

LEMMA TailCarries ==
    ASSUME BaseInv, Wire # <<>>, Wire' = Tail(Wire)
    PROVE  \A m : (\E k \in 1 .. Len(Wire) : Carries(Wire[k], m)) <=>
                  Carries(Wire[1], m) \/ \E k \in 1 .. Len(Wire') : Carries(Wire'[k], m)
BY TailFacts

\* The one answer is read: no other is on the wire.
LEMMA AnswerRead ==
    ASSUME BaseInv, OtherInv, Wired, Wire # <<>>, Wire' = Tail(Wire), Wire[1].frame \in Answers
    PROVE  get = "asked" /\ partial.getMessage = None /\ \A k \in 1 .. Len(Wire') : Wire'[k].frame \notin Answers
<1>1. 1 \in 1 .. Len(Wire) /\ get = "asked" /\ partial.getMessage = None
  BY TailFacts DEF OtherInv, GetInv
<1>2. ASSUME NEW k \in 1 .. Len(Wire'), Wire'[k].frame \in Answers PROVE FALSE
  <2>1. k + 1 \in 1 .. Len(Wire) /\ Wire[k + 1].frame \in Answers /\ k + 1 # 1
    BY <1>2, TailFacts
  <2> QED
    BY <1>1, <2>1 DEF OtherInv, GetInv
<1> QED
  BY <1>1, <1>2

\* A step that keeps every message where it is or moves it on
LEMMA PlacedOther ==
    ASSUME BaseInv, OtherInv, UNCHANGED <<used, sent, dropped, serving>>, Wired, GetInv', ShutInv',
           \A x \in Message : Placed(x)' <=> Placed(x)
    PROVE  OtherInv'
<1>1. used \subseteq Message
  BY DEF BaseInv, TypeOK
<1>2. Told'
  BY SameSent DEF OtherInv, Told
<1>3. NoneLost'
  BY <1>1, SameSent DEF OtherInv, NoneLost
<1> QED
  BY <1>2, <1>3 DEF OtherInv

LEMMA GotGetEmptyOther == ASSUME BaseInv, OtherInv, GotGetEmpty PROVE OtherInv'
<1>1. /\ Wired /\ Wired' /\ Wire' = Tail(Wire) /\ Wire # <<>> /\ Wire[1].frame = "GetEmpty"
      /\ UNCHANGED <<used, sent, dropped, serving, returned, partial>> /\ get' = "empty"
  BY WireReceive, ReceiveFrame DEF GotGetEmpty
<1>2. "GetEmpty" \in Answers /\ "GetEmpty" \notin Carriers /\ "GetEmpty" \notin Closings
  BY DEF Answers, Carriers, Closings
<1>3. get = "asked" /\ partial.getMessage = None /\ \A k \in 1 .. Len(Wire') : Wire'[k].frame \notin Answers
  BY <1>1, <1>2, AnswerRead
<1>4. Hushed(Carriers, 1) /\ Hushed(Closings, 1)
  BY <1>1, <1>2, HushedTail
<1>5. GetInv'
  BY <1>1, <1>3 DEF GetInv
<1>6. ShutInv'
  BY <1>1, <1>4, HushedShut DEF OtherInv
<1>7. "asked" \notin Message /\ "empty" \notin Message
  BY ConsumersAssumption
<1>8. \A x \in Message : Placed(x)' <=> Placed(x)
  BY <1>1, <1>3, <1>4, <1>7, HushedCarries DEF Placed
<1> QED
  BY <1>1, <1>5, <1>6, <1>8, PlacedOther

LEMMA GotMethodOther == ASSUME BaseInv, OtherInv, GotMethod PROVE OtherInv'
<1>1. ~Begun /\ None \notin Message
  BY ReceiveHead, ConsumersAssumption DEF GotMethod
<1>2. attached /\ UNCHANGED <<attached, returned, get>> /\ partial \in [delivery : Message \cup {None},
         consumer : Consumer \cup {None}, getMessage : Message \cup {None}, returned : Message \cup {None}]
  BY DEF GotMethod, promises, BaseInv, TypeOK
<1>3. CASE Receive("Deliver") /\ \E m, c : partial' = [partial EXCEPT !.delivery = m, !.consumer = c]
  <2>1. UNCHANGED <<partial.getMessage, partial.returned>>
    BY <1>2, <1>3
  <2> QED
    BY <1>2, <1>3, <2>1, TailOther, NotLoud
<1>4. CASE Receive("GetOk") /\ partial' = [partial EXCEPT !.getMessage = Head(toClient).message]
  <2>1. /\ Wired /\ Wired' /\ Wire' = Tail(Wire) /\ Wire # <<>> /\ Wire[1].frame = "GetOk"
        /\ Wire[1] = Head(toClient)
    BY <1>2, <1>4, WireReceive
  <2>2. UNCHANGED <<used, sent, dropped, serving>>
    BY <1>4, ReceiveFrame
  <2>3. "GetOk" \in Answers /\ "GetOk" \in Carriers /\ "GetOk" \notin Closings
    BY DEF Answers, Carriers, Closings
  <2>4. get = "asked" /\ partial.getMessage = None /\ \A k \in 1 .. Len(Wire') : Wire'[k].frame \notin Answers
    BY <2>1, <2>3, AnswerRead
  <2>5. partial'.getMessage = Wire[1].message /\ partial'.returned = partial.returned
    BY <1>2, <1>4, <2>1
  <2>6. ShutInv'
    <3>1. Hushed(Closings, 1)
      BY <2>1, <2>3, HushedTail
    <3> QED
      BY <2>1, <2>2, <3>1, HushedShut DEF OtherInv
  <2>7. GetInv'
    <3>1. PICK g \in Frame : g = Wire[1]
      BY <1>2, <1>4, WireReceive
    <3>2. g.message \in Message
      BY <2>1, <3>1, FrameFacts DEF Methods
    <3>3. partial'.getMessage \in Message
      BY <2>5, <3>1, <3>2
    <3> QED
      BY <1>1, <1>2, <2>4, <3>3 DEF GetInv
  <2>8. \A x \in Message : Placed(x)' <=> Placed(x)
    <3>1. \A x : Carries(Wire[1], x) <=> x = partial'.getMessage
      BY <2>1, <2>3, <2>5 DEF Carries
    <3> QED
      BY <1>1, <1>2, <2>1, <2>4, <2>5, <3>1, TailCarries DEF Placed
  <2> QED
    BY <2>1, <2>2, <2>6, <2>7, <2>8, PlacedOther
<1>5. CASE Receive("Return") /\ partial' = [partial EXCEPT !.returned = Head(toClient).message]
  <2>1. /\ Wired /\ Wired' /\ Wire' = Tail(Wire) /\ Wire # <<>> /\ Wire[1].frame = "Return"
        /\ Wire[1] = Head(toClient)
    BY <1>2, <1>5, WireReceive
  <2>2. UNCHANGED <<used, sent, dropped, serving>>
    BY <1>5, ReceiveFrame
  <2>3. "Return" \notin Answers /\ "Return" \in Carriers /\ "Return" \notin Closings
    BY DEF Answers, Carriers, Closings
  <2>4. partial.returned = None
    BY <1>1 DEF Begun
  <2>5. partial'.returned = Wire[1].message /\ partial'.getMessage = partial.getMessage
    BY <1>2, <1>5, <2>1
  <2>6. GetInv' /\ ShutInv'
    <3>1. Hushed(Closings, 1) /\ Hushed(Answers, 1)
      BY <2>1, <2>3, HushedTail
    <3> QED
      BY <1>2, <2>1, <2>2, <2>5, <3>1, HushedShut, HushedGet DEF OtherInv
  <2>7. \A x \in Message : Placed(x)' <=> Placed(x)
    <3>1. \A x : Carries(Wire[1], x) <=> x = partial'.returned
      BY <2>1, <2>3, <2>5 DEF Carries
    <3> QED
      BY <1>1, <1>2, <2>1, <2>4, <2>5, <3>1, TailCarries DEF Placed
  <2> QED
    BY <2>1, <2>2, <2>6, <2>7, PlacedOther
<1> QED
  BY <1>3, <1>4, <1>5 DEF GotMethod

\* The last frame of a message hands it over.
LEMMA GotPartOther == ASSUME BaseInv, OtherInv, GotHeader \/ GotBody PROVE OtherInv'
<1>1. PICK k \in {"Header", "Body"} : Receive(k) /\ attached /\ \E left : Expect(left)
  BY DEF GotHeader, GotBody
<1>2. attached' = attached /\ k \notin Loud /\ Begun
  BY <1>1, ReceiveHead, NotLoud DEF Expect
<1>3. /\ Wired /\ Wired' /\ Wire' = Tail(Wire) /\ Wire # <<>> /\ Wire[1].frame = k
      /\ UNCHANGED <<used, sent, dropped, serving>>
  BY <1>1, <1>2, WireReceive, ReceiveFrame
<1>4. /\ partial \in [delivery : Message \cup {None}, consumer : Consumer \cup {None},
                      getMessage : Message \cup {None}, returned : Message \cup {None}]
      /\ returned \in Seq(Message) /\ None \notin Message
  BY ConsumersAssumption DEF BaseInv, TypeOK
<1>5. Hushed(Loud, 1) /\ Hushed(Answers, 1) /\ Hushed(Carriers, 1) /\ Hushed(Closings, 1)
  <2>1. Hushed(Loud, 1)
    BY <1>2, <1>3, HushedTail
  <2> QED
    BY <2>1, HushedFewer DEF Loud
<1>6. ShutInv'
  BY <1>3, <1>5, HushedShut DEF OtherInv
<1>7. CASE UNCHANGED <<partial.getMessage, partial.returned, get, returned>>
  BY <1>1, <1>2, <1>7, TailOther
<1>8. CASE /\ partial.delivery = None /\ partial.getMessage # None /\ partial' = GetDone(partial)
           /\ get' = partial.getMessage /\ UNCHANGED returned
  <2>1. partial'.getMessage = None /\ partial'.returned = partial.returned /\ get' \in Message
    BY <1>4, <1>8 DEF GetDone
  <2>2. get = "asked" /\ \A i \in 1 .. Len(Wire) : Wire[i].frame \notin Answers
    BY <1>3, <1>8 DEF OtherInv, GetInv
  <2>3. "asked" \notin Message
    BY ConsumersAssumption
  <2>4. \A i \in 1 .. Len(Wire') : Wire'[i].frame \notin Answers
    BY <1>5, <2>2 DEF Hushed
  <2>5. GetInv'
    BY <2>1, <2>3, <2>4 DEF GetInv
  <2>6. \A x \in Message : Placed(x)' <=> Placed(x)
    BY <1>4, <1>5, <1>8, <2>1, <2>2, <2>3, HushedCarries DEF Placed
  <2> QED
    BY <1>3, <1>6, <2>5, <2>6, PlacedOther
<1>9. CASE /\ partial.delivery = None /\ partial.getMessage = None
           /\ partial' = [partial EXCEPT !.returned = None]
           /\ returned' = Append(returned, partial.returned) /\ UNCHANGED get
  <2>1. partial'.getMessage = None /\ partial'.returned = None /\ partial.returned \in Message
    BY <1>2, <1>4, <1>9 DEF Begun
  <2>2. GetInv'
    BY <1>3, <1>5, <1>9, <2>1, HushedGet DEF OtherInv
  <2>3. \A x : (\E i \in 1 .. Len(returned') : returned'[i] = x)
                   <=> x = partial.returned \/ \E i \in 1 .. Len(returned) : returned[i] = x
    <3>1. /\ Len(returned) \in Nat /\ Len(returned') = Len(returned) + 1
          /\ returned'[Len(returned) + 1] = partial.returned
          /\ \A i \in 1 .. Len(returned) : returned'[i] = returned[i]
      BY <1>4, <1>9, <2>1
    <3>2. Len(returned) + 1 \in 1 .. Len(returned')
      BY <3>1
    <3>3. \A i \in 1 .. Len(returned') : i \in 1 .. Len(returned) \/ i = Len(returned) + 1
      BY <3>1
    <3>4. \A i \in 1 .. Len(returned) : i \in 1 .. Len(returned')
      BY <3>1
    <3> HIDE <1>9
    <3> QED
      BY <3>1, <3>2, <3>3, <3>4
  <2>4. \A x \in Message : Placed(x)' <=> Placed(x)
    BY <1>4, <1>5, <1>9, <2>1, <2>3, HushedCarries DEF Placed
  <2> QED
    BY <1>3, <1>6, <2>2, <2>4, PlacedOther
<1> QED
  <2>1. DeliveryDone(partial).getMessage = partial.getMessage /\ DeliveryDone(partial).returned = partial.returned
    BY <1>4 DEF DeliveryDone
  <2> QED
    BY <1>1, <1>7, <1>8, <1>9, <2>1 DEF Expect, OnMessageReady

LEMMA StepOther == ASSUME BaseInv, RegInv, FlowInv, OtherInv, [Next]_vars PROVE OtherInv'
<1>1. CASE UNCHANGED vars
  BY <1>1, IdleOther DEF vars, chanVars, promises, handVars, serverVars
<1>2. CASE Application
  <2>1. ASSUME NEW c \in Consumer, BasicConsume(c) \/ Cancel(c) PROVE OtherInv'
    BY <2>1, BasicConsumeOther, CancelOther
  <2>2. ASSUME NEW c \in Consumer, NEW w \in Waiter, NEW timed \in BOOLEAN, Wait(w, c, timed) PROVE OtherInv'
    BY <2>2, IdleOther DEF Wait, chanVars, promises, handVars, serverVars
  <2>3. CASE BasicGet \/ CloseChannel
    BY <2>3, BasicGetOther, CloseChannelOther
  <2> QED
    BY <1>2, <2>1, <2>2, <2>3 DEF Application
<1>3. CASE Handler
  <2>1. CASE SkipFrame \/ GotConsumeOk \/ GotCancelOk \/ GotCancel \/ GotGetEmpty
    BY <2>1, SkipFrameOther, GotQuietOther, GotGetEmptyOther
  <2>2. CASE GotMethod \/ GotHeader \/ GotBody \/ GotClose
    BY <2>2, GotMethodOther, GotPartOther, GotCloseOther
  <2>3. CASE Register
    <3>1. Run("register") /\ dropped' = dropped
      BY <2>3 DEF Register
    <3> QED
      BY <3>1, RunBase, IdleOther
  <2>4. CASE Cancelled
    <3>1. Run("cancelled") /\ dropped' = dropped
      BY <2>4 DEF Cancelled
    <3> QED
      BY <3>1, RunBase, IdleOther
  <2>5. CASE Deliver
    BY <2>5, DeliverOther
  <2> QED
    BY <1>3, <2>1, <2>2, <2>3, <2>4, <2>5 DEF Handler
<1>4. CASE Broker
  <2>1. ASSUME NEW m \in Message, NEW k \in 0 .. MaxBodies, ServerReturns(m, k) PROVE OtherInv'
    BY <2>1, ServerReturnsOther
  <2>2. ASSUME NEW c \in Consumer, NEW m \in Message, NEW k \in 0 .. MaxBodies, ServerDelivers(c, m, k)
        PROVE  OtherInv'
    BY <2>2, ServerDeliversOther
  <2>3. ASSUME NEW c \in Consumer, ServerCancels(c) PROVE OtherInv'
    BY <2>3, ServerCancelsOther
  <2> QED
    BY <1>4, <2>1, <2>2, <2>3, ServerClosesOther DEF Broker
<1>5. CASE ConnectionEnds
  BY <1>5, ConnectionEndsOther
<1>6. ASSUME NEW w \in Waiter, Timeout(w) PROVE OtherInv'
  BY <1>6, IdleOther DEF Timeout, chanVars, promises, handVars, serverVars
<1> QED
  BY <1>1, <1>2, <1>3, <1>4, <1>5, <1>6 DEF Next

LEMMA InitOther == Init => AllDue /\ OtherInv
<1> SUFFICES ASSUME Init PROVE AllDue /\ OtherInv
  OBVIOUS
<1>1. /\ toClient = <<>> /\ returned = <<>> /\ get = "none" /\ partial = Nothing /\ dropped = {} /\ used = {}
      /\ serving.open /\ \A c \in Consumer : sent[c] = <<>>
  BY DEF Init
<1>2. Wire = <<>> /\ partial.getMessage = None /\ partial.returned = None
  BY <1>1 DEF Wire, Nothing
<1>3. "none" \notin Message /\ None \notin Message
  BY ConsumersAssumption
<1>4. \A m : ~WasSent(m)
  BY <1>1 DEF WasSent
<1>5. \A m \in Message : ~Placed(m)
  BY <1>1, <1>2, <1>3 DEF Placed
<1>6. Told /\ NoneLost /\ ShutInv
  BY <1>1, <1>4, <1>5 DEF Told, NoneLost, ShutInv
<1>7. GetInv
  BY <1>1, <1>2 DEF GetInv
<1>8. AllDue
  BY <1>1 DEF AllDue
<1> QED
  BY <1>6, <1>7, <1>8 DEF OtherInv

LEMMA OtherInvariance == Spec => [](BaseInv /\ FlowInv /\ AllDue /\ OtherInv)
<1>1. BaseInv /\ RegInv /\ FlowInv /\ AllDue /\ OtherInv /\ [Next]_vars => AllDue' /\ OtherInv'
  BY StepDue, StepOther
<1> QED
  BY <1>1, InitOther, FlowInvariance, PTL DEF Spec

----------------------------------------------------------------------------
(* Where every message has gone when all is handled *)

LEMMA HandedIsSent == ASSUME BaseInv, HandedFirst, NEW c \in Consumer PROVE IsPrefix(handed[c], sent[c])
BY DEF HandedFirst, IsPrefix, BaseInv, TypeOK

\* Nothing is on its way: no frame, no job, no message half assembled.
LEMMA AtRest ==
    ASSUME BaseInv, sock, attached, toClient = <<>>, jobs = <<>>
    PROVE  /\ Wired /\ Wire = <<>>
           /\ partial.delivery = None /\ partial.getMessage = None /\ partial.returned = None
           /\ \A i, x : ~Due(i, x)
<1>1. Wired /\ Wire = <<>>
  BY DEF Wired, Wire
<1>2. Whole(toClient, missing, Begun) /\ missing \in Nat
  BY <1>1 DEF BaseInv, GrammarInv, TypeOK
<1>3. ~Begun
  BY <1>2 DEF Whole
<1>4. Backlog = <<>>
  BY <1>3 DEF Begun, Backlog
<1> QED
  BY <1>1, <1>3, <1>4 DEF Begun, Due, DueIn

LEMMA RestNothingWithheld == ASSUME BaseInv, FlowInv, AllDue, OtherInv PROVE NothingWithheld
<1> DEFINE delivered == UNION {ToSet(sent[c]) : c \in Consumer}
           given     == UNION {ToSet(handed[c]) : c \in Consumer}
<1> SUFFICES ASSUME sock, attached, toClient = <<>>, jobs = <<>>
             PROVE  /\ given \cup dropped = delivered
                    /\ used \ delivered = ToSet(returned) \cup ({get} \cap Message)
                    /\ get # "asked"
  BY DEF NothingWithheld
<1>1. /\ Wired /\ Wire = <<>>
      /\ partial.delivery = None /\ partial.getMessage = None /\ partial.returned = None
      /\ \A i, x : ~Due(i, x)
  BY AtRest
<1>2. serving.open
  BY <1>1 DEF OtherInv, ShutInv
<1>3. \A m : m \in delivered <=> WasSent(m)
  BY DEF ToSet, WasSent
<1>4. \A m : m \in given <=> \E c \in Consumer : \E i \in 1 .. Len(handed[c]) : handed[c][i] = m
  BY DEF ToSet
<1>5. \A m : m \in ToSet(returned) <=> \E i \in 1 .. Len(returned) : returned[i] = m
  BY DEF ToSet
<1> HIDE DEF delivered, given
<1>6. \A m : m \in given => m \in delivered
  <2> SUFFICES ASSUME NEW c \in Consumer, NEW i \in 1 .. Len(handed[c]) PROVE WasSent(handed[c][i])
    BY <1>3, <1>4
  <2>1. i \in 1 .. Len(sent[c]) /\ handed[c][i] = sent[c][i]
    BY DEF FlowInv, HandedFirst, BaseInv, TypeOK
  <2> QED
    BY <2>1 DEF WasSent
<1>7. \A m : m \in dropped => m \in delivered
  BY <1>3 DEF OtherInv, Told
<1>8. \A m : m \in delivered => m \in given \cup dropped
  <2> SUFFICES ASSUME NEW c \in Consumer, NEW k \in 1 .. Len(sent[c]) PROVE sent[c][k] \in given \cup dropped
    BY <1>3 DEF WasSent
  <2>1. Handled(c, sent[c][k])
    BY <1>1, <1>2 DEF AllDue
  <2> QED
    BY <1>4, <2>1 DEF Handled
<1>9. \A m \in Message : Placed(m) <=> m = get \/ m \in ToSet(returned)
  BY <1>1, <1>5, ConsumersAssumption DEF Placed
<1>10. used \subseteq Message /\ ToSet(returned) \subseteq Message
  BY <1>5 DEF BaseInv, TypeOK
<1>11. \A m : m \in used /\ m \notin delivered <=> m \in ToSet(returned) \/ (m = get /\ m \in Message)
  BY <1>1, <1>2, <1>3, <1>9, <1>10 DEF OtherInv, Told, NoneLost
<1>12. get # "asked"
  BY <1>1, <1>2 DEF OtherInv, GetInv
<1> QED
  BY <1>6, <1>7, <1>8, <1>11, <1>12

\* A consumer's callback gets the messages the broker sent it in their order, each once and
\* none left out up to the one at which it stops; and when all that has arrived on an open
\* channel is handled, every delivery was handed over or dropped, the answer to basicGet
\* has reached its caller and what was returned onReturn.
THEOREM HandedInOrderHolds == Spec => []HandedInOrder
<1>1. BaseInv /\ FlowInv => Handed
  BY HandedIsSent DEF Handed, FlowInv
<1>2. BaseInv /\ FlowInv /\ AllDue /\ OtherInv => NothingWithheld
  BY RestNothingWithheld
<1> QED
  BY <1>1, <1>2, OtherInvariance, PTL DEF HandedInOrder
=============================================================================
