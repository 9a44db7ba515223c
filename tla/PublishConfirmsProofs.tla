------------------------ MODULE PublishConfirmsProofs ------------------------
(***************************************************************************)
(* Publisher confirms for any set of publishes and buffers and any number  *)
(* of confirmSelects: the list is what publishConfirmed takes it to be, a  *)
(* publish gets its own verdict, a buffer has one writer, and nothing is   *)
(* left unsettled at rest.                                                 *)
(***************************************************************************)
EXTENDS PublishConfirms, FiniteSetTheorems, SequenceTheorems, TLAPS

USE PublishAssumption, MaxSelectsAssumption

----------------------------------------------------------------------------
(* The inductive invariant *)

Count(s, e) == Cardinality({i \in DOMAIN s : s[i] = e})

\* The calls not answered are those whose frames are under way.
SelectsCounted ==
    sock = "up" => selects.open = Count(toServer, Select) + Count(toClient, SelectOk)
\* A pending publish has a buffer, and a counted one a number.
Given == \A p \in Publish : /\ result[p] = "pending" => buffer[p] \in Buffer
                            /\ fate[p] # None => seq[p] > 0
TypeInv == TypeOK /\ SelectsCounted /\ Given

\* A publish that is not made has left no trace; a promise is pending for its write or its
\* confirm, and at least as long as its write.
Progress ==
    /\ \A p \in Publish : result[p] = None =>
        /\ write[p] = None /\ confirm[p] = None /\ tag[p] = 0 /\ fate[p] = None
        /\ p \notin Elems(toServer)
    /\ \A p \in Publish : write[p] = "pending" => result[p] = "pending"
    /\ \A p \in Publish : result[p] = "pending" => write[p] = "pending" \/ confirm[p] = "pending"
\* A buffer belongs to one promise that is pending, or to the pool.
BuffersOwned ==
    \A p \in Publish : result[p] = "pending" =>
        /\ buffer[p] \notin pool
        /\ \A q \in Publish \ {p} : result[q] = "pending" => buffer[q] # buffer[p]
\* A channel whose list is not cleared yet is in the table, and loses its socket there only
\* if the client had marked the connection as closed.
TableOK == (attached \/ closed) /\ (sock = "gone" /\ attached => ending)
ListOnce == \A i, j \in DOMAIN unconfirmed : unconfirmed[i] = unconfirmed[j] => i = j
ListInv == Progress /\ BuffersOwned /\ TableOK /\ ListOnce /\ ListIsPending

\* Where the calls of confirmSelect have got to: nothing is numbered before the first one.
SelectsOK ==
    /\ selects.made = 0 => /\ serverSeq = 0 /\ confirmId = 0
                           /\ Select \notin Elems(toServer) /\ SelectOk \notin Elems(toClient)
    /\ confirmId = 0 => selects.open = selects.made
    /\ SelectOk \in Elems(toClient) \/ confirmId > 0 => serverSeq > 0
\* Before the first answer: no publish is behind a Select.
Unnumbered ==
    confirmId = 0 =>
        /\ serverSeq \in {0, 1}
        /\ serverSeq = 1 => Elems(toServer) \cap Publish = {}
        /\ \A i, j \in DOMAIN toServer : i < j /\ toServer[i] = Select => toServer[j] \notin Publish
\* From then on: the publishes the broker has not taken are numbered from its next number to
\* the client's, in the order they were sent, and wait in the list.
Numbered ==
    confirmId > 0 /\ sock = "up" =>
        /\ serverSeq <= confirmId
        /\ \A p \in Elems(toServer) \cap Publish : serverSeq <= tag[p]
        /\ \A i, j \in DOMAIN toServer :
               i < j /\ toServer[i] \in Publish /\ toServer[j] \in Publish
                   => tag[toServer[i]] < tag[toServer[j]]
        /\ \A n \in serverSeq .. confirmId - 1 : \E p \in Elems(toServer) \cap Publish : tag[p] = n
        /\ attached => Elems(toServer) \cap Publish \subseteq Elems(unconfirmed)
\* What the broker counted has the client's number, and waits in the list until it is confirmed.
Agreed ==
    /\ \A p \in Publish : fate[p] # None => seq[p] = tag[p] /\ tag[p] > 0 /\ seq[p] < serverSeq
    /\ \A p \in Elems(unconfirmed) : tag[p] > 0
    /\ sock = "up" /\ attached => \A p \in Publish : fate[p] = "open" => p \in Elems(unconfirmed)
    /\ sock = "up" => \A p \in Elems(unconfirmed) : fate[p] = None => serverSeq <= tag[p]

IsConfirm(f) == f.method \in {"Ack", "Nack"}
Covers(f, t) == IsConfirm(f) /\ (f.tag = t \/ (f.multiple /\ t <= f.tag))
VerdictOf(f) == IF f.method = "Ack" THEN "acked" ELSE "nacked"
\* A confirm under way names a publish the broker has taken, one that no confirm before it covers.
ConfirmsOnce ==
    /\ \A i \in DOMAIN toClient : IsConfirm(toClient[i]) => toClient[i].tag < serverSeq
    /\ \A i, j \in DOMAIN toClient : i < j /\ IsConfirm(toClient[j])
                                         => ~Covers(toClient[i], toClient[j].tag)
    /\ \A p \in Publish : fate[p] = "open" => \A i \in DOMAIN toClient : ~Covers(toClient[i], tag[p])
\* The first confirm under way that covers an entry bears the broker's verdict on it.
FirstCover(p, k) ==
    /\ Covers(toClient[k], tag[p]) /\ VerdictOf(toClient[k]) = fate[p]
    /\ \A i \in DOMAIN toClient : i < k => ~Covers(toClient[i], tag[p])
Covered ==
    sock = "up" /\ attached =>
        \A p \in Elems(unconfirmed) : fate[p] \in {"acked", "nacked"} =>
            \E k \in DOMAIN toClient : FirstCover(p, k)

Agreement == /\ Unnumbered /\ Numbered /\ Agreed /\ ConfirmsOnce /\ Covered
             /\ TagsAscend /\ AcksFind /\ VerdictIsOwn
NumberInv == SelectsOK /\ (~skewed => Agreement)

----------------------------------------------------------------------------
(* Sequences *)

\* push adds one element, at the end.
LEMMA AppendProps ==
    ASSUME NEW S, NEW s \in Seq(S), NEW e \in S
    PROVE  /\ Append(s, e) \in Seq(S) /\ Len(s) \in Nat /\ Len(Append(s, e)) = Len(s) + 1
           /\ DOMAIN s = 1 .. Len(s) /\ DOMAIN Append(s, e) = 1 .. (Len(s) + 1)
           /\ \A i \in 1 .. Len(s) : Append(s, e)[i] = s[i]
           /\ Append(s, e)[Len(s) + 1] = e
           /\ Elems(Append(s, e)) = Elems(s) \cup {e}
<1>1. /\ Append(s, e) \in Seq(S) /\ Len(s) \in Nat /\ Len(Append(s, e)) = Len(s) + 1
      /\ DOMAIN s = 1 .. Len(s) /\ DOMAIN Append(s, e) = 1 .. (Len(s) + 1)
      /\ \A i \in 1 .. Len(s) : Append(s, e)[i] = s[i]
      /\ Append(s, e)[Len(s) + 1] = e
  OBVIOUS
<1>2. Elems(Append(s, e)) = Elems(s) \cup {e}
  BY <1>1 DEF Elems
<1>. QED
  BY <1>1, <1>2

\* shift removes one element, at the front.
LEMMA TailProps ==
    ASSUME NEW S, NEW s \in Seq(S), s # <<>>
    PROVE  /\ Head(s) \in S /\ Head(s) = s[1] /\ Tail(s) \in Seq(S)
           /\ Len(s) \in Nat \ {0} /\ DOMAIN s = 1 .. Len(s) /\ DOMAIN Tail(s) = 1 .. (Len(s) - 1)
           /\ \A i \in 1 .. (Len(s) - 1) : Tail(s)[i] = s[i + 1]
           /\ Elems(s) = {Head(s)} \cup Elems(Tail(s))
<1>1. /\ Head(s) \in S /\ Head(s) = s[1] /\ Tail(s) \in Seq(S)
      /\ Len(s) \in Nat \ {0} /\ DOMAIN s = 1 .. Len(s) /\ DOMAIN Tail(s) = 1 .. (Len(s) - 1)
      /\ \A i \in 1 .. (Len(s) - 1) : Tail(s)[i] = s[i + 1]
  OBVIOUS
<1>2. \A i \in DOMAIN s : i = 1 \/ (i - 1 \in DOMAIN Tail(s) /\ Tail(s)[i - 1] = s[i])
  BY <1>1
<1>3. ASSUME NEW x \in Elems(s) PROVE x \in {Head(s)} \cup Elems(Tail(s))
  <2>1. PICK i \in DOMAIN s : s[i] = x
    BY DEF Elems
  <2>2. i = 1 \/ (i - 1 \in DOMAIN Tail(s) /\ Tail(s)[i - 1] = x)
    BY <1>2, <2>1
  <2>. QED
    BY <1>1, <2>1, <2>2 DEF Elems
<1>4. {Head(s)} \cup Elems(Tail(s)) \subseteq Elems(s)
  BY <1>1 DEF Elems
<1>. QED
  BY <1>1, <1>3, <1>4

\* splice(a - 1, b - a + 1) removes the elements from a to b and moves the later ones up.
Splice(s, a, b) == SubSeq(s, 1, a - 1) \o SubSeq(s, b + 1, Len(s))
LEMMA SpliceProps ==
    ASSUME NEW S, NEW s \in Seq(S), NEW b \in 1 .. Len(s), NEW a \in 1 .. b,
           NEW t, t = Splice(s, a, b)
    PROVE  /\ t \in Seq(S) /\ DOMAIN t = 1 .. (Len(s) - (b - a + 1))
           /\ \A k \in DOMAIN t : t[k] = s[IF k < a THEN k ELSE k + (b - a + 1)]
<1> DEFINE u == SubSeq(s, 1, a - 1)
           v == SubSeq(s, b + 1, Len(s))
<1>1. /\ u \in Seq(S) /\ Len(u) = a - 1 /\ \A k \in 1 .. (a - 1) : u[k] = s[k]
      /\ v \in Seq(S) /\ Len(v) = Len(s) - b /\ \A k \in 1 .. (Len(s) - b) : v[k] = s[b + k]
  OBVIOUS
<1> HIDE DEF u, v
<1>2. /\ u \o v \in Seq(S) /\ DOMAIN (u \o v) = 1 .. (Len(u) + Len(v))
      /\ \A k \in 1 .. (Len(u) + Len(v)) : (u \o v)[k] = IF k <= Len(u) THEN u[k] ELSE v[k - Len(u)]
  <2>1. /\ u \o v \in Seq(S) /\ Len(u \o v) = Len(u) + Len(v)
        /\ \A k \in 1 .. (Len(u) + Len(v)) : (u \o v)[k] = IF k <= Len(u) THEN u[k] ELSE v[k - Len(u)]
    BY <1>1, ConcatProperties, Zenon
  <2>. QED
    BY <2>1, LenProperties, Zenon
<1>3. ASSUME NEW k \in 1 .. (Len(s) - (b - a + 1))
      PROVE  (u \o v)[k] = s[IF k < a THEN k ELSE k + (b - a + 1)]
  <2>1. CASE k < a
    BY <1>1, <1>2, <2>1
  <2>2. CASE ~(k < a)
    <3>1. (u \o v)[k] = v[k - (a - 1)] /\ k - (a - 1) \in 1 .. (Len(s) - b)
      BY <1>1, <1>2, <2>2
    <3>2. v[k - (a - 1)] = s[b + (k - (a - 1))]
      BY <1>1, <3>1
    <3>3. b + (k - (a - 1)) = k + (b - a + 1)
      OBVIOUS
    <3>. QED
      BY <2>2, <3>1, <3>2, <3>3
  <2>. QED
    BY <2>1, <2>2
<1>4. DOMAIN (u \o v) = 1 .. (Len(s) - (b - a + 1))
  BY <1>1, <1>2
<1>5. t = u \o v
  BY DEF Splice, u, v
<1>. QED
  BY <1>2, <1>3, <1>4, <1>5

LEMMA CountType ==
    ASSUME NEW S, NEW s \in Seq(S), NEW x
    PROVE  IsFiniteSet({i \in DOMAIN s : s[i] = x}) /\ Count(s, x) \in Nat
<1>1. DOMAIN s = 1 .. Len(s) /\ Len(s) \in Nat
  OBVIOUS
<1>2. IsFiniteSet(DOMAIN s)
  BY <1>1, FS_Interval
<1>3. {i \in DOMAIN s : s[i] = x} \in SUBSET DOMAIN s
  OBVIOUS
<1>4. IsFiniteSet({i \in DOMAIN s : s[i] = x})
  BY <1>2, <1>3, FS_Subset
<1>. QED
  BY <1>4, FS_CardinalityType DEF Count

LEMMA CountAppend ==
    ASSUME NEW S, NEW s \in Seq(S), NEW e \in S, NEW x
    PROVE  Count(Append(s, e), x) = Count(s, x) + (IF e = x THEN 1 ELSE 0)
<1> DEFINE D == {i \in DOMAIN s : s[i] = x}
           E == {i \in DOMAIN Append(s, e) : Append(s, e)[i] = x}
<1>1. E = IF e = x THEN D \cup {Len(s) + 1} ELSE D
  BY AppendProps
<1>2. Len(s) + 1 \notin D
  OBVIOUS
<1>3. IsFiniteSet(D) /\ Cardinality(D) \in Nat
  BY CountType DEF Count
<1> HIDE DEF D, E
<1>4. Cardinality(D \cup {Len(s) + 1}) = Cardinality(D) + 1
  BY <1>2, <1>3, FS_AddElement
<1>5. Cardinality(E) = Cardinality(D) + (IF e = x THEN 1 ELSE 0)
  BY <1>1, <1>3, <1>4
<1>. QED
  BY <1>5 DEF Count, D, E

LEMMA CountTail ==
    ASSUME NEW S, NEW s \in Seq(S), s # <<>>, NEW x
    PROVE  Count(s, x) = Count(Tail(s), x) + (IF Head(s) = x THEN 1 ELSE 0)
<1> DEFINE D == {i \in DOMAIN s : s[i] = x}
           E == {i \in DOMAIN Tail(s) : Tail(s)[i] = x}
           f == [i \in E |-> i + 1]
<1>1. Tail(s) \in Seq(S)
  BY TailProps
<1>2. IsFiniteSet(E) /\ Cardinality(E) \in Nat /\ IsFiniteSet(D)
  BY <1>1, CountType DEF Count
<1>3. D \ {1} = {i + 1 : i \in E}
  <2>1. /\ Len(s) \in Nat \ {0} /\ DOMAIN s = 1 .. Len(s) /\ DOMAIN Tail(s) = 1 .. (Len(s) - 1)
        /\ \A i \in 1 .. (Len(s) - 1) : Tail(s)[i] = s[i + 1]
    BY TailProps
  <2>2. ASSUME NEW i \in D \ {1} PROVE i \in {j + 1 : j \in E}
    <3>1. i - 1 \in E
      BY <2>1
    <3>. QED
      BY <2>1, <3>1
  <2>3. ASSUME NEW i \in E PROVE i + 1 \in D \ {1}
    BY <2>1
  <2>. QED
    BY <2>2, <2>3
<1>4. 1 \in D <=> Head(s) = x
  <2>1. 1 \in DOMAIN s /\ Head(s) = s[1]
    BY TailProps
  <2>. QED
    BY <2>1
<1>5. \A i \in E : i \in Int
  BY TailProps
<1> HIDE DEF D, E
<1>6. f \in Bijection(E, D \ {1})
  BY <1>3, <1>5 DEF Bijection, Injection, Surjection, IsInjective
<1>7. Cardinality(D \ {1}) = Cardinality(E)
  BY <1>2, <1>6, FS_Bijection DEF ExistsBijection
<1>8. Cardinality(D) \in Nat /\ Cardinality(D \ {1}) = IF 1 \in D THEN Cardinality(D) - 1 ELSE Cardinality(D)
  BY <1>2, FS_RemoveElement, FS_CardinalityType
<1>9. Cardinality(D) = Cardinality(E) + (IF Head(s) = x THEN 1 ELSE 0)
  BY <1>2, <1>4, <1>7, <1>8
<1>. QED
  BY <1>9 DEF Count, D, E

----------------------------------------------------------------------------
(* Types *)

ServerFrame == Publish \cup {Select, Close}
Confirms == {None, "pending", "acked", "nacked", "closed"}
Writes == {None, "pending", "ok", "failed"}
Results == {None, "pending", "resolved", "rejected"}

LEMMA InitType == Init => TypeInv
<1> SUFFICES ASSUME Init PROVE TypeInv
  OBVIOUS
<1>1. TypeOK
  <2>1. /\ selects \in [open : Nat, made : 0 .. MaxSelects] /\ unconfirmed \in Seq(Publish)
        /\ toServer \in Seq(Publish \cup {Select, Close}) /\ toClient \in Seq(Frame)
    BY DEF Init
  <2>2. /\ tag \in [Publish -> Nat] /\ seq \in [Publish -> Nat]
        /\ confirm \in [Publish -> {None, "pending", "acked", "nacked", "closed"}]
        /\ write \in [Publish -> {None, "pending", "ok", "failed"}]
        /\ result \in [Publish -> {None, "pending", "resolved", "rejected"}]
        /\ fate \in [Publish -> {None, "open", "acked", "nacked"}]
        /\ buffer \in [Publish -> Buffer \cup {None}]
    BY DEF Init
  <2>. QED
    BY <2>1, <2>2 DEF Init, TypeOK
<1>2. Count(<<>>, Select) = 0 /\ Count(<<>>, SelectOk) = 0
  BY FS_EmptySet DEF Count
<1>3. SelectsCounted /\ Given
  BY <1>2 DEF Init, SelectsCounted, Given, None
<1>. QED
  BY <1>1, <1>3 DEF TypeInv

LEMMA FrameFacts ==
    /\ SelectOk \in Frame /\ CloseOk \in Frame /\ CloseMethod \in Frame
    /\ CloseOk # SelectOk /\ CloseMethod # SelectOk
    /\ \A m \in {"Ack", "Nack"}, t \in Nat \ {0}, b \in BOOLEAN :
           /\ [method |-> m, tag |-> t, multiple |-> b] \in Frame
           /\ [method |-> m, tag |-> t, multiple |-> b] # SelectOk
    /\ \A f \in Frame : /\ f.method = "SelectOk" <=> f = SelectOk
                        /\ f.method = "CloseOk" <=> f = CloseOk
                        /\ f.method = "Close" <=> f = CloseMethod
                        /\ f.method \in {"Ack", "Nack"} => f.tag \in Nat \ {0} /\ f.multiple \in BOOLEAN
BY DEF Frame, SelectOk, CloseOk, CloseMethod

\* A frame is sent on a socket that is up, and nothing is sent without one.
LEMMA SendProps ==
    ASSUME TypeOK, NEW f \in ServerFrame, Send(f)
    PROVE  /\ toServer' \in Seq(ServerFrame)
           /\ sock = "up" => Count(toServer', Select) = Count(toServer, Select) + (IF f = Select THEN 1 ELSE 0)
BY CountAppend, AppendProps DEF TypeOK, Send, ServerFrame

LEMMA PromisesType ==
    ASSUME TypeInv, NEW w \in [Publish -> Writes], NEW c \in [Publish -> Confirms],
           Promises(w, c), buffer' = buffer
    PROVE  /\ write' \in [Publish -> Writes] /\ confirm' \in [Publish -> Confirms]
           /\ result' \in [Publish -> Results] /\ pool' \in SUBSET Buffer
           /\ \A p \in Publish : result'[p] = "pending" => buffer'[p] \in Buffer
<1> DEFINE now(p) == IF result[p] = "pending" THEN Outcome(p, w[p], c[p]) ELSE result[p]
<1>1. \A p \in Publish : now(p) \in Results
  BY DEF TypeInv, TypeOK, Results, Outcome
<1>2. /\ write' = w /\ confirm' = c /\ result' = [p \in Publish |-> now(p)]
      /\ pool' = pool \cup {buffer[p] : p \in {q \in Publish : result[q] = "pending" /\ now(q) # "pending"}}
  BY DEF Promises
<1>3. \A p \in Publish : now(p) = "pending" => result[p] = "pending"
  OBVIOUS
<1> HIDE DEF now
<1>4. pool' \in SUBSET Buffer
  BY <1>2 DEF TypeInv, TypeOK, Given
<1>. QED
  BY <1>1, <1>2, <1>3, <1>4 DEF TypeInv, Given

LEMMA VerdictType ==
    ASSUME TypeOK, NEW S, NEW v \in {"acked", "nacked", "closed"}
    PROVE  Verdict(S, v) \in [Publish -> Confirms]
BY DEF TypeOK, Verdict, Confirms

\* The frame that is handled is one of its kind, and leaves the others.
LEMMA ReceiveProps ==
    ASSUME TypeOK, NEW m, Receive(m)
    PROVE  /\ sock = "up" /\ sock' = "up" /\ toClient # <<>> /\ Head(toClient) \in Frame
           /\ Head(toClient).method = m /\ toClient' = Tail(toClient) /\ toClient' \in Seq(Frame)
           /\ Count(toClient, SelectOk) = Count(toClient', SelectOk) + (IF m = "SelectOk" THEN 1 ELSE 0)
<1>1. toClient \in Seq(Frame) /\ toClient # <<>>
  BY DEF TypeOK, Receive
<1>2. Head(toClient) \in Frame /\ Tail(toClient) \in Seq(Frame)
  BY <1>1, TailProps
<1>3. Head(toClient) = SelectOk <=> m = "SelectOk"
  BY <1>2, FrameFacts DEF Receive
<1>. QED
  BY <1>1, <1>2, <1>3, CountTail DEF Receive

LEMMA SetClosedType ==
    ASSUME TypeInv, SetClosed, buffer' = buffer
    PROVE  /\ closed' \in BOOLEAN /\ unconfirmed' \in Seq(Publish)
           /\ write' \in [Publish -> Writes] /\ confirm' \in [Publish -> Confirms]
           /\ result' \in [Publish -> Results] /\ pool' \in SUBSET Buffer
           /\ \A p \in Publish : result'[p] = "pending" => buffer'[p] \in Buffer
<1>1. CASE closed
  BY <1>1 DEF SetClosed, TypeInv, TypeOK, Given, Writes, Confirms, Results
<1>2. CASE ~closed
  <2>1. /\ closed' = TRUE /\ unconfirmed' = <<>>
        /\ Promises(write, Verdict(Elems(unconfirmed), "closed"))
    BY <1>2 DEF SetClosed
  <2>2. write \in [Publish -> Writes] /\ Verdict(Elems(unconfirmed), "closed") \in [Publish -> Confirms]
    BY VerdictType DEF TypeInv, TypeOK, Writes
  <2>. QED
    BY <2>1, <2>2, PromisesType
<1>. QED
  BY <1>1, <1>2

LEMMA LeastNatural ==
    ASSUME NEW T, T \subseteq Nat, T # {}
    PROVE  \E i \in T : \A j \in T : i <= j
<1> DEFINE R == {ss \in Nat \X Nat : ss[1] < ss[2]}
<1>1. \A i, j \in Nat : j < i => <<j, i>> \in R
  OBVIOUS
<1>2. IsWellFoundedOn(R, Nat)
  BY NatLessThanWellFounded, Zenon DEF OpToRel
<1> HIDE DEF R
<1>3. PICK i \in T : \A j \in T : <<j, i>> \notin R
  BY <1>2, WFMin
<1>4. ASSUME NEW j \in T PROVE i <= j
  <2>1. i \in Nat /\ j \in Nat
    OBVIOUS
  <2>2. ~(j < i)
    BY <1>1, <1>3, <2>1
  <2>. QED
    BY <2>1, <2>2
<1>. QED
  BY <1>4

\* What publishConfirmed finds is the first entry with the tag.
LEMMA IndexProps ==
    ASSUME TypeOK, NEW t
    PROVE  /\ Index(t) \in 0 .. Len(unconfirmed)
           /\ Index(t) # 0 => tag[unconfirmed[Index(t)]] = t
           /\ Index(t) = 0 => \A i \in DOMAIN unconfirmed : tag[unconfirmed[i]] # t
<1> DEFINE found == {i \in DOMAIN unconfirmed : tag[unconfirmed[i]] = t}
<1>1. DOMAIN unconfirmed = 1 .. Len(unconfirmed) /\ Len(unconfirmed) \in Nat
  BY DEF TypeOK
<1>2. CASE found = {}
  BY <1>1, <1>2 DEF Index
<1>3. CASE found # {}
  <2>1. \E i \in found : \A j \in found : i <= j
    <3>1. PICK i0 \in found : TRUE
      BY <1>3
    <3>2. found \subseteq Nat
      BY <1>1
    <3>. QED
      BY <3>1, <3>2, LeastNatural
  <2>2. Index(t) \in found
    BY <1>3, <2>1 DEF Index
  <2>. QED
    BY <1>1, <2>2
<1>. QED
  BY <1>2, <1>3

LEMMA StepType == TypeInv /\ [Next]_vars => TypeInv'
<1> SUFFICES ASSUME TypeInv, [Next]_vars PROVE TypeInv'
  OBVIOUS
<1> USE DEF chanVars, clientVars, serverVars
<1>0. TypeOK /\ Given
  BY DEF TypeInv
<1>1. CASE ConfirmSelect
  <2>1. /\ toServer' \in Seq(ServerFrame) /\ sock = "up"
        /\ Count(toServer', Select) = Count(toServer, Select) + 1
    BY <1>0, <1>1, SendProps DEF ConfirmSelect, ServerFrame
  <2>2. /\ selects.open \in Nat /\ selects.made + 1 \in 0 .. MaxSelects
        /\ selects' = [open |-> selects.open + 1, made |-> selects.made + 1]
    BY <1>0, <1>1 DEF ConfirmSelect, TypeOK
  <2>3. selects' \in [open : Nat, made : 0 .. MaxSelects]
    BY <2>2
  <2>4. TypeOK' /\ Given'
    BY <1>0, <1>1, <2>1, <2>3 DEF ConfirmSelect, TypeOK, Given, ServerFrame
  <2>5. Count(toServer, Select) \in Nat /\ Count(toClient, SelectOk) \in Nat
    BY <1>0, CountType DEF TypeOK
  <2>6. SelectsCounted'
    BY <1>1, <2>1, <2>2, <2>5 DEF ConfirmSelect, TypeInv, SelectsCounted
  <2>. QED
    BY <2>4, <2>6 DEF TypeInv
<1>2. ASSUME NEW p \in Publish, Refuse(p) PROVE TypeInv'
  <2>1. TypeOK' /\ Given'
    BY <1>0, <1>2 DEF Refuse, TypeOK, Given
  <2>. QED
    BY <1>2, <2>1 DEF Refuse, TypeInv, SelectsCounted
<1>3. ASSUME NEW p \in Publish, NEW b \in Buffer, BasicPublish(p, b) PROVE TypeInv'
  <2>1. /\ toServer' \in Seq(ServerFrame)
        /\ sock = "up" => Count(toServer', Select) = Count(toServer, Select)
    <3>1. p \in ServerFrame /\ Send(p) /\ p # Select
      BY <1>3 DEF BasicPublish, ServerFrame
    <3>2. Count(toServer, Select) \in Nat
      BY <1>0, CountType DEF TypeOK
    <3>. QED
      BY <1>0, <3>1, <3>2, SendProps
  <2>2. /\ confirmId' \in Nat /\ tag' \in [Publish -> Nat]
        /\ confirm' \in [Publish -> {None, "pending", "acked", "nacked", "closed"}]
        /\ unconfirmed' \in Seq(Publish)
    <3>1. CASE Register(p)
      <4>1. unconfirmed' \in Seq(Publish)
        BY <1>0, <3>1, AppendProps DEF Register, TypeOK
      <4>. QED
        BY <1>0, <3>1, <4>1 DEF Register, TypeOK
    <3>2. CASE UNCHANGED <<confirmId, unconfirmed, tag, confirm>>
      BY <1>0, <3>2 DEF TypeOK
    <3>. QED
      BY <1>3, <3>1, <3>2 DEF BasicPublish
  <2>4. /\ pool' \in SUBSET Buffer /\ buffer' \in [Publish -> Buffer \cup {None}]
        /\ write' \in [Publish -> {None, "pending", "ok", "failed"}]
        /\ result' \in [Publish -> {None, "pending", "resolved", "rejected"}]
        /\ \A q \in Publish : result'[q] = "pending" => buffer'[q] \in Buffer
    BY <1>0, <1>3 DEF BasicPublish, TypeOK, Given
  <2>5. skewed' \in BOOLEAN
    BY <1>3 DEF BasicPublish
  <2>6. TypeOK' /\ Given'
    BY <1>0, <1>3, <2>1, <2>2, <2>4, <2>5 DEF BasicPublish, TypeOK, Given, ServerFrame
  <2>7. SelectsCounted'
    BY <1>3, <2>1 DEF BasicPublish, TypeInv, SelectsCounted
  <2>. QED
    BY <2>6, <2>7 DEF TypeInv
<1>4. CASE CloseChannel
  <2>1. /\ toServer' \in Seq(ServerFrame)
        /\ sock = "up" => Count(toServer', Select) = Count(toServer, Select)
    <3>1. Close \in ServerFrame /\ Send(Close) /\ Close # Select
      BY <1>4 DEF CloseChannel, ServerFrame, Close, Select
    <3>2. Count(toServer, Select) \in Nat
      BY <1>0, CountType DEF TypeOK
    <3>. QED
      BY <1>0, <3>1, <3>2, SendProps
  <2>2. TypeOK' /\ Given' /\ SelectsCounted'
    BY <1>0, <1>4, <2>1 DEF CloseChannel, TypeOK, Given, ServerFrame, TypeInv, SelectsCounted
  <2>. QED
    BY <2>2 DEF TypeInv
<1>5. ASSUME NEW p \in Publish, Written(p) \/ WriteFailed(p) PROVE TypeInv'
  <2>1. PICK w \in {"ok", "failed"} : WriteDone(p, w)
    BY <1>5 DEF Written, WriteFailed
  <2>2. /\ [write EXCEPT ![p] = w] \in [Publish -> Writes] /\ confirm \in [Publish -> Confirms]
        /\ Promises([write EXCEPT ![p] = w], confirm) /\ buffer' = buffer
    BY <1>0, <2>1 DEF WriteDone, TypeOK, Writes, Confirms
  <2>3. TypeOK' /\ Given' /\ SelectsCounted'
    BY <1>0, <2>1, <2>2, PromisesType
       DEF WriteDone, TypeOK, Given, TypeInv, SelectsCounted, Writes, Confirms, Results
  <2>. QED
    BY <2>3 DEF TypeInv
<1>6. CASE GotSelectOk
  <2>1. /\ sock = "up" /\ toClient' \in Seq(Frame) /\ UNCHANGED <<sock, ending, tag, buffer, serverVars>>
        /\ Count(toClient, SelectOk) = Count(toClient', SelectOk) + 1
    BY <1>0, <1>6, ReceiveProps DEF GotSelectOk, Receive
  <2>2. selects' = [open |-> selects.open - 1, made |-> selects.made]
    BY <1>0, <1>6 DEF GotSelectOk, TypeOK
  <2>3. /\ Count(toServer, Select) \in Nat /\ Count(toClient', SelectOk) \in Nat
        /\ selects.open \in Nat /\ selects.made \in 0 .. MaxSelects
    BY <1>0, <2>1, CountType DEF TypeOK
  <2>4. selects.open = Count(toServer, Select) + Count(toClient, SelectOk)
    BY <2>1 DEF TypeInv, SelectsCounted
  <2>5. /\ selects.open - 1 \in Nat
        /\ selects.open - 1 = Count(toServer, Select) + Count(toClient', SelectOk)
    BY <2>1, <2>3, <2>4
  <2>5a. selects' \in [open : Nat, made : 0 .. MaxSelects] /\ SelectsCounted'
    BY <1>6, <2>1, <2>2, <2>3, <2>5 DEF GotSelectOk, SelectsCounted
  <2>6. TypeOK' /\ Given'
    BY <1>0, <1>6, <2>1, <2>5a DEF GotSelectOk, TypeOK, Given
  <2>. QED
    BY <2>5a, <2>6 DEF TypeInv
<1>7. CASE GotConfirm
  <2>1. PICK m \in {"Ack", "Nack"}, v \in {"acked", "nacked"} :
            Receive(m) /\ PublishConfirmed(Head(toClient).tag, Head(toClient).multiple, v)
    BY <1>7 DEF GotConfirm
  <2>2. /\ sock = "up" /\ toClient' \in Seq(Frame) /\ UNCHANGED <<sock, ending, tag, buffer, serverVars>>
        /\ Count(toClient, SelectOk) = Count(toClient', SelectOk)
    <3>1. m # "SelectOk"
      OBVIOUS
    <3>2. Count(toClient', SelectOk) \in Nat
      BY <1>0, <2>1, ReceiveProps, CountType
    <3>. QED
      BY <1>0, <2>1, <3>1, <3>2, ReceiveProps DEF Receive
  <2> DEFINE i == Index(Head(toClient).tag)
             from == First(i, Head(toClient).multiple)
  <2>3. CASE i = 0
    BY <1>0, <1>7, <2>1, <2>2, <2>3
       DEF GotConfirm, PublishConfirmed, TypeOK, Given, TypeInv, SelectsCounted
  <2>4. CASE i # 0
    <3>1. /\ unconfirmed' = SubSeq(unconfirmed, 1, from - 1)
                            \o SubSeq(unconfirmed, i + 1, Len(unconfirmed))
          /\ Promises(write, Verdict({unconfirmed[j] : j \in from .. i}, v))
      BY <2>1, <2>4 DEF PublishConfirmed
    <3>2. i \in 1 .. Len(unconfirmed) /\ from \in 1 .. i /\ unconfirmed \in Seq(Publish)
      BY <1>0, <2>4, IndexProps DEF First, TypeOK
    <3>. HIDE DEF i, from
    <3>3. unconfirmed' \in Seq(Publish)
      BY <3>1, <3>2, SpliceProps DEF Splice
    <3>4. /\ write \in [Publish -> Writes]
          /\ Verdict({unconfirmed[j] : j \in from .. i}, v) \in [Publish -> Confirms]
      BY <1>0, VerdictType DEF TypeOK, Writes
    <3>5. /\ write' \in [Publish -> Writes] /\ confirm' \in [Publish -> Confirms]
          /\ result' \in [Publish -> Results] /\ pool' \in SUBSET Buffer
          /\ \A p \in Publish : result'[p] = "pending" => buffer'[p] \in Buffer
      BY <2>2, <3>1, <3>4, PromisesType
    <3>. QED
      BY <1>0, <1>7, <2>2, <3>3, <3>5
         DEF GotConfirm, TypeOK, Given, TypeInv, SelectsCounted, Writes, Confirms, Results
  <2>. QED
    BY <2>3, <2>4
<1>8. CASE ChannelClosed
  <2>1. /\ sock = "up" /\ toClient' \in Seq(Frame) /\ UNCHANGED <<sock, ending, tag, buffer, serverVars>>
        /\ Count(toClient, SelectOk) = Count(toClient', SelectOk)
    <3>1. PICK m \in {"CloseOk", "Close"} : Receive(m)
      BY <1>8 DEF ChannelClosed
    <3>2. Count(toClient', SelectOk) \in Nat
      BY <1>0, <3>1, ReceiveProps, CountType
    <3>. QED
      BY <1>0, <3>1, <3>2, ReceiveProps DEF Receive
  <2>2. SetClosed
    BY <1>8 DEF ChannelClosed
  <2>3. TypeOK' /\ Given' /\ SelectsCounted'
    BY <1>0, <1>8, <2>1, <2>2, SetClosedType
       DEF ChannelClosed, TypeOK, Given, TypeInv, SelectsCounted, Writes, Confirms, Results
  <2>. QED
    BY <2>3 DEF TypeInv
<1>9. CASE ConnectionCloseOk \/ SocketClosed
  <2>1. /\ SetClosed \/ UNCHANGED <<closed, unconfirmed, confirm, write, result, pool>>
        /\ attached' \in BOOLEAN /\ sock' = "gone"
        /\ UNCHANGED <<ending, confirmId, tag, buffer, selects, toServer, toClient, serverVars, skewed>>
    BY <1>0, <1>9 DEF ConnectionCloseOk, SocketClosed, TellChannel, TypeOK
  <2>3. SelectsCounted'
    BY <2>1 DEF SelectsCounted
  <2>4. CASE SetClosed
    BY <1>0, <2>1, <2>3, <2>4, SetClosedType DEF TypeOK, Given, TypeInv, Writes, Confirms, Results
  <2>5. CASE UNCHANGED <<closed, unconfirmed, confirm, write, result, pool>>
    BY <1>0, <2>1, <2>3, <2>5 DEF TypeOK, Given, TypeInv
  <2>. QED
    BY <2>1, <2>4, <2>5
<1>10. CASE Take
  <2> DEFINE f == Head(toServer)
  <2>1. /\ toServer \in Seq(ServerFrame) /\ toServer # <<>> /\ toServer' = Tail(toServer) /\ sock = "up"
    BY <1>0, <1>10 DEF Take, Serving, TypeOK, ServerFrame
  <2>2. /\ f \in ServerFrame /\ toServer' \in Seq(ServerFrame)
        /\ Count(toServer, Select) = Count(toServer', Select) + (IF f = Select THEN 1 ELSE 0)
    BY <2>1, TailProps, CountTail
  <2>3. /\ toClient \in Seq(Frame) /\ Count(toServer', Select) \in Nat /\ Count(toClient, SelectOk) \in Nat
    BY <1>0, <2>2, CountType DEF TypeOK
  <2>4. CASE f = Select
    <3>1. /\ serverSeq' = (IF serverSeq = 0 THEN 1 ELSE serverSeq)
          /\ toClient' = Append(toClient, SelectOk) /\ UNCHANGED <<seq, fate>>
      BY <1>10, <2>4 DEF Take, Select, Close
    <3>2. toClient' \in Seq(Frame) /\ Count(toClient', SelectOk) = Count(toClient, SelectOk) + 1
      BY <2>3, <3>1, AppendProps, CountAppend, FrameFacts
    <3>3. SelectsCounted'
      BY <1>10, <2>1, <2>2, <2>3, <2>4, <3>2 DEF Take, TypeInv, SelectsCounted
    <3>4. TypeOK' /\ Given'
      BY <1>0, <1>10, <2>2, <3>1, <3>2 DEF Take, TypeOK, Given, ServerFrame
    <3>. QED
      BY <3>3, <3>4 DEF TypeInv
  <2>5. CASE f \in Publish
    <3>1. UNCHANGED toClient /\ f # Select /\ f # Close
      BY <1>10, <2>5 DEF Take
    <3>2. SelectsCounted'
      BY <1>10, <2>1, <2>2, <2>3, <3>1 DEF Take, TypeInv, SelectsCounted
    <3>3. \/ serverSeq > 0 /\ seq' = [seq EXCEPT ![f] = serverSeq] /\ serverSeq' = serverSeq + 1
             /\ fate' = [fate EXCEPT ![f] = "open"]
          \/ UNCHANGED serverVars
      BY <1>10, <3>1 DEF Take
    <3>4. /\ seq' \in [Publish -> Nat] /\ serverSeq' \in Nat
          /\ fate' \in [Publish -> {None, "open", "acked", "nacked"}]
          /\ \A q \in Publish : fate'[q] # None => seq'[q] > 0
      <4>1. CASE UNCHANGED serverVars
        BY <1>0, <4>1 DEF TypeOK, Given
      <4>2. CASE /\ serverSeq > 0 /\ seq' = [seq EXCEPT ![f] = serverSeq] /\ serverSeq' = serverSeq + 1
                 /\ fate' = [fate EXCEPT ![f] = "open"]
        <5>. HIDE DEF f
        <5>. QED
          BY <1>0, <2>5, <4>2 DEF TypeOK, Given
      <4>. QED
        BY <3>3, <4>1, <4>2
    <3>5. TypeOK' /\ Given'
      BY <1>0, <1>10, <2>2, <3>1, <3>4 DEF Take, TypeOK, Given, ServerFrame
    <3>. QED
      BY <3>2, <3>5 DEF TypeInv
  <2>6. CASE f = Close
    <3>1. toClient' = Append(toClient, CloseOk) /\ UNCHANGED serverVars
      BY <1>10, <2>6 DEF Take, Select, Close
    <3>2. toClient' \in Seq(Frame) /\ Count(toClient', SelectOk) = Count(toClient, SelectOk)
      BY <2>3, <3>1, AppendProps, CountAppend, FrameFacts
    <3>3. f # Select
      BY <2>6 DEF Select, Close
    <3>4. SelectsCounted'
      BY <1>10, <2>1, <2>2, <2>3, <3>2, <3>3 DEF Take, TypeInv, SelectsCounted
    <3>5. TypeOK' /\ Given'
      BY <1>0, <1>10, <2>2, <3>1, <3>2 DEF Take, TypeOK, Given, ServerFrame
    <3>. QED
      BY <3>4, <3>5 DEF TypeInv
  <2>. QED
    BY <2>2, <2>4, <2>5, <2>6 DEF ServerFrame
<1>11. ASSUME NEW p \in Publish, NEW m \in BOOLEAN, NEW v \in {"acked", "nacked"}, Confirm(p, m, v)
       PROVE  TypeInv'
  <2> DEFINE f == [method |-> IF v = "acked" THEN "Ack" ELSE "Nack", tag |-> seq[p], multiple |-> m]
  <2>1. seq[p] \in Nat \ {0}
    <3>1. fate[p] # None /\ seq[p] \in Nat
      BY <1>0, <1>11 DEF Confirm, TypeOK, None
    <3>. QED
      BY <1>0, <3>1 DEF Given
  <2>2. f \in Frame /\ f # SelectOk
    BY <2>1, FrameFacts
  <2>3. toClient' = Append(toClient, f) /\ toClient \in Seq(Frame) /\ Count(toClient, SelectOk) \in Nat
    BY <1>0, <1>11, CountType DEF Confirm, TypeOK
  <2> HIDE DEF f
  <2>4. toClient' \in Seq(Frame) /\ Count(toClient', SelectOk) = Count(toClient, SelectOk)
    BY <2>2, <2>3, AppendProps, CountAppend
  <2>5. /\ fate' \in [Publish -> {None, "open", "acked", "nacked"}]
        /\ \A q \in Publish : fate[q] = None => fate'[q] = None
    <3>1. PICK T \in SUBSET {q \in Publish : fate[q] = "open"} :
              fate' = [q \in Publish |-> IF q \in T THEN v ELSE fate[q]]
      BY <1>11 DEF Confirm
    <3>. QED
      BY <1>0, <3>1 DEF TypeOK, None
  <2>6. TypeOK' /\ Given' /\ SelectsCounted'
    BY <1>0, <1>11, <2>4, <2>5 DEF Confirm, TypeOK, Given, TypeInv, SelectsCounted
  <2>. QED
    BY <2>6 DEF TypeInv
<1>12. CASE ServerCloses
  <2>1. toClient' \in Seq(Frame) /\ Count(toClient', SelectOk) = Count(toClient, SelectOk)
    <3>1. Count(toClient, SelectOk) \in Nat /\ toClient \in Seq(Frame)
      BY <1>0, CountType DEF TypeOK
    <3>. QED
      BY <1>12, <3>1, AppendProps, CountAppend, FrameFacts DEF ServerCloses
  <2>2. TypeOK' /\ Given' /\ SelectsCounted'
    BY <1>0, <1>12, <2>1 DEF ServerCloses, TypeOK, Given, TypeInv, SelectsCounted
  <2>. QED
    BY <2>2 DEF TypeInv
<1>13. CASE SocketBreaks \/ HeartbeatTimeout \/ CloseConnection
  <2>1. /\ toServer' \in Seq(Publish \cup {Select, Close}) /\ toClient' \in Seq(Frame)
        /\ sock' \in {"up", "broken", "gone"} /\ ending' \in BOOLEAN
        /\ sock' = "up" => UNCHANGED <<toServer, toClient, sock>>
        /\ UNCHANGED <<closed, attached, clientVars, selects, serverVars, skewed>>
    <3>1. CASE SocketBreaks
      BY <1>0, <3>1 DEF SocketBreaks, TypeOK
    <3>2. CASE HeartbeatTimeout
      BY <1>0, <3>2 DEF HeartbeatTimeout, TypeOK
    <3>3. CASE CloseConnection
      BY <1>0, <3>3 DEF CloseConnection, TypeOK
    <3>. QED
      BY <1>13, <3>1, <3>2, <3>3
  <2>2. TypeOK' /\ Given' /\ SelectsCounted'
    BY <1>0, <2>1 DEF TypeInv, TypeOK, Given, SelectsCounted
  <2>. QED
    BY <2>2 DEF TypeInv
<1>14. CASE UNCHANGED vars
  BY <1>14 DEF vars, TypeInv, TypeOK, Given, SelectsCounted
<1>. QED
  BY <1>1, <1>2, <1>3, <1>4, <1>5, <1>6, <1>7, <1>8, <1>9, <1>10, <1>11, <1>12, <1>13, <1>14 DEF Next

LEMMA TypeInvariance == Spec => []TypeInv
BY InitType, StepType, PTL DEF Spec

\* Every variable keeps its type, for any publishes and buffers and any number of calls of
\* confirmSelect; in particular no SelectOk arrives that no call waits for.
THEOREM TypeCorrect == Spec => []TypeOK
<1>1. TypeInv => TypeOK
  BY DEF TypeInv
<1>. QED
  BY <1>1, TypeInvariance, PTL

----------------------------------------------------------------------------
(* The list and the buffers *)

\* A cut leaves the list without duplicates and takes exactly the elements from a to b.
LEMMA SpliceElems ==
    ASSUME NEW S, NEW s \in Seq(S), NEW b \in 1 .. Len(s), NEW a \in 1 .. b,
           \A i, j \in DOMAIN s : s[i] = s[j] => i = j,
           NEW t, t = Splice(s, a, b)
    PROVE  /\ Elems(t) = Elems(s) \ {s[j] : j \in a .. b}
           /\ \A i, j \in DOMAIN t : t[i] = t[j] => i = j
           /\ \A k, l \in DOMAIN t : k < l =>
                  \E i, j \in DOMAIN s : i < j /\ t[k] = s[i] /\ t[l] = s[j]
<1> DEFINE at(k) == IF k < a THEN k ELSE k + (b - a + 1)
<1>1. /\ DOMAIN t = 1 .. (Len(s) - (b - a + 1)) /\ \A k \in DOMAIN t : t[k] = s[at(k)]
      /\ DOMAIN s = 1 .. Len(s) /\ Len(s) \in Nat
  BY SpliceProps
<1>2. \A k \in DOMAIN t : at(k) \in DOMAIN s \ (a .. b)
  BY <1>1
<1>3. \A k, l \in DOMAIN t : (at(k) = at(l) => k = l) /\ (k < l => at(k) < at(l))
  BY <1>1
<1>4. \A i \in DOMAIN s \ (a .. b) : \E k \in DOMAIN t : at(k) = i
  <2> SUFFICES ASSUME NEW i \in DOMAIN s \ (a .. b) PROVE \E k \in DOMAIN t : at(k) = i
    OBVIOUS
  <2>1. CASE i < a
    <3>1. i \in DOMAIN t /\ at(i) = i
      BY <1>1, <2>1
    <3>. QED
      BY <3>1
  <2>2. CASE ~(i < a)
    <3>1. i - (b - a + 1) \in DOMAIN t /\ at(i - (b - a + 1)) = i
      BY <1>1, <2>2
    <3>. QED
      BY <3>1
  <2>. QED
    BY <2>1, <2>2
<1> HIDE DEF at
<1>5. \A i, j \in DOMAIN t : t[i] = t[j] => i = j
  BY <1>1, <1>2, <1>3
<1>6. ASSUME NEW x \in Elems(t) PROVE x \in Elems(s) \ {s[j] : j \in a .. b}
  <2>1. PICK k \in DOMAIN t : x = t[k]
    BY DEF Elems
  <2>2. x = s[at(k)] /\ at(k) \in DOMAIN s /\ at(k) \notin a .. b
    BY <1>1, <1>2, <2>1
  <2>3. a .. b \subseteq DOMAIN s
    BY <1>1
  <2>. QED
    BY <2>2, <2>3 DEF Elems
<1>7. ASSUME NEW x \in Elems(s), x \notin {s[j] : j \in a .. b} PROVE x \in Elems(t)
  <2>1. PICK i \in DOMAIN s : x = s[i]
    BY DEF Elems
  <2>2. i \in DOMAIN s \ (a .. b)
    BY <1>7, <2>1
  <2>3. PICK k \in DOMAIN t : at(k) = i
    BY <1>4, <2>2
  <2>. QED
    BY <1>1, <2>1, <2>3 DEF Elems
<1>8. \A k, l \in DOMAIN t : k < l => \E i, j \in DOMAIN s : i < j /\ t[k] = s[i] /\ t[l] = s[j]
  BY <1>1, <1>2, <1>3
<1>. QED
  BY <1>5, <1>6, <1>7, <1>8

\* Settling promises starts none, keeps those that still wait, and shares no buffer.
LEMMA PromisesProps ==
    ASSUME TypeInv, BuffersOwned, NEW w \in [Publish -> Writes], NEW c \in [Publish -> Confirms],
           Promises(w, c), buffer' = buffer
    PROVE  /\ write' = w /\ confirm' = c
           /\ \A p \in Publish : result'[p] = None <=> result[p] = None
           /\ \A p \in Publish : result'[p] = "pending" <=>
                  result[p] = "pending" /\ (w[p] = "pending" \/ (w[p] # "failed" /\ c[p] = "pending"))
           /\ BuffersOwned'
<1> DEFINE now(p) == IF result[p] = "pending" THEN Outcome(p, w[p], c[p]) ELSE result[p]
<1>1. /\ write' = w /\ confirm' = c /\ \A p \in Publish : result'[p] = now(p)
      /\ pool' = pool \cup {buffer[p] : p \in {q \in Publish : result[q] = "pending" /\ now(q) # "pending"}}
  BY DEF Promises
<1>2. \A p \in Publish : now(p) = None <=> result[p] = None
  BY DEF Outcome, None
<1>3. \A p \in Publish : now(p) = "pending" <=>
          result[p] = "pending" /\ (w[p] = "pending" \/ (w[p] # "failed" /\ c[p] = "pending"))
  BY DEF Outcome
<1> HIDE DEF now
<1>4. BuffersOwned'
  <2> SUFFICES ASSUME NEW p \in Publish, result'[p] = "pending"
               PROVE  /\ buffer[p] \notin pool'
                      /\ \A q \in Publish \ {p} : result'[q] = "pending" => buffer[q] # buffer[p]
    BY DEF BuffersOwned
  <2>1. result[p] = "pending" /\ now(p) = "pending"
    BY <1>1, <1>3
  <2>2. \A q \in Publish \ {p} : result[q] = "pending" => buffer[q] # buffer[p]
    BY <2>1 DEF BuffersOwned
  <2>3. buffer[p] \notin pool
    BY <2>1 DEF BuffersOwned
  <2>. QED
    BY <1>1, <1>3, <2>1, <2>2, <2>3
<1>. QED
  BY <1>1, <1>2, <1>3, <1>4

LEMMA InitList == Init => ListInv
BY DEF Init, ListInv, Progress, BuffersOwned, TableOK, ListOnce, ListIsPending, Elems, None

\* Settling the entries that are taken from the list keeps the list and the promises in step.
LEMMA SettleList ==
    ASSUME TypeInv, ListInv, NEW R \in SUBSET Elems(unconfirmed), NEW v \in {"acked", "nacked", "closed"},
           Promises(write, Verdict(R, v)), Elems(unconfirmed') = Elems(unconfirmed) \ R, ListOnce',
           TableOK', UNCHANGED <<tag, buffer, fate, toServer>>
    PROVE  ListInv'
<1>1. write \in [Publish -> Writes] /\ Verdict(R, v) \in [Publish -> Confirms]
  BY VerdictType DEF TypeInv, TypeOK, Writes
<1>2. /\ write' = write /\ confirm' = Verdict(R, v)
      /\ \A p \in Publish : result'[p] = None <=> result[p] = None
      /\ \A p \in Publish : result'[p] = "pending" <=>
             result[p] = "pending" /\ (write[p] = "pending" \/ (write[p] # "failed" /\ confirm'[p] = "pending"))
      /\ BuffersOwned'
  BY <1>1, PromisesProps DEF ListInv
<1>3. \A p \in Publish : confirm'[p] = IF p \in R THEN v ELSE confirm[p]
  BY <1>2 DEF Verdict, ListInv, ListIsPending
<1>4. ListIsPending'
  BY <1>3 DEF ListInv, ListIsPending
<1>5. Progress'
  BY <1>2, <1>3 DEF ListInv, Progress, ListIsPending, None
<1>. QED
  BY <1>2, <1>4, <1>5 DEF ListInv

\* setClosed empties the list, unless the channel's own close() left it as it is.
LEMMA SetClosedList ==
    ASSUME TypeInv, ListInv, SetClosed, sock' = "gone" => ~attached',
           UNCHANGED <<tag, buffer, fate, toServer>>
    PROVE  ListInv'
<1>1. TableOK'
  BY DEF SetClosed, TableOK, ListInv
<1>2. CASE closed
  BY <1>1, <1>2 DEF SetClosed, ListInv, Progress, BuffersOwned, ListOnce, ListIsPending
<1>3. CASE ~closed
  <2>1. unconfirmed' = <<>> /\ Promises(write, Verdict(Elems(unconfirmed), "closed"))
    BY <1>3 DEF SetClosed
  <2>2. Elems(unconfirmed') = Elems(unconfirmed) \ Elems(unconfirmed) /\ ListOnce'
    BY <2>1 DEF Elems, ListOnce
  <2>. QED
    BY <1>1, <2>1, <2>2, SettleList
<1>. QED
  BY <1>2, <1>3

\* publishConfirmed: the publishes whose entries are taken
Taken(t, multiple) ==
    IF Index(t) = 0 THEN {} ELSE {unconfirmed[j] : j \in First(Index(t), multiple) .. Index(t)}

\* publishConfirmed settles the publishes it takes from the list and leaves the others in order.
LEMMA PublishConfirmedProps ==
    ASSUME TypeInv, ListInv, NEW t, NEW m \in BOOLEAN, NEW v \in {"acked", "nacked"},
           PublishConfirmed(t, m, v), UNCHANGED <<closed, attached, sock, ending, tag, buffer, fate, toServer>>
    PROVE  /\ ListInv' /\ Elems(unconfirmed') = Elems(unconfirmed) \ Taken(t, m)
           /\ Taken(t, m) \subseteq Elems(unconfirmed)
           /\ confirm' = Verdict(Taken(t, m), v)
           /\ \A k, l \in DOMAIN unconfirmed' : k < l =>
                  \E x, y \in DOMAIN unconfirmed :
                      x < y /\ unconfirmed'[k] = unconfirmed[x] /\ unconfirmed'[l] = unconfirmed[y]
<1> DEFINE i == Index(t)
           from == First(i, m)
<1>1. CASE i = 0
  <2>1. ListInv' /\ unconfirmed' = unconfirmed /\ confirm' = confirm /\ Taken(t, m) = {}
    BY <1>1 DEF PublishConfirmed, ListInv, Progress, BuffersOwned, TableOK, ListOnce, ListIsPending, Taken
  <2>2. Verdict({}, v) = confirm
    BY DEF Verdict, TypeInv, TypeOK
  <2>3. DOMAIN unconfirmed = 1 .. Len(unconfirmed)
    BY DEF TypeInv, TypeOK
  <2>. QED
    BY <2>1, <2>2, <2>3
<1>2. CASE i # 0
  <2>1. /\ unconfirmed' = SubSeq(unconfirmed, 1, from - 1)
                          \o SubSeq(unconfirmed, i + 1, Len(unconfirmed))
        /\ Promises(write, Verdict(Taken(t, m), v)) /\ Taken(t, m) = {unconfirmed[j] : j \in from .. i}
    BY <1>2 DEF PublishConfirmed, Taken
  <2>2. /\ i \in 1 .. Len(unconfirmed) /\ from \in 1 .. i /\ unconfirmed \in Seq(Publish)
        /\ DOMAIN unconfirmed = 1 .. Len(unconfirmed)
    BY <1>2, IndexProps DEF First, TypeInv, TypeOK
  <2> HIDE DEF i, from
  <2>3. /\ Elems(unconfirmed') = Elems(unconfirmed) \ Taken(t, m) /\ ListOnce'
        /\ \A k, l \in DOMAIN unconfirmed' : k < l =>
               \E x, y \in DOMAIN unconfirmed :
                   x < y /\ unconfirmed'[k] = unconfirmed[x] /\ unconfirmed'[l] = unconfirmed[y]
    <3>1. \A k, l \in DOMAIN unconfirmed : unconfirmed[k] = unconfirmed[l] => k = l
      BY DEF ListInv, ListOnce
    <3>2. unconfirmed' = Splice(unconfirmed, from, i)
      BY <2>1 DEF Splice
    <3>3. /\ Elems(unconfirmed') = Elems(unconfirmed) \ {unconfirmed[j] : j \in from .. i}
          /\ \A k, l \in DOMAIN unconfirmed' : unconfirmed'[k] = unconfirmed'[l] => k = l
          /\ \A k, l \in DOMAIN unconfirmed' : k < l =>
                 \E x, y \in DOMAIN unconfirmed :
                     x < y /\ unconfirmed'[k] = unconfirmed[x] /\ unconfirmed'[l] = unconfirmed[y]
      BY <2>2, <3>1, <3>2, SpliceElems
    <3>. QED
      BY <2>1, <3>3 DEF ListOnce
  <2>4. Taken(t, m) \subseteq Elems(unconfirmed)
    BY <2>1, <2>2 DEF Elems
  <2>5. TableOK'
    BY DEF ListInv, TableOK
  <2>6. ListInv'
    BY <2>1, <2>3, <2>4, <2>5, SettleList
  <2>7. confirm' = Verdict(Taken(t, m), v)
    BY <2>1 DEF Promises
  <2>. QED
    BY <2>3, <2>4, <2>6, <2>7
<1>. QED
  BY <1>1, <1>2

LEMMA StepList == TypeInv /\ ListInv /\ [Next]_vars => ListInv'
<1> SUFFICES ASSUME TypeInv, ListInv, [Next]_vars PROVE ListInv'
  OBVIOUS
<1> USE DEF chanVars, clientVars, serverVars
<1>0. TypeOK /\ Progress /\ BuffersOwned /\ TableOK /\ ListOnce /\ ListIsPending
  BY DEF TypeInv, ListInv
<1>1. ASSUME UNCHANGED <<unconfirmed, tag, confirm, write, result, pool, buffer>>, TableOK',
             \A p \in Publish : result[p] = None => fate'[p] = None /\ p \notin Elems(toServer')
      PROVE  ListInv'
  BY <1>0, <1>1 DEF ListInv, Progress, BuffersOwned, ListOnce, ListIsPending
<1>2. CASE ConfirmSelect \/ CloseChannel
  <2>1. PICK f \in {Select, Close} : Send(f)
    BY <1>2 DEF ConfirmSelect, CloseChannel
  <2>2. toServer' = toServer \/ Elems(toServer') = Elems(toServer) \cup {f}
    <3>1. toServer \in Seq(ServerFrame) /\ f \in ServerFrame
      BY <1>0 DEF TypeOK, ServerFrame
    <3>. QED
      BY <2>1, <3>1, AppendProps DEF Send
  <2>3. \A p \in Publish : p \in Elems(toServer') => p \in Elems(toServer)
    BY <2>2
  <2>. QED
    BY <1>0, <1>1, <1>2, <2>3 DEF ConfirmSelect, CloseChannel, Progress, TableOK
<1>3. ASSUME NEW p \in Publish, Refuse(p) PROVE ListInv'
  <2>1. \A q \in Publish : (result'[q] = None => result[q] = None) /\ (result'[q] = "pending" <=> result[q] = "pending")
    BY <1>0, <1>3 DEF Refuse, TypeOK, None
  <2>. QED
    BY <1>0, <1>3, <2>1 DEF Refuse, ListInv, Progress, BuffersOwned, ListOnce, ListIsPending, TableOK
<1>4. ASSUME NEW p \in Publish, NEW b \in Buffer, BasicPublish(p, b) PROVE ListInv'
  <2>1. /\ result[p] = None /\ write[p] = None /\ confirm[p] = None /\ p \notin Elems(unconfirmed)
    BY <1>0, <1>4 DEF BasicPublish, Progress, ListIsPending, None
  <2>2. /\ \A q \in Publish \ {p} : /\ result'[q] = result[q] /\ write'[q] = write[q]
                                    /\ buffer'[q] = buffer[q] /\ tag'[q] = tag[q] /\ confirm'[q] = confirm[q]
        /\ result'[p] = "pending" /\ write'[p] = "pending" /\ buffer'[p] = b
    BY <1>0, <1>4 DEF BasicPublish, Register, TypeOK
  <2>3. \A q \in Publish \ {p} : q \in Elems(toServer') => q \in Elems(toServer)
    <3>1. toServer \in Seq(ServerFrame) /\ p \in ServerFrame /\ Send(p)
      BY <1>0, <1>4 DEF BasicPublish, TypeOK, ServerFrame
    <3>. QED
      BY <3>1, AppendProps DEF Send
  <2>4. Progress'
    BY <1>0, <1>4, <2>2, <2>3 DEF Progress, BasicPublish, None
  <2>5. BuffersOwned'
    <3>1. \A q \in Publish \ {p} : result[q] = "pending" => buffer[q] # b
      BY <1>0, <1>4 DEF BasicPublish, Free, BuffersOwned
    <3>2. pool' = pool \ {b} /\ result[p] # "pending"
      BY <1>4, <2>1 DEF BasicPublish, None
    <3>. QED
      BY <1>0, <2>2, <3>1, <3>2 DEF BuffersOwned
  <2>6. ListOnce' /\ ListIsPending'
    <3>1. CASE Register(p)
      <4>1. /\ Len(unconfirmed) \in Nat /\ DOMAIN unconfirmed = 1 .. Len(unconfirmed)
            /\ DOMAIN unconfirmed' = 1 .. (Len(unconfirmed) + 1)
            /\ \A i \in 1 .. Len(unconfirmed) : unconfirmed'[i] = unconfirmed[i]
            /\ unconfirmed'[Len(unconfirmed) + 1] = p
            /\ Elems(unconfirmed') = Elems(unconfirmed) \cup {p}
        BY <1>0, <3>1, AppendProps DEF Register, TypeOK
      <4>2. \A i \in DOMAIN unconfirmed : unconfirmed[i] # p
        BY <2>1 DEF Elems
      <4>3. ListOnce'
        BY <1>0, <4>1, <4>2 DEF ListOnce
      <4>4. confirm'[p] = "pending"
        BY <1>0, <3>1 DEF Register, TypeOK
      <4>5. ListIsPending'
        BY <1>0, <2>2, <4>1, <4>4 DEF ListIsPending
      <4>. QED
        BY <4>3, <4>5
    <3>2. CASE UNCHANGED <<confirmId, unconfirmed, tag, confirm>>
      BY <1>0, <3>2 DEF ListOnce, ListIsPending
    <3>. QED
      BY <1>4, <3>1, <3>2 DEF BasicPublish
  <2>7. TableOK'
    BY <1>0, <1>4 DEF BasicPublish, TableOK
  <2>. QED
    BY <2>4, <2>5, <2>6, <2>7 DEF ListInv
<1>5. ASSUME NEW p \in Publish, Written(p) \/ WriteFailed(p) PROVE ListInv'
  <2>1. PICK w \in {"ok", "failed"} : WriteDone(p, w)
    BY <1>5 DEF Written, WriteFailed
  <2> DEFINE ws == [write EXCEPT ![p] = w]
  <2>2. /\ ws \in [Publish -> Writes] /\ confirm \in [Publish -> Confirms]
        /\ Promises(ws, confirm) /\ buffer' = buffer
    BY <1>0, <2>1 DEF WriteDone, TypeOK, Writes, Confirms
  <2>3. /\ \A q \in Publish \ {p} : ws[q] = write[q]
        /\ ws[p] # "pending" /\ write[p] = "pending" /\ result[p] = "pending"
    BY <1>0, <2>1 DEF WriteDone, TypeOK, Progress
  <2> HIDE DEF ws
  <2>4. /\ write' = ws /\ confirm' = confirm
        /\ \A q \in Publish : result'[q] = None <=> result[q] = None
        /\ \A q \in Publish : result'[q] = "pending" <=>
               result[q] = "pending" /\ (ws[q] = "pending" \/ (ws[q] # "failed" /\ confirm[q] = "pending"))
        /\ BuffersOwned'
    BY <1>0, <2>2, PromisesProps
  <2>5. UNCHANGED <<closed, attached, sock, ending, unconfirmed, tag, toServer, fate>>
    BY <2>1 DEF WriteDone
  <2>6. Progress'
    BY <1>0, <2>3, <2>4, <2>5 DEF Progress, None
  <2>. QED
    BY <1>0, <2>4, <2>5, <2>6 DEF ListInv, TableOK, ListOnce, ListIsPending
<1>6. CASE GotSelectOk \/ ServerCloses
  BY <1>0, <1>1, <1>6 DEF GotSelectOk, Receive, ServerCloses, Progress, TableOK
<1>7. CASE GotConfirm
  <2>1. PICK m \in {"Ack", "Nack"}, v \in {"acked", "nacked"} :
            Receive(m) /\ PublishConfirmed(Head(toClient).tag, Head(toClient).multiple, v)
    BY <1>7 DEF GotConfirm
  <2>2. Head(toClient).multiple \in BOOLEAN
    BY <1>0, <2>1, ReceiveProps, FrameFacts
  <2>. QED
    BY <1>7, <2>1, <2>2, PublishConfirmedProps DEF GotConfirm, Receive
<1>8. CASE ChannelClosed
  BY <1>8, SetClosedList DEF ChannelClosed, Receive
<1>9. CASE ConnectionCloseOk \/ SocketClosed
  <2>1. UNCHANGED <<ending, tag, buffer, fate, toServer>>
    BY <1>9 DEF ConnectionCloseOk, SocketClosed
  <2>2. CASE attached /\ SetClosed /\ ~attached'
    BY <2>1, <2>2, SetClosedList
  <2>3. CASE /\ UNCHANGED <<closed, unconfirmed, confirm, write, result, pool>>
             /\ (~attached /\ ~attached') \/ (attached' = attached /\ ending)
    BY <1>0, <1>1, <2>1, <2>3 DEF Progress, TableOK
  <2>4. CASE TellChannel
    BY <2>2, <2>3, <2>4 DEF TellChannel
  <2>. QED
    BY <1>9, <2>3, <2>4 DEF ConnectionCloseOk, SocketClosed
<1>10. CASE Take
  <2>1. toServer \in Seq(ServerFrame) /\ toServer # <<>> /\ toServer' = Tail(toServer)
    BY <1>0, <1>10 DEF Take, TypeOK, ServerFrame
  <2>2. Elems(toServer) = {Head(toServer)} \cup Elems(toServer')
    BY <2>1, TailProps
  <2>3. UNCHANGED fate \/ (Head(toServer) \in Publish /\ fate' = [fate EXCEPT ![Head(toServer)] = "open"])
    BY <1>10 DEF Take
  <2>4. \A p \in Publish : result[p] = None => fate'[p] = None /\ p \notin Elems(toServer')
    BY <1>0, <2>2, <2>3 DEF Progress, TypeOK
  <2>. QED
    BY <1>0, <1>1, <1>10, <2>4 DEF Take, TableOK
<1>11. ASSUME NEW p \in Publish, NEW m \in BOOLEAN, NEW v \in {"acked", "nacked"}, Confirm(p, m, v)
       PROVE  ListInv'
  <2>1. \A q \in Publish : fate[q] = None => fate'[q] = None
    <3>1. PICK T \in SUBSET {q \in Publish : fate[q] = "open"} :
              fate' = [q \in Publish |-> IF q \in T THEN v ELSE fate[q]]
      BY <1>11 DEF Confirm
    <3>. QED
      BY <1>0, <3>1 DEF TypeOK, None
  <2>. QED
    BY <1>0, <1>1, <1>11, <2>1 DEF Confirm, Progress, TableOK
<1>12. CASE SocketBreaks \/ HeartbeatTimeout \/ CloseConnection
  <2>1. UNCHANGED <<closed, attached, clientVars, serverVars>>
    BY <1>12 DEF SocketBreaks, HeartbeatTimeout, CloseConnection
  <2>2. \A p \in Publish : p \in Elems(toServer') => p \in Elems(toServer)
    BY <1>12 DEF SocketBreaks, HeartbeatTimeout, CloseConnection, Elems
  <2>3. TableOK'
    BY <1>0, <1>12, <2>1 DEF SocketBreaks, HeartbeatTimeout, CloseConnection, TableOK
  <2>. QED
    BY <1>0, <1>1, <2>1, <2>2, <2>3 DEF Progress
<1>13. CASE UNCHANGED vars
  BY <1>0, <1>1, <1>13 DEF vars, Progress, TableOK
<1>. QED
  BY <1>2, <1>3, <1>4, <1>5, <1>6, <1>7, <1>8, <1>9, <1>10, <1>11, <1>12, <1>13 DEF Next

LEMMA ListInvariance == Spec => [](TypeInv /\ ListInv)
<1>1. Init => TypeInv /\ ListInv
  BY InitType, InitList
<1>2. TypeInv /\ ListInv /\ [Next]_vars => (TypeInv /\ ListInv)'
  BY StepType, StepList
<1>. QED
  BY <1>1, <1>2, PTL DEF Spec

\* The buffer of a publish that is being written is neither in the pool nor another's.
THEOREM BufferIsExclusiveHolds == Spec => []BufferIsExclusive
<1>1. ListInv => BufferIsExclusive
  BY DEF ListInv, Progress, BuffersOwned, BufferIsExclusive
<1>. QED
  BY <1>1, ListInvariance, PTL

----------------------------------------------------------------------------
(* The two numberings *)

LEMMA StepSelects == TypeInv /\ ListInv /\ SelectsOK /\ [Next]_vars => SelectsOK'
<1> SUFFICES ASSUME TypeInv, ListInv, SelectsOK, [Next]_vars PROVE SelectsOK'
  OBVIOUS
<1> USE DEF chanVars, clientVars, serverVars
<1>0. TypeOK
  BY DEF TypeInv
<1>1. CASE ConfirmSelect
  <2>1. selects'.made # 0 /\ (selects.open = selects.made => selects'.open = selects'.made)
    BY <1>0, <1>1 DEF ConfirmSelect, TypeOK
  <2>. QED
    BY <1>1, <2>1 DEF ConfirmSelect, SelectsOK
<1>2. CASE CloseChannel \/ \E p \in Publish, b \in Buffer : BasicPublish(p, b)
  <2>1. PICK e \in Publish \cup {Close} : Send(e)
    BY <1>2 DEF CloseChannel, BasicPublish
  <2>2. e # Select /\ e \in ServerFrame /\ toServer \in Seq(ServerFrame)
    BY <1>0 DEF Close, Select, TypeOK, ServerFrame
  <2>3. Select \in Elems(toServer') => Select \in Elems(toServer)
    BY <2>1, <2>2, AppendProps DEF Send
  <2>4. (confirmId' = 0 <=> confirmId = 0) /\ (confirmId' > 0 <=> confirmId > 0)
    BY <1>0, <1>2 DEF CloseChannel, BasicPublish, Register, TypeOK
  <2>5. UNCHANGED <<selects, toClient, serverSeq>>
    BY <1>2 DEF CloseChannel, BasicPublish
  <2>. QED
    BY <2>3, <2>4, <2>5 DEF SelectsOK
<1>3. CASE GotSelectOk
  <2>1. SelectOk \in Elems(toClient) /\ Elems(toClient') \subseteq Elems(toClient)
    <3>1. /\ toClient \in Seq(Frame) /\ toClient # <<>> /\ Head(toClient) = SelectOk
          /\ toClient' = Tail(toClient)
      BY <1>0, <1>3, ReceiveProps, FrameFacts DEF GotSelectOk, TypeOK
    <3>. QED
      BY <3>1, TailProps
  <2>2. selects'.made = selects.made
    BY <1>0, <1>3 DEF GotSelectOk, TypeOK
  <2>. QED
    BY <1>3, <2>1, <2>2 DEF GotSelectOk, Receive, SelectsOK
<1>4. ASSUME toClient # <<>>, toClient' = Tail(toClient), UNCHANGED <<selects, serverSeq, confirmId, toServer>>
      PROVE  SelectsOK'
  <2>1. Elems(toClient') \subseteq Elems(toClient)
    BY <1>0, <1>4, TailProps DEF TypeOK
  <2>. QED
    BY <1>4, <2>1 DEF SelectsOK
<1>5. CASE GotConfirm \/ ChannelClosed
  BY <1>4, <1>5 DEF GotConfirm, ChannelClosed, Receive
<1>6. ASSUME UNCHANGED <<selects, serverSeq, confirmId, toServer, toClient>> PROVE SelectsOK'
  BY <1>6 DEF SelectsOK
<1>7. CASE ConnectionCloseOk \/ SocketClosed \/ HeartbeatTimeout \/ CloseConnection
  <2>1. /\ UNCHANGED <<selects, serverSeq, confirmId>>
        /\ Elems(toServer') \subseteq Elems(toServer) /\ Elems(toClient') \subseteq Elems(toClient)
    BY <1>7
       DEF ConnectionCloseOk, SocketClosed, HeartbeatTimeout, CloseConnection, Elems
  <2>. QED
    BY <2>1 DEF SelectsOK
<1>8. CASE Take
  <2>1. toServer \in Seq(ServerFrame) /\ toServer # <<>> /\ toServer' = Tail(toServer)
    BY <1>0, <1>8 DEF Take, TypeOK, ServerFrame
  <2>2. Elems(toServer) = {Head(toServer)} \cup Elems(toServer') /\ Head(toServer) \in ServerFrame
    BY <2>1, TailProps
  <2>3. CASE Head(toServer) = Select
    <3>1. selects.made # 0 /\ serverSeq' > 0
      BY <1>0, <1>8, <2>2, <2>3 DEF SelectsOK, Take, Select, Close, TypeOK
    <3>. QED
      BY <1>8, <3>1 DEF Take, SelectsOK
  <2>4. CASE Head(toServer) # Select
    <3>1. /\ SelectOk \in Elems(toClient') => SelectOk \in Elems(toClient)
          /\ serverSeq' = serverSeq \/ (serverSeq > 0 /\ serverSeq' = serverSeq + 1)
      <4>1. toClient \in Seq(Frame)
        BY <1>0 DEF TypeOK
      <4>2. \/ UNCHANGED toClient /\ (serverSeq' = serverSeq \/ (serverSeq > 0 /\ serverSeq' = serverSeq + 1))
            \/ toClient' = Append(toClient, CloseOk) /\ serverSeq' = serverSeq
        BY <1>8, <2>4 DEF Take
      <4>3. CASE toClient' = Append(toClient, CloseOk) /\ serverSeq' = serverSeq
        <5>1. Elems(toClient') = Elems(toClient) \cup {CloseOk}
          BY <4>1, <4>3, AppendProps, FrameFacts
        <5>. QED
          BY <4>3, <5>1, FrameFacts
      <4>. QED
        BY <4>2, <4>3
    <3>2. UNCHANGED <<selects, confirmId>> /\ serverSeq \in Nat
      BY <1>0, <1>8 DEF Take, TypeOK
    <3>. QED
      BY <2>2, <3>1, <3>2 DEF SelectsOK
  <2>. QED
    BY <2>3, <2>4
<1>9. ASSUME NEW f \in Frame, f # SelectOk, toClient' = Append(toClient, f),
             UNCHANGED <<selects, serverSeq, confirmId, toServer>>
      PROVE  SelectsOK'
  <2>1. SelectOk \in Elems(toClient') => SelectOk \in Elems(toClient)
    BY <1>0, <1>9, AppendProps DEF TypeOK
  <2>. QED
    BY <1>9, <2>1 DEF SelectsOK
<1>10. ASSUME NEW p \in Publish, NEW m \in BOOLEAN, NEW v \in {"acked", "nacked"}, Confirm(p, m, v)
       PROVE  SelectsOK'
  <2>1. seq[p] \in Nat \ {0}
    <3>1. fate[p] # None /\ seq[p] \in Nat
      BY <1>0, <1>10 DEF Confirm, TypeOK, None
    <3>. QED
      BY <3>1 DEF TypeInv, Given
  <2>. QED
    BY <1>9, <1>10, <2>1, FrameFacts DEF Confirm
<1>11. CASE ServerCloses
  BY <1>9, <1>11, FrameFacts DEF ServerCloses
<1>12. CASE SocketBreaks
  <2>1. Elems(toServer') = {} /\ Elems(toClient') = {}
    BY <1>12 DEF SocketBreaks, Elems
  <2>. QED
    BY <1>12, <2>1 DEF SocketBreaks, SelectsOK
<1>13. ASSUME NEW p \in Publish, Refuse(p) \/ Written(p) \/ WriteFailed(p) PROVE SelectsOK'
  BY <1>6, <1>13 DEF Refuse, Written, WriteFailed, WriteDone
<1>14. CASE UNCHANGED vars
  BY <1>6, <1>14 DEF vars
<1>. QED
  BY <1>1, <1>2, <1>3, <1>5, <1>7, <1>8, <1>10, <1>11, <1>12, <1>13, <1>14 DEF Next

LEMMA InitNumber == Init => NumberInv
<1> SUFFICES ASSUME Init PROVE NumberInv
  OBVIOUS
<1>1. Elems(toServer) = {} /\ Elems(toClient) = {} /\ Elems(unconfirmed) = {}
      /\ DOMAIN toServer = {} /\ DOMAIN toClient = {} /\ DOMAIN unconfirmed = {}
  BY DEF Init, Elems
<1>2. SelectsOK
  BY <1>1 DEF Init, SelectsOK
<1>3. Agreement
  BY <1>1 DEF Init, Agreement, Unnumbered, Numbered, Agreed, ConfirmsOnce, Covered,
              TagsAscend, AcksFind, VerdictIsOwn, None
<1>. QED
  BY <1>2, <1>3 DEF NumberInv

\* The frames of the client that are no publishes change nothing in the numbering.
LEMMA OtherSent ==
    ASSUME TypeInv, Agreement, NEW e \in {Select, Close}, Send(e),
           UNCHANGED <<attached, sock, clientVars, toClient, serverVars, skewed>>
    PROVE  Agreement'
<1> USE DEF clientVars, serverVars
<1>1. toServer \in Seq(ServerFrame) /\ e \in ServerFrame /\ e \notin Publish
  BY DEF TypeInv, TypeOK, ServerFrame
<1>2. CASE toServer' = toServer
  BY <1>2 DEF Agreement, Unnumbered, Numbered, Agreed, ConfirmsOnce, Covered, FirstCover,
              TagsAscend, AcksFind, VerdictIsOwn
<1>3. CASE toServer' = Append(toServer, e)
  <2>1. /\ Elems(toServer') \cap Publish = Elems(toServer) \cap Publish
        /\ \A i, j \in DOMAIN toServer' : i < j /\ toServer'[j] \in Publish =>
               i \in DOMAIN toServer /\ j \in DOMAIN toServer
               /\ toServer'[i] = toServer[i] /\ toServer'[j] = toServer[j]
    <3>1. /\ Len(toServer) \in Nat /\ DOMAIN toServer = 1 .. Len(toServer)
          /\ DOMAIN toServer' = 1 .. (Len(toServer) + 1)
          /\ \A i \in 1 .. Len(toServer) : toServer'[i] = toServer[i]
          /\ toServer'[Len(toServer) + 1] = e /\ Elems(toServer') = Elems(toServer) \cup {e}
      BY <1>1, <1>3, AppendProps
    <3>. QED
      BY <1>1, <3>1
  <2>2. Unnumbered'
    BY <2>1 DEF Agreement, Unnumbered
  <2>3. Numbered'
    BY <2>1 DEF Agreement, Numbered
  <2>. QED
    BY <2>2, <2>3 DEF Agreement, Agreed, ConfirmsOnce, Covered, FirstCover,
                      TagsAscend, AcksFind, VerdictIsOwn
<1>. QED
  BY <1>2, <1>3 DEF Send

\* The entries of the list are apart by their tags.
LEMMA TagsApart ==
    ASSUME TypeInv, TagsAscend, ~skewed
    PROVE  \A p, q \in Elems(unconfirmed) : tag[p] = tag[q] => p = q
<1> SUFFICES ASSUME NEW i \in DOMAIN unconfirmed, NEW j \in DOMAIN unconfirmed,
                    tag[unconfirmed[i]] = tag[unconfirmed[j]]
             PROVE  unconfirmed[i] = unconfirmed[j]
  BY DEF Elems
<1>1. /\ i \in Nat /\ j \in Nat
      /\ tag[unconfirmed[i]] \in Nat /\ tag[unconfirmed[j]] \in Nat
  BY DEF TypeInv, TypeOK
<1>. QED
  BY <1>1 DEF TagsAscend

LEMMA ClientFrames ==
    ASSUME TypeInv
    PROVE  \A i \in DOMAIN toClient :
               /\ toClient[i] \in Frame
               /\ IsConfirm(toClient[i]) => toClient[i].tag \in Nat \ {0} /\ toClient[i].multiple \in BOOLEAN
BY FrameFacts DEF TypeInv, TypeOK, IsConfirm

\* A publish gets the client's next number.
LEMMA PublishAgrees ==
    ASSUME TypeInv, ListInv, SelectsOK, Agreement, ~skewed,
           NEW p \in Publish, NEW b \in Buffer, BasicPublish(p, b), ~skewed'
    PROVE  Agreement'
<1> USE DEF chanVars, serverVars
<1>0. /\ TypeOK /\ Unnumbered /\ Numbered /\ Agreed /\ ConfirmsOnce /\ Covered
      /\ TagsAscend /\ AcksFind /\ VerdictIsOwn
  BY DEF TypeInv, Agreement
<1>1. /\ toServer \in Seq(ServerFrame) /\ p \in ServerFrame /\ p # Select
      /\ toServer' = toServer \/ toServer' = Append(toServer, p)
      /\ sock = "up" => toServer' = Append(toServer, p)
  BY <1>0 DEF TypeOK, ServerFrame, BasicPublish, Send
<1>2. UNCHANGED <<attached, sock, toClient, serverSeq, seq, fate, selects>>
  BY DEF BasicPublish
<1>3. /\ p \notin Elems(toServer) /\ p \notin Elems(unconfirmed) /\ fate[p] = None /\ confirm[p] = None
  BY DEF BasicPublish, ListInv, Progress, ListIsPending, None
<1>4. /\ Len(toServer) \in Nat /\ DOMAIN toServer = 1 .. Len(toServer)
      /\ toServer' = Append(toServer, p) =>
             /\ DOMAIN toServer' = 1 .. (Len(toServer) + 1)
             /\ \A i \in 1 .. Len(toServer) : toServer'[i] = toServer[i]
             /\ toServer'[Len(toServer) + 1] = p /\ Elems(toServer') = Elems(toServer) \cup {p}
  <2>1. Len(toServer) \in Nat /\ DOMAIN toServer = 1 .. Len(toServer)
    BY <1>1
  <2>2. ASSUME toServer' = Append(toServer, p)
        PROVE  /\ DOMAIN toServer' = 1 .. (Len(toServer) + 1)
               /\ \A i \in 1 .. Len(toServer) : toServer'[i] = toServer[i]
               /\ toServer'[Len(toServer) + 1] = p /\ Elems(toServer') = Elems(toServer) \cup {p}
    BY <1>1, <2>2, AppendProps
  <2>. QED
    BY <2>1, <2>2
<1>5. CASE confirmId = 0
  <2>1. UNCHANGED <<confirmId, unconfirmed, tag, confirm>> /\ selects.open = 0
    <3>1. UNCHANGED <<confirmId, unconfirmed, tag, confirm>>
      BY <1>5 DEF BasicPublish
    <3>2. ~(selects.open > 0)
      BY <1>5 DEF BasicPublish
    <3>3. selects.open \in Nat
      BY <1>0 DEF TypeOK
    <3>. QED
      BY <3>1, <3>2, <3>3
  <2>2. serverSeq = 0 /\ Select \notin Elems(toServer)
    BY <1>5, <2>1 DEF SelectsOK
  <2>3. Select \notin Elems(toServer')
    BY <1>1, <1>4, <2>2
  <2>4. Unnumbered'
    BY <1>2, <2>2, <2>3 DEF Unnumbered, Elems
  <2>. QED
    BY <1>0, <1>2, <1>5, <2>1, <2>4 DEF Agreement, Numbered, Agreed, ConfirmsOnce, Covered, FirstCover,
                                         TagsAscend, AcksFind, VerdictIsOwn
<1>6. CASE confirmId # 0
  <2>1. /\ Register(p) /\ confirmId \in Nat /\ confirmId > 0 /\ confirmId' = confirmId + 1
        /\ tag'[p] = confirmId /\ confirm'[p] = "pending"
        /\ \A q \in Publish \ {p} : tag'[q] = tag[q] /\ confirm'[q] = confirm[q]
        /\ \A q \in Publish : tag[q] \in Nat /\ tag'[q] \in Nat
    BY <1>0, <1>6 DEF BasicPublish, Register, TypeOK
  <2>2. /\ Len(unconfirmed) \in Nat /\ DOMAIN unconfirmed = 1 .. Len(unconfirmed)
        /\ DOMAIN unconfirmed' = 1 .. (Len(unconfirmed) + 1)
        /\ \A i \in 1 .. Len(unconfirmed) : unconfirmed'[i] = unconfirmed[i] /\ unconfirmed[i] \in Publish
        /\ unconfirmed'[Len(unconfirmed) + 1] = p /\ Elems(unconfirmed') = Elems(unconfirmed) \cup {p}
        /\ Elems(unconfirmed) \subseteq Publish
    <3>1. unconfirmed \in Seq(Publish) /\ unconfirmed' = Append(unconfirmed, p)
      BY <1>0, <2>1 DEF Register, TypeOK
    <3>2. /\ Len(unconfirmed) \in Nat /\ DOMAIN unconfirmed = 1 .. Len(unconfirmed)
          /\ DOMAIN unconfirmed' = 1 .. (Len(unconfirmed) + 1)
          /\ \A i \in 1 .. Len(unconfirmed) : unconfirmed'[i] = unconfirmed[i]
          /\ unconfirmed'[Len(unconfirmed) + 1] = p /\ Elems(unconfirmed') = Elems(unconfirmed) \cup {p}
      BY <3>1, AppendProps
    <3>3. \A i \in 1 .. Len(unconfirmed) : unconfirmed[i] \in Publish
      BY <3>1
    <3>. QED
      BY <3>2, <3>3 DEF Elems
  <2>3. \A q \in Elems(unconfirmed) : q # p /\ tag'[q] = tag[q] /\ tag[q] < confirmId
    BY <1>0, <1>3, <2>1, <2>2 DEF Agreed, TagsAscend
  <2>4. TagsAscend'
    <3>1. ASSUME NEW i \in DOMAIN unconfirmed', NEW j \in DOMAIN unconfirmed', i < j
          PROVE  tag'[unconfirmed'[i]] < tag'[unconfirmed'[j]]
      <4>1. i \in DOMAIN unconfirmed /\ unconfirmed'[i] = unconfirmed[i] /\ unconfirmed[i] \in Elems(unconfirmed)
        BY <2>2, <3>1 DEF Elems
      <4>2. CASE j = Len(unconfirmed) + 1
        BY <2>1, <2>2, <2>3, <4>1, <4>2
      <4>3. CASE j # Len(unconfirmed) + 1
        <5>1. j \in DOMAIN unconfirmed /\ unconfirmed'[j] = unconfirmed[j] /\ unconfirmed[j] \in Elems(unconfirmed)
          BY <2>2, <4>3 DEF Elems
        <5>. QED
          BY <1>0, <2>3, <3>1, <4>1, <5>1 DEF TagsAscend
      <4>. QED
        BY <4>2, <4>3
    <3>2. \A q \in Publish : tag'[q] > 0 => tag'[q] < confirmId'
      BY <1>0, <2>1 DEF TagsAscend
    <3>. QED
      BY <3>1, <3>2 DEF TagsAscend
  <2>5. Numbered'
    <3> SUFFICES ASSUME sock = "up" PROVE Numbered'
      BY <1>2 DEF Numbered
    <3>1. /\ toServer' = Append(toServer, p) /\ serverSeq <= confirmId
          /\ \A q \in Elems(toServer) \cap Publish : serverSeq <= tag[q] /\ q # p /\ tag'[q] = tag[q]
          /\ serverSeq \in Nat
      BY <1>0, <1>1, <1>3, <2>1 DEF Numbered, TypeOK
    <3>2. Elems(toServer') = Elems(toServer) \cup {p}
      BY <1>4, <3>1
    <3>3. ASSUME NEW i \in DOMAIN toServer', NEW j \in DOMAIN toServer', i < j,
                 toServer'[i] \in Publish, toServer'[j] \in Publish
          PROVE  tag'[toServer'[i]] < tag'[toServer'[j]]
      <4>1. i \in DOMAIN toServer /\ toServer'[i] = toServer[i] /\ toServer[i] \in Elems(toServer)
        BY <1>4, <3>1, <3>3 DEF Elems
      <4>2. CASE j = Len(toServer) + 1
        <5>1. tag[toServer[i]] < confirmId
          BY <1>0, <1>6, <2>1, <3>1, <3>3, <4>1 DEF TagsAscend, SelectsOK
        <5>. QED
          BY <1>4, <2>1, <3>1, <3>3, <4>1, <4>2, <5>1
      <4>3. CASE j # Len(toServer) + 1
        <5>1. j \in DOMAIN toServer /\ toServer'[j] = toServer[j] /\ toServer[j] \in Elems(toServer)
          BY <1>4, <3>1, <4>3 DEF Elems
        <5>. QED
          BY <1>0, <2>1, <3>1, <3>3, <4>1, <5>1 DEF Numbered
      <4>. QED
        BY <4>2, <4>3
    <3>4. ASSUME NEW n \in serverSeq .. confirmId' - 1
          PROVE  \E q \in Elems(toServer') \cap Publish : tag'[q] = n
      <4>1. CASE n = confirmId
        BY <2>1, <3>2, <4>1
      <4>2. CASE n # confirmId
        <5>1. n \in serverSeq .. confirmId - 1
          BY <2>1, <3>1, <4>2
        <5>. QED
          BY <1>0, <2>1, <3>1, <3>2, <5>1 DEF Numbered
      <4>. QED
        BY <4>1, <4>2
    <3>5. attached' => Elems(toServer') \cap Publish \subseteq Elems(unconfirmed')
      BY <1>0, <1>2, <2>1, <2>2, <3>2 DEF Numbered
    <3>6. \A q \in Elems(toServer') \cap Publish : serverSeq <= tag'[q]
      BY <2>1, <3>1, <3>2
    <3>. QED
      BY <1>2, <2>1, <3>1, <3>3, <3>4, <3>5, <3>6 DEF Numbered
  <2>6. Agreed'
    <3>1. sock = "up" => serverSeq <= tag'[p]
      BY <1>0, <2>1 DEF Numbered
    <3>2. \A q \in Publish : fate[q] # None => seq[q] = tag'[q] /\ tag'[q] > 0 /\ seq[q] < serverSeq
      BY <1>0, <1>3, <2>1 DEF Agreed
    <3>3. \A q \in Elems(unconfirmed') : tag'[q] > 0 /\ (sock = "up" /\ fate[q] = None => serverSeq <= tag'[q])
      BY <1>0, <2>1, <2>2, <2>3, <3>1 DEF Agreed
    <3>4. sock = "up" /\ attached => \A q \in Publish : fate[q] = "open" => q \in Elems(unconfirmed')
      BY <1>0, <2>2 DEF Agreed
    <3>. QED
      BY <1>2, <3>2, <3>3, <3>4 DEF Agreed
  <2>7. ConfirmsOnce'
    <3>1. \A q \in Publish : fate[q] = "open" => tag'[q] = tag[q]
      BY <1>3, <2>1 DEF None
    <3>. QED
      BY <1>0, <1>2, <3>1 DEF ConfirmsOnce
  <2>8. Covered'
    <3> SUFFICES ASSUME sock = "up", attached, NEW q \in Elems(unconfirmed'), fate[q] \in {"acked", "nacked"}
                 PROVE  \E k \in DOMAIN toClient : FirstCover(q, k)'
      BY <1>2 DEF Covered
    <3>1. q \in Elems(unconfirmed) /\ tag'[q] = tag[q]
      BY <1>3, <2>2, <2>3 DEF None
    <3>. QED
      BY <1>0, <1>2, <3>1 DEF Covered, FirstCover
  <2>9. AcksFind'
    <3> SUFFICES ASSUME attached, NEW i \in DOMAIN toClient, toClient[i].method \in {"Ack", "Nack"}
                 PROVE  \E q \in Elems(unconfirmed') : tag'[q] = toClient[i].tag
      BY <1>2 DEF AcksFind
    <3>1. PICK q \in Elems(unconfirmed) : tag[q] = toClient[i].tag
      BY <1>0 DEF AcksFind
    <3>. QED
      BY <2>2, <2>3, <3>1
  <2>10. VerdictIsOwn' /\ Unnumbered'
    BY <1>0, <1>2, <2>1 DEF VerdictIsOwn, Unnumbered
  <2>. QED
    BY <2>4, <2>5, <2>6, <2>7, <2>8, <2>9, <2>10 DEF Agreement
<1>. QED
  BY <1>5, <1>6

\* A frame that is no confirm changes nothing for those under way.
LEMMA OtherFrame ==
    ASSUME TypeInv, Agreement, ~skewed, NEW f \in Frame, ~IsConfirm(f), toClient' = Append(toClient, f),
           UNCHANGED <<attached, sock, unconfirmed, tag, fate, skewed>>,
           serverSeq <= serverSeq', serverSeq' \in Nat
    PROVE  ConfirmsOnce' /\ Covered' /\ AcksFind'
<1>0. TypeOK /\ ConfirmsOnce /\ Covered /\ AcksFind
  BY DEF TypeInv, Agreement
<1>1. /\ Len(toClient) \in Nat /\ DOMAIN toClient = 1 .. Len(toClient)
      /\ DOMAIN toClient' = 1 .. (Len(toClient) + 1)
      /\ \A i \in 1 .. Len(toClient) : toClient'[i] = toClient[i]
      /\ toClient'[Len(toClient) + 1] = f
  BY <1>0, AppendProps DEF TypeOK
<1>2. \A i \in DOMAIN toClient' : IsConfirm(toClient'[i]) =>
          i \in DOMAIN toClient /\ toClient'[i] = toClient[i] /\ toClient[i].tag \in Nat
  BY <1>1, ClientFrames
<1>3. ConfirmsOnce'
  <2>1. \A i \in DOMAIN toClient' : IsConfirm(toClient'[i]) => toClient'[i].tag < serverSeq'
    <3>1. serverSeq \in Nat
      BY <1>0 DEF TypeOK
    <3>. QED
      BY <1>0, <1>2, <3>1 DEF ConfirmsOnce
  <2>2. \A i, j \in DOMAIN toClient' : i < j /\ IsConfirm(toClient'[j]) => ~Covers(toClient'[i], toClient'[j].tag)
    BY <1>0, <1>1, <1>2 DEF ConfirmsOnce, Covers
  <2>3. \A p \in Publish : fate[p] = "open" => \A i \in DOMAIN toClient' : ~Covers(toClient'[i], tag[p])
    BY <1>0, <1>2 DEF ConfirmsOnce, Covers
  <2>. QED
    BY <2>1, <2>2, <2>3 DEF ConfirmsOnce
<1>4. Covered'
  <2> SUFFICES ASSUME sock = "up", attached, NEW q \in Elems(unconfirmed), fate[q] \in {"acked", "nacked"}
               PROVE  \E k \in DOMAIN toClient' : FirstCover(q, k)'
    BY DEF Covered
  <2>1. PICK k \in DOMAIN toClient : FirstCover(q, k)
    BY <1>0 DEF Covered
  <2>2. k \in DOMAIN toClient' /\ toClient'[k] = toClient[k]
    BY <1>1
  <2>3. \A i \in DOMAIN toClient' : i < k => ~Covers(toClient'[i], tag[q])
    BY <1>1, <2>1 DEF FirstCover
  <2>. QED
    BY <2>1, <2>2, <2>3 DEF FirstCover
<1>5. AcksFind'
  BY <1>0, <1>2 DEF AcksFind, IsConfirm
<1>. QED
  BY <1>3, <1>4, <1>5

\* What is under way behind the first frame keeps its order.
LEMMA BehindFirst ==
    ASSUME TypeInv, ConfirmsOnce, toClient # <<>>, toClient' = Tail(toClient),
           UNCHANGED <<tag, fate, serverSeq>>
    PROVE  /\ Head(toClient) = toClient[1] /\ Head(toClient) \in Frame /\ 1 \in DOMAIN toClient
           /\ \A i \in DOMAIN toClient' : i + 1 \in DOMAIN toClient /\ 1 < i + 1 /\ toClient'[i] = toClient[i + 1]
           /\ \A i \in DOMAIN toClient : i # 1 => i - 1 \in DOMAIN toClient' /\ toClient'[i - 1] = toClient[i]
           /\ DOMAIN toClient \subseteq Nat \ {0} /\ DOMAIN toClient' \subseteq Nat \ {0}
           /\ ConfirmsOnce'
<1>1. /\ Head(toClient) = toClient[1] /\ Head(toClient) \in Frame
      /\ Len(toClient) \in Nat \ {0} /\ DOMAIN toClient = 1 .. Len(toClient)
      /\ DOMAIN toClient' = 1 .. (Len(toClient) - 1)
      /\ \A i \in 1 .. (Len(toClient) - 1) : toClient'[i] = toClient[i + 1]
  BY TailProps DEF TypeInv, TypeOK
<1>2. \A i \in DOMAIN toClient' : i + 1 \in DOMAIN toClient /\ 1 < i + 1 /\ toClient'[i] = toClient[i + 1]
  BY <1>1
<1>3. \A i \in DOMAIN toClient : i # 1 => i - 1 \in DOMAIN toClient' /\ toClient'[i - 1] = toClient[i]
  BY <1>1
<1>4. DOMAIN toClient \subseteq Nat \ {0} /\ DOMAIN toClient' \subseteq Nat \ {0}
  BY <1>1
<1>5. ConfirmsOnce'
  <2>1. \A i, j \in DOMAIN toClient' : i < j => i + 1 < j + 1
    BY <1>4
  <2>2. \A i, j \in DOMAIN toClient' : i < j /\ IsConfirm(toClient'[j]) => ~Covers(toClient'[i], toClient'[j].tag)
    BY <1>2, <2>1 DEF ConfirmsOnce
  <2>3. \A p \in Publish : fate[p] = "open" => \A i \in DOMAIN toClient' : ~Covers(toClient'[i], tag[p])
    BY <1>2 DEF ConfirmsOnce
  <2>4. \A i \in DOMAIN toClient' : IsConfirm(toClient'[i]) => toClient'[i].tag < serverSeq
    BY <1>2 DEF ConfirmsOnce
  <2>. QED
    BY <2>2, <2>3, <2>4 DEF ConfirmsOnce
<1>. QED
  BY <1>1, <1>2, <1>3, <1>4, <1>5

\* The numbering starts with the numbers of the broker.
LEMMA SelectOkAgrees ==
    ASSUME TypeInv, ListInv, SelectsOK, Agreement, ~skewed, GotSelectOk, ~skewed'
    PROVE  Agreement'
<1> USE DEF serverVars
<1>0. /\ TypeOK /\ Unnumbered /\ Numbered /\ Agreed /\ ConfirmsOnce /\ Covered
      /\ TagsAscend /\ AcksFind /\ VerdictIsOwn
  BY DEF TypeInv, Agreement
<1>1. /\ UNCHANGED <<attached, unconfirmed, confirm, toServer, sock, tag, serverSeq, seq, fate>>
      /\ toClient # <<>> /\ toClient' = Tail(toClient) /\ confirmId' = 1 /\ ~(confirmId > 1)
  BY DEF GotSelectOk, Receive
<1>2. Head(toClient) = SelectOk /\ toClient \in Seq(Frame) /\ SelectOk \in Elems(toClient)
  <2>1. toClient \in Seq(Frame) /\ Receive("SelectOk")
    BY <1>0 DEF GotSelectOk, TypeOK
  <2>2. Head(toClient) \in Frame /\ Head(toClient) \in Elems(toClient)
    BY <1>1, <2>1, TailProps
  <2>3. Head(toClient) = SelectOk
    BY <2>1, <2>2, FrameFacts DEF Receive
  <2>. QED
    BY <2>1, <2>2, <2>3
<1>3. /\ Head(toClient) = toClient[1] /\ 1 \in DOMAIN toClient
      /\ \A i \in DOMAIN toClient' : i + 1 \in DOMAIN toClient /\ toClient'[i] = toClient[i + 1]
      /\ \A i \in DOMAIN toClient : i # 1 => i - 1 \in DOMAIN toClient' /\ toClient'[i - 1] = toClient[i]
      /\ DOMAIN toClient \subseteq Nat \ {0} /\ DOMAIN toClient' \subseteq Nat \ {0}
      /\ ConfirmsOnce'
  BY <1>0, <1>1, BehindFirst
<1>4. ~IsConfirm(toClient[1])
  BY <1>2, <1>3 DEF IsConfirm, SelectOk
<1>5. Covered'
  <2> SUFFICES ASSUME sock = "up", attached, NEW q \in Elems(unconfirmed), fate[q] \in {"acked", "nacked"}
               PROVE  \E k \in DOMAIN toClient' : FirstCover(q, k)'
    BY <1>1 DEF Covered
  <2>1. PICK k \in DOMAIN toClient : FirstCover(q, k)
    BY <1>0 DEF Covered
  <2>2. k # 1
    BY <1>4, <2>1 DEF FirstCover, Covers
  <2>3. \A i \in DOMAIN toClient' : i < k - 1 => i + 1 < k
    BY <1>3
  <2>4. k - 1 \in DOMAIN toClient' /\ toClient'[k - 1] = toClient[k]
    BY <1>3, <2>2
  <2>5. FirstCover(q, k - 1)'
    BY <1>1, <1>3, <2>1, <2>3, <2>4 DEF FirstCover
  <2>. QED
    BY <2>4, <2>5
<1>6. AcksFind'
  BY <1>0, <1>1, <1>3 DEF AcksFind
<1>7. TagsAscend'
  <2>1. \A q \in Publish : ~(tag[q] > 0)
    BY <1>0, <1>1 DEF TagsAscend, TypeOK
  <2>. QED
    BY <1>0, <1>1, <2>1 DEF TagsAscend
<1>8. Numbered'
  <2>1. serverSeq > 0 /\ serverSeq \in Nat
    BY <1>0, <1>2 DEF SelectsOK, TypeOK
  <2>2. CASE confirmId = 0
    <3>1. serverSeq = 1 /\ Elems(toServer) \cap Publish = {}
      BY <1>0, <2>1, <2>2 DEF Unnumbered
    <3>2. \A i \in DOMAIN toServer : toServer[i] \notin Publish
      BY <3>1 DEF Elems
    <3>. QED
      BY <1>1, <3>1, <3>2 DEF Numbered
  <2>3. CASE confirmId # 0
    <3>1. confirmId = 1
      BY <1>0, <1>1, <2>3 DEF TypeOK
    <3>. QED
      BY <1>0, <1>1, <3>1 DEF Numbered
  <2>. QED
    BY <2>2, <2>3
<1>9. Unnumbered' /\ Agreed' /\ VerdictIsOwn'
  BY <1>0, <1>1 DEF Unnumbered, Agreed, VerdictIsOwn
<1>. QED
  BY <1>3, <1>5, <1>6, <1>7, <1>8, <1>9 DEF Agreement

\* In an ascending list the entries that are taken are those the confirm covers.
LEMMA TakenIsCovered ==
    ASSUME TypeInv, ListInv, TagsAscend, ~skewed, NEW f \in Frame, IsConfirm(f),
           \E p \in Elems(unconfirmed) : tag[p] = f.tag
    PROVE  \A q \in Elems(unconfirmed) : q \in Taken(f.tag, f.multiple) <=> Covers(f, tag[q])
<1> DEFINE i == Index(f.tag)
<1>1. /\ f.tag \in Nat \ {0} /\ f.multiple \in BOOLEAN
  BY FrameFacts DEF IsConfirm
<1>2. /\ DOMAIN unconfirmed = 1 .. Len(unconfirmed) /\ Len(unconfirmed) \in Nat
      /\ \A k \in DOMAIN unconfirmed : tag[unconfirmed[k]] \in Nat
  BY DEF TypeInv, TypeOK
<1>3. i # 0 /\ i \in DOMAIN unconfirmed /\ tag[unconfirmed[i]] = f.tag
  BY <1>2, IndexProps DEF TypeInv, Elems
<1>4. Taken(f.tag, f.multiple) = {unconfirmed[j] : j \in First(i, f.multiple) .. i}
  BY <1>3 DEF Taken
<1> HIDE DEF i
<1>5. \A k \in DOMAIN unconfirmed : /\ k < i => tag[unconfirmed[k]] < f.tag
                                    /\ k > i => tag[unconfirmed[k]] > f.tag
  BY <1>2, <1>3 DEF TagsAscend
<1>6. \A k, l \in DOMAIN unconfirmed : unconfirmed[k] = unconfirmed[l] => k = l
  BY DEF ListInv, ListOnce
<1> SUFFICES ASSUME NEW k \in DOMAIN unconfirmed
             PROVE  unconfirmed[k] \in Taken(f.tag, f.multiple) <=> Covers(f, tag[unconfirmed[k]])
  BY DEF Elems
<1>7. CASE f.multiple
  <2>1. unconfirmed[k] \in Taken(f.tag, f.multiple) <=> k <= i
    <3>1. Taken(f.tag, f.multiple) = {unconfirmed[j] : j \in 1 .. i} /\ 1 .. i \subseteq DOMAIN unconfirmed
      BY <1>2, <1>3, <1>4, <1>7 DEF First
    <3>2. k \in 1 .. i <=> k <= i
      BY <1>2, <1>3
    <3>. QED
      BY <1>6, <3>1, <3>2
  <2>2. k <= i <=> tag[unconfirmed[k]] <= f.tag
    BY <1>1, <1>2, <1>3, <1>5
  <2>3. Covers(f, tag[unconfirmed[k]]) <=> tag[unconfirmed[k]] <= f.tag
    BY <1>1, <1>2, <1>7 DEF Covers
  <2>. QED
    BY <2>1, <2>2, <2>3
<1>8. CASE ~f.multiple
  <2>1. unconfirmed[k] \in Taken(f.tag, f.multiple) <=> k = i
    <3>1. Taken(f.tag, f.multiple) = {unconfirmed[i]}
      <4>1. First(i, f.multiple) .. i = {i}
        BY <1>2, <1>3, <1>8 DEF First
      <4>. QED
        BY <1>4, <4>1
    <3>. QED
      BY <1>3, <1>6, <3>1
  <2>2. k = i <=> tag[unconfirmed[k]] = f.tag
    BY <1>1, <1>2, <1>3, <1>5
  <2>3. Covers(f, tag[unconfirmed[k]]) <=> tag[unconfirmed[k]] = f.tag
    BY <1>8 DEF Covers
  <2>. QED
    BY <2>1, <2>2, <2>3
<1>. QED
  BY <1>1, <1>7, <1>8

\* publishConfirmed gives each publish it takes the verdict the broker gave on it.
LEMMA ConfirmAgrees ==
    ASSUME TypeInv, ListInv, Agreement, ~skewed, GotConfirm
    PROVE  Agreement'
<1> USE DEF serverVars
<1> DEFINE f == Head(toClient)
           gone == Taken(f.tag, f.multiple)
<1>0. /\ TypeOK /\ Unnumbered /\ Numbered /\ Agreed /\ ConfirmsOnce /\ Covered
      /\ TagsAscend /\ AcksFind /\ VerdictIsOwn
  BY DEF TypeInv, Agreement
<1>1. /\ attached /\ sock = "up" /\ toClient # <<>> /\ toClient' = Tail(toClient)
      /\ UNCHANGED <<closed, attached, confirmId, toServer, skewed, sock, ending, tag, buffer,
                      serverSeq, seq, fate>>
  BY DEF GotConfirm, Receive
<1>2. /\ f = toClient[1] /\ f \in Frame /\ 1 \in DOMAIN toClient
      /\ \A i \in DOMAIN toClient' : i + 1 \in DOMAIN toClient /\ 1 < i + 1 /\ toClient'[i] = toClient[i + 1]
      /\ \A i \in DOMAIN toClient : i # 1 => i - 1 \in DOMAIN toClient' /\ toClient'[i - 1] = toClient[i]
      /\ DOMAIN toClient \subseteq Nat \ {0} /\ DOMAIN toClient' \subseteq Nat \ {0}
      /\ ConfirmsOnce'
  BY <1>0, <1>1, BehindFirst
<1>3. IsConfirm(f) /\ PublishConfirmed(f.tag, f.multiple, VerdictOf(f))
  BY DEF GotConfirm, Receive, IsConfirm, VerdictOf
<1>4. f.tag \in Nat \ {0} /\ f.multiple \in BOOLEAN /\ VerdictOf(f) \in {"acked", "nacked"}
  BY <1>2, <1>3, FrameFacts DEF IsConfirm, VerdictOf
<1> HIDE DEF f
<1>5. /\ Elems(unconfirmed') = Elems(unconfirmed) \ gone /\ gone \subseteq Elems(unconfirmed)
      /\ confirm' = Verdict(gone, VerdictOf(f))
      /\ \A k, l \in DOMAIN unconfirmed' : k < l =>
             \E x, y \in DOMAIN unconfirmed :
                 x < y /\ unconfirmed'[k] = unconfirmed[x] /\ unconfirmed'[l] = unconfirmed[y]
  BY <1>1, <1>3, <1>4, PublishConfirmedProps
<1>6. \A q \in Elems(unconfirmed) : q \in gone <=> Covers(f, tag[q])
  <2>1. \E p \in Elems(unconfirmed) : tag[p] = f.tag
    BY <1>0, <1>1, <1>2, <1>3 DEF AcksFind, IsConfirm
  <2>. QED
    BY <1>0, <1>2, <1>3, <2>1, TakenIsCovered
<1> HIDE DEF gone
<1>7. /\ Elems(unconfirmed) \subseteq Publish
      /\ \A q \in Publish : tag[q] \in Nat /\ fate[q] \in {None, "open", "acked", "nacked"}
      /\ serverSeq \in Nat
  BY <1>0 DEF TypeOK, Elems
<1>8. \A q \in gone : fate[q] = VerdictOf(f)
  <2> SUFFICES ASSUME NEW q \in gone PROVE fate[q] = VerdictOf(f)
    OBVIOUS
  <2>1. q \in Elems(unconfirmed) /\ q \in Publish /\ Covers(f, tag[q]) /\ tag[q] <= f.tag
    BY <1>4, <1>5, <1>6, <1>7 DEF Covers
  <2>2. fate[q] # None
    <3>1. f.tag < serverSeq
      BY <1>0, <1>2, <1>3 DEF ConfirmsOnce
    <3>. QED
      BY <1>0, <1>1, <1>4, <1>7, <2>1, <3>1 DEF Agreed
  <2>3. fate[q] # "open"
    BY <1>0, <1>2, <2>1 DEF ConfirmsOnce
  <2>4. PICK k \in DOMAIN toClient : FirstCover(q, k)
    BY <1>0, <1>1, <1>7, <2>1, <2>2, <2>3 DEF Covered
  <2>5. k = 1
    BY <1>2, <2>1, <2>4 DEF FirstCover
  <2>. QED
    BY <1>2, <2>4, <2>5 DEF FirstCover
<1>9. TagsAscend'
  <2>1. ASSUME NEW k \in DOMAIN unconfirmed', NEW l \in DOMAIN unconfirmed', k < l
        PROVE  tag[unconfirmed'[k]] < tag[unconfirmed'[l]]
    BY <1>0, <1>5, <2>1 DEF TagsAscend
  <2>. QED
    BY <1>0, <1>1, <2>1 DEF TagsAscend
<1>10. Numbered'
  <2>1. \A q \in Elems(toServer) \cap Publish : confirmId > 0 => q \in Elems(unconfirmed) /\ q \notin gone
    <3> SUFFICES ASSUME NEW q \in Elems(toServer) \cap Publish, confirmId > 0
                 PROVE  q \in Elems(unconfirmed) /\ q \notin gone
      OBVIOUS
    <3>1. q \in Elems(unconfirmed) /\ serverSeq <= tag[q]
      BY <1>0, <1>1 DEF Numbered
    <3>2. f.tag < serverSeq
      BY <1>0, <1>2, <1>3 DEF ConfirmsOnce
    <3>3. ~Covers(f, tag[q])
      BY <1>4, <1>7, <3>1, <3>2 DEF Covers
    <3>. QED
      BY <1>6, <3>1, <3>3
  <2>. QED
    BY <1>0, <1>1, <1>5, <2>1 DEF Numbered
<1>11. Agreed'
  <2>1. \A q \in Publish : fate[q] = "open" => q \in Elems(unconfirmed) /\ ~Covers(f, tag[q])
    BY <1>0, <1>1, <1>2 DEF Agreed, ConfirmsOnce
  <2>. QED
    BY <1>0, <1>1, <1>5, <1>6, <2>1 DEF Agreed
<1>12. Covered'
  <2> SUFFICES ASSUME NEW q \in Elems(unconfirmed'), fate[q] \in {"acked", "nacked"}
               PROVE  \E k \in DOMAIN toClient' : FirstCover(q, k)'
    BY <1>1 DEF Covered
  <2>1. PICK k \in DOMAIN toClient : FirstCover(q, k)
    BY <1>0, <1>1, <1>5 DEF Covered
  <2>2. k # 1
    BY <1>2, <1>5, <1>6, <2>1 DEF FirstCover
  <2>3. \A i \in DOMAIN toClient' : i < k - 1 => i + 1 < k
    BY <1>2
  <2>4. k - 1 \in DOMAIN toClient' /\ toClient'[k - 1] = toClient[k]
    BY <1>2, <2>2
  <2>5. FirstCover(q, k - 1)'
    BY <1>1, <1>2, <2>1, <2>3, <2>4 DEF FirstCover
  <2>. QED
    BY <2>4, <2>5
<1>13. AcksFind'
  <2> SUFFICES ASSUME NEW i \in DOMAIN toClient', IsConfirm(toClient'[i])
               PROVE  \E q \in Elems(unconfirmed') : tag[q] = toClient'[i].tag
    BY <1>1 DEF AcksFind, IsConfirm
  <2>1. /\ i + 1 \in DOMAIN toClient /\ 1 < i + 1 /\ toClient'[i] = toClient[i + 1]
    BY <1>2
  <2>2. PICK q \in Elems(unconfirmed) : tag[q] = toClient[i + 1].tag
    BY <1>0, <1>1, <2>1 DEF AcksFind, IsConfirm
  <2>3. ~Covers(f, tag[q])
    BY <1>0, <1>2, <2>1, <2>2 DEF ConfirmsOnce
  <2>. QED
    BY <1>5, <1>6, <2>1, <2>2, <2>3
<1>14. VerdictIsOwn'
  <2>1. \A q \in Publish : confirm'[q] = confirm[q] \/ (q \in gone /\ confirm'[q] = VerdictOf(f))
    BY <1>5 DEF Verdict
  <2>. QED
    BY <1>0, <1>1, <1>8, <2>1 DEF VerdictIsOwn
<1>15. Unnumbered'
  BY <1>0, <1>1 DEF Unnumbered
<1>. QED
  BY <1>2, <1>9, <1>10, <1>11, <1>12, <1>13, <1>14, <1>15 DEF Agreement

\* A channel that is taken from the table waits for no confirm any more.
LEMMA DetachAgrees ==
    ASSUME TypeInv, ListInv, Agreement, ~skewed, SetClosed \/ UNCHANGED <<unconfirmed, confirm>>, ~attached',
           toClient' = toClient \/ (toClient # <<>> /\ toClient' = Tail(toClient)),
           UNCHANGED <<confirmId, tag, toServer, serverSeq, seq, fate, skewed>>, sock' = "up" => sock = "up"
    PROVE  Agreement'
<1>0. /\ TypeOK /\ Unnumbered /\ Numbered /\ Agreed /\ ConfirmsOnce /\ TagsAscend /\ VerdictIsOwn
  BY DEF TypeInv, Agreement
<1>1. /\ unconfirmed' \in {unconfirmed, <<>>}
      /\ \A q \in Publish : confirm'[q] = confirm[q] \/ confirm'[q] = "closed"
  <2>1. CASE UNCHANGED <<unconfirmed, confirm>>
    BY <2>1
  <2>2. CASE SetClosed
    BY <2>2 DEF SetClosed, Promises, Verdict
  <2>. QED
    BY <2>1, <2>2
<1>2. Elems(unconfirmed') \subseteq Elems(unconfirmed)
  BY <1>1 DEF Elems
<1>3. TagsAscend'
  BY <1>0, <1>1 DEF TagsAscend
<1>4. ConfirmsOnce'
  <2>1. CASE toClient' = toClient
    BY <1>0, <2>1 DEF ConfirmsOnce
  <2>2. CASE toClient # <<>> /\ toClient' = Tail(toClient)
    BY <1>0, <2>2, BehindFirst
  <2>. QED
    BY <2>1, <2>2
<1>5. Agreed'
  BY <1>0, <1>2 DEF Agreed
<1>6. Numbered' /\ Unnumbered'
  BY <1>0 DEF Numbered, Unnumbered
<1>7. Covered' /\ AcksFind'
  BY DEF Covered, AcksFind
<1>8. VerdictIsOwn'
  BY <1>0, <1>1 DEF VerdictIsOwn
<1>. QED
  BY <1>3, <1>4, <1>5, <1>6, <1>7, <1>8 DEF Agreement

\* The broker counts the publishes in the order and with the numbers of the client.
LEMMA TakeAgrees ==
    ASSUME TypeInv, ListInv, SelectsOK, Agreement, ~skewed, Take
    PROVE  Agreement'
<1> USE DEF chanVars, clientVars, serverVars
<1> DEFINE f == Head(toServer)
<1>0. /\ TypeOK /\ Unnumbered /\ Numbered /\ Agreed /\ ConfirmsOnce /\ Covered
      /\ TagsAscend /\ AcksFind /\ VerdictIsOwn
  BY DEF TypeInv, Agreement
<1>1. /\ sock = "up" /\ attached /\ toServer \in Seq(ServerFrame) /\ toServer # <<>>
      /\ toServer' = Tail(toServer) /\ UNCHANGED <<chanVars, clientVars, skewed>>
      /\ serverSeq \in Nat
  BY <1>0 DEF Take, Serving, TypeOK, ServerFrame
<1>2. /\ f = toServer[1] /\ f \in ServerFrame /\ 1 \in DOMAIN toServer /\ f \in Elems(toServer)
      /\ Elems(toServer) = {f} \cup Elems(toServer')
      /\ \A i \in DOMAIN toServer' : i + 1 \in DOMAIN toServer /\ 1 < i + 1 /\ toServer'[i] = toServer[i + 1]
      /\ \A i, j \in DOMAIN toServer' : i < j => i + 1 < j + 1
      /\ \A i \in DOMAIN toServer : i > 1 => toServer[i] \in Elems(toServer')
      /\ DOMAIN toServer \subseteq Nat \ {0}
  <2>1. /\ Head(toServer) \in ServerFrame /\ Head(toServer) = toServer[1]
        /\ Len(toServer) \in Nat \ {0} /\ DOMAIN toServer = 1 .. Len(toServer)
        /\ DOMAIN toServer' = 1 .. (Len(toServer) - 1)
        /\ \A i \in 1 .. (Len(toServer) - 1) : toServer'[i] = toServer[i + 1]
        /\ Elems(toServer) = {Head(toServer)} \cup Elems(toServer')
    BY <1>1, TailProps
  <2>2. ASSUME NEW i \in DOMAIN toServer, i > 1 PROVE toServer[i] \in Elems(toServer')
    <3>1. i - 1 \in DOMAIN toServer' /\ toServer'[i - 1] = toServer[i]
      BY <2>1, <2>2
    <3>. QED
      BY <3>1 DEF Elems
  <2>. QED
    BY <2>1, <2>2
<1>3. Take
  OBVIOUS
<1>4. f = Select => toClient' = Append(toClient, SelectOk) /\ UNCHANGED <<seq, fate>>
                    /\ serverSeq' = IF serverSeq = 0 THEN 1 ELSE serverSeq
  BY DEF Take, Select, Close
<1>5. f = Close => toClient' = Append(toClient, CloseOk) /\ UNCHANGED serverVars
  BY DEF Take, Select, Close
<1>6. f \in Publish => /\ UNCHANGED toClient
                       /\ \/ /\ serverSeq > 0 /\ seq' = [seq EXCEPT ![f] = serverSeq]
                             /\ serverSeq' = serverSeq + 1 /\ fate' = [fate EXCEPT ![f] = "open"]
                          \/ serverSeq = 0 /\ UNCHANGED serverVars
  BY DEF Take
<1> HIDE DEF f
<1>7. Elems(toServer') \subseteq Elems(toServer)
  BY <1>2
\* What a frame other than a counted publish leaves of the numbering
<1>8. ASSUME UNCHANGED <<seq, fate>>, serverSeq' = serverSeq \/ (f = Select /\ serverSeq = 0 /\ serverSeq' = 1),
             f \notin Publish \/ serverSeq = 0
      PROVE  Unnumbered' /\ Numbered' /\ Agreed' /\ TagsAscend' /\ VerdictIsOwn'
  <2>1. Unnumbered'
    <3> SUFFICES ASSUME confirmId = 0 PROVE Unnumbered'
      BY <1>1 DEF Unnumbered
    <3>1. \A i, j \in DOMAIN toServer' : i < j /\ toServer'[i] = Select => toServer'[j] \notin Publish
      BY <1>0, <1>2 DEF Unnumbered
    <3>2. serverSeq' = 1 => Elems(toServer') \cap Publish = {}
      <4>1. CASE serverSeq' = serverSeq
        BY <1>0, <1>7, <4>1 DEF Unnumbered
      <4>2. CASE f = Select
        <5>1. \A j \in DOMAIN toServer : 1 < j => toServer[j] \notin Publish
          BY <1>0, <1>2, <4>2 DEF Unnumbered
        <5>. QED
          BY <1>2, <5>1 DEF Elems
      <4>. QED
        BY <1>8, <4>1, <4>2
    <3>3. serverSeq' \in {0, 1}
      BY <1>0, <1>8 DEF Unnumbered
    <3>. QED
      BY <3>1, <3>2, <3>3 DEF Unnumbered
  <2>2. Numbered'
    <3> SUFFICES ASSUME confirmId > 0 PROVE Numbered'
      BY <1>1 DEF Numbered
    <3>1. serverSeq' = serverSeq /\ f \notin Publish
      BY <1>1, <1>8 DEF SelectsOK
    <3>2. Elems(toServer') \cap Publish = Elems(toServer) \cap Publish
      BY <1>2, <3>1
    <3>. QED
      BY <1>0, <1>1, <1>2, <3>1, <3>2 DEF Numbered
  <2>3. Agreed'
    <3>1. CASE serverSeq' = serverSeq
      BY <1>0, <1>1, <1>8, <3>1 DEF Agreed
    <3>2. CASE serverSeq = 0 /\ serverSeq' = 1
      <4>1. \A q \in Elems(unconfirmed) : tag[q] \in Nat /\ tag[q] > 0
        BY <1>0 DEF Agreed, TypeOK, Elems
      <4>2. \A q \in Publish : fate[q] # None => seq[q] < serverSeq' /\ seq[q] = tag[q] /\ tag[q] > 0
        BY <1>0, <3>2 DEF Agreed, TypeOK
      <4>3. \A q \in Elems(unconfirmed) : serverSeq' <= tag[q]
        BY <3>2, <4>1
      <4>. QED
        BY <1>0, <1>1, <1>8, <4>2, <4>3 DEF Agreed
    <3>. QED
      BY <1>8, <3>1, <3>2
  <2>4. TagsAscend' /\ VerdictIsOwn'
    BY <1>0, <1>1, <1>8 DEF TagsAscend, VerdictIsOwn
  <2>. QED
    BY <2>1, <2>2, <2>3, <2>4
<1>9. CASE f = Select \/ f = Close
  <2>1. PICK g \in {SelectOk, CloseOk} : toClient' = Append(toClient, g)
    BY <1>4, <1>5, <1>9
  <2>2. g \in Frame /\ ~IsConfirm(g)
    BY FrameFacts DEF IsConfirm, SelectOk, CloseOk
  <2>3. /\ UNCHANGED <<seq, fate>>
        /\ serverSeq' = serverSeq \/ (f = Select /\ serverSeq = 0 /\ serverSeq' = 1)
        /\ f \notin Publish /\ serverSeq <= serverSeq' /\ serverSeq' \in Nat
    BY <1>1, <1>4, <1>5, <1>9
  <2>4. ConfirmsOnce' /\ Covered' /\ AcksFind'
    BY <1>1, <2>1, <2>2, <2>3, OtherFrame
  <2>. QED
    BY <1>8, <2>3, <2>4 DEF Agreement
<1>10. CASE f \in Publish /\ serverSeq = 0
  <2>1. UNCHANGED <<serverVars, toClient>>
    BY <1>6, <1>10
  <2>2. ConfirmsOnce' /\ Covered' /\ AcksFind'
    BY <1>0, <1>1, <2>1 DEF ConfirmsOnce, Covered, FirstCover, AcksFind
  <2>. QED
    BY <1>8, <1>10, <2>1, <2>2 DEF Agreement
<1>11. CASE f \in Publish /\ serverSeq # 0
  <2>1. /\ UNCHANGED toClient /\ seq' = [seq EXCEPT ![f] = serverSeq]
        /\ serverSeq' = serverSeq + 1 /\ fate' = [fate EXCEPT ![f] = "open"]
    BY <1>6, <1>11
  <2>2. confirmId > 0
    BY <1>0, <1>2, <1>11 DEF Unnumbered, TypeOK
  <2>3. /\ \A q \in Publish : tag[q] \in Nat /\ fate[q] \in {None, "open", "acked", "nacked"}
        /\ confirmId \in Nat
        /\ seq'[f] = serverSeq /\ fate'[f] = "open"
        /\ \A q \in Publish \ {f} : seq'[q] = seq[q] /\ fate'[q] = fate[q]
        /\ Elems(unconfirmed) \subseteq Publish
    BY <1>0, <1>11, <2>1, SMTT(30) DEF TypeOK, Elems
  <2>4. /\ serverSeq <= tag[f] /\ tag[f] < confirmId /\ f \in Elems(unconfirmed)
    BY <1>0, <1>1, <1>2, <1>11, <2>2, <2>3 DEF Numbered, TagsAscend
  <2>5. tag[f] = serverSeq
    <3>1. serverSeq \in serverSeq .. confirmId - 1
      BY <1>1, <2>3, <2>4
    <3>2. PICK p \in Elems(toServer) \cap Publish : tag[p] = serverSeq
      BY <1>0, <1>1, <2>2, <3>1 DEF Numbered
    <3>3. PICK i \in DOMAIN toServer : toServer[i] = p
      BY <3>2 DEF Elems
    <3>4. CASE i = 1
      BY <1>2, <3>2, <3>3, <3>4
    <3>5. CASE i # 1
      <4>1. tag[f] < serverSeq
        BY <1>0, <1>1, <1>2, <1>11, <2>2, <3>2, <3>3, <3>5 DEF Numbered
      <4>. QED
        BY <1>1, <2>3, <2>4, <4>1
    <3>. QED
      BY <3>4, <3>5
  <2>6. Numbered'
    <3>1. \A q \in Elems(toServer') \cap Publish : serverSeq + 1 <= tag[q]
      <4> SUFFICES ASSUME NEW i \in DOMAIN toServer', toServer'[i] \in Publish
                   PROVE  serverSeq + 1 <= tag[toServer'[i]]
        BY DEF Elems
      <4>1. tag[f] < tag[toServer'[i]]
        BY <1>0, <1>1, <1>2, <1>11, <2>2 DEF Numbered
      <4>. QED
        BY <1>1, <2>3, <2>5, <4>1
    <3>2. ASSUME NEW n \in serverSeq + 1 .. confirmId - 1
          PROVE  \E q \in Elems(toServer') \cap Publish : tag[q] = n
      <4>1. n \in serverSeq .. confirmId - 1 /\ n # serverSeq
        BY <1>1, <2>3
      <4>2. PICK q \in Elems(toServer) \cap Publish : tag[q] = n
        BY <1>0, <1>1, <2>2, <4>1 DEF Numbered
      <4>. QED
        BY <1>2, <2>5, <4>1, <4>2
    <3>3. serverSeq + 1 <= confirmId
      BY <1>1, <2>3, <2>4
    <3>4. \A i, j \in DOMAIN toServer' :
              i < j /\ toServer'[i] \in Publish /\ toServer'[j] \in Publish
                  => tag[toServer'[i]] < tag[toServer'[j]]
      BY <1>0, <1>1, <1>2, <2>2 DEF Numbered
    <3>5. Elems(toServer') \cap Publish \subseteq Elems(unconfirmed)
      BY <1>0, <1>1, <1>7, <2>2 DEF Numbered
    <3>. QED
      BY <1>1, <2>1, <3>1, <3>2, <3>3, <3>4, <3>5 DEF Numbered
  <2>7. Agreed'
    <3>1. \A q \in Publish : fate'[q] # None => seq'[q] = tag[q] /\ tag[q] > 0 /\ seq'[q] < serverSeq'
      <4>1. seq'[f] = tag[f] /\ tag[f] > 0 /\ seq'[f] < serverSeq'
        BY <1>1, <1>11, <2>1, <2>3, <2>5
      <4>2. \A q \in Publish \ {f} : fate[q] # None => seq[q] = tag[q] /\ tag[q] > 0 /\ seq[q] < serverSeq'
        BY <1>0, <1>1, <2>1, <2>3 DEF Agreed
      <4>. QED
        BY <2>3, <4>1, <4>2
    <3>2. \A q \in Elems(unconfirmed) : fate'[q] = None => serverSeq' <= tag[q]
      <4> SUFFICES ASSUME NEW q \in Elems(unconfirmed), fate'[q] = None PROVE serverSeq' <= tag[q]
        OBVIOUS
      <4>1. q # f /\ fate[q] = None
        BY <2>3 DEF None
      <4>2. serverSeq <= tag[q] /\ tag[q] # tag[f]
        BY <1>0, <1>1, <2>4, <4>1, TagsApart DEF Agreed
      <4>. QED
        BY <1>1, <2>1, <2>3, <2>5, <4>2
    <3>3. \A q \in Publish : fate'[q] = "open" => q \in Elems(unconfirmed)
      BY <1>0, <1>1, <2>3, <2>4 DEF Agreed
    <3>. QED
      BY <1>0, <1>1, <3>1, <3>2, <3>3 DEF Agreed
  <2>8. ConfirmsOnce'
    <3>1. \A i \in DOMAIN toClient : IsConfirm(toClient[i]) =>
              toClient[i].tag \in Nat /\ toClient[i].tag < serverSeq
      BY <1>0, ClientFrames DEF ConfirmsOnce
    <3>2. \A i \in DOMAIN toClient : ~Covers(toClient[i], tag[f])
      BY <1>1, <2>5, <3>1 DEF Covers
    <3>3. \A i \in DOMAIN toClient : IsConfirm(toClient[i]) => toClient[i].tag < serverSeq'
      BY <1>1, <2>1, <3>1
    <3>4. \A q \in Publish : fate'[q] = "open" => \A i \in DOMAIN toClient : ~Covers(toClient[i], tag[q])
      BY <1>0, <2>3, <3>2 DEF ConfirmsOnce
    <3>. QED
      BY <1>0, <1>1, <2>1, <3>3, <3>4 DEF ConfirmsOnce
  <2>9. Covered'
    <3>1. \A q \in Elems(unconfirmed) : fate'[q] \in {"acked", "nacked"} => fate'[q] = fate[q]
      BY <2>3
    <3>. QED
      BY <1>0, <1>1, <2>1, <3>1 DEF Covered, FirstCover
  <2>10. VerdictIsOwn'
    <3>1. confirm[f] = "pending"
      BY <1>11, <2>4 DEF ListInv, ListIsPending
    <3>. QED
      BY <1>0, <1>1, <2>3, <3>1 DEF VerdictIsOwn
  <2>11. Unnumbered' /\ TagsAscend' /\ AcksFind'
    BY <1>0, <1>1, <2>1, <2>2 DEF Unnumbered, TagsAscend, AcksFind
  <2>. QED
    BY <2>6, <2>7, <2>8, <2>9, <2>10, <2>11 DEF Agreement
<1>. QED
  BY <1>2, <1>9, <1>10, <1>11 DEF ServerFrame

\* The broker confirms what waits in the list, each publish once.
LEMMA BrokerConfirms ==
    ASSUME TypeInv, ListInv, Agreement, ~skewed, NEW p \in Publish, NEW m \in BOOLEAN,
           NEW v \in {"acked", "nacked"}, Confirm(p, m, v)
    PROVE  Agreement'
<1> USE DEF chanVars, clientVars, serverVars
<1> DEFINE S == IF m THEN {q \in Publish : fate[q] = "open" /\ seq[q] <= seq[p]} ELSE {p}
           f == [method |-> IF v = "acked" THEN "Ack" ELSE "Nack", tag |-> seq[p], multiple |-> m]
<1>0. /\ TypeOK /\ Unnumbered /\ Numbered /\ Agreed /\ ConfirmsOnce /\ Covered
      /\ TagsAscend /\ AcksFind /\ VerdictIsOwn
  BY DEF TypeInv, Agreement
<1>1. /\ sock = "up" /\ attached /\ fate[p] = "open" /\ toClient' = Append(toClient, f)
      /\ fate' = [q \in Publish |-> IF q \in S THEN v ELSE fate[q]]
      /\ UNCHANGED <<chanVars, clientVars, selects, toServer, serverSeq, seq, skewed>>
  BY DEF Confirm, Serving
<1>2. /\ seq[p] = tag[p] /\ tag[p] > 0 /\ tag[p] < serverSeq /\ p \in Elems(unconfirmed)
      /\ \A q \in Publish : tag[q] \in Nat /\ seq[q] \in Nat
      /\ Elems(unconfirmed) \subseteq Publish
  BY <1>0, <1>1 DEF Agreed, None, TypeOK, Elems
<1>3. \A q \in Publish : /\ q \in S => fate[q] = "open" /\ fate'[q] = v
                         /\ q \notin S => fate'[q] = fate[q]
  BY <1>1
<1>4. /\ f \in Frame /\ IsConfirm(f) /\ f.tag = tag[p] /\ VerdictOf(f) = v /\ f.multiple = m
  <2>1. seq[p] \in Nat \ {0}
    BY <1>2
  <2>. QED
    BY <1>2, <2>1, FrameFacts DEF IsConfirm, VerdictOf
<1>5. \A q \in Publish : fate[q] = "open" => (q \in S <=> Covers(f, tag[q]))
  <2> SUFFICES ASSUME NEW q \in Publish, fate[q] = "open" PROVE q \in S <=> Covers(f, tag[q])
    OBVIOUS
  <2>1. seq[q] = tag[q] /\ q \in Elems(unconfirmed)
    BY <1>0, <1>1 DEF Agreed, None
  <2>2. CASE m
    BY <1>2, <1>4, <2>1, <2>2 DEF Covers
  <2>3. CASE ~m
    <3>1. tag[q] = tag[p] => q = p
      BY <1>0, <1>2, <2>1, TagsApart
    <3>. QED
      BY <1>4, <2>3, <3>1 DEF Covers
  <2>. QED
    BY <2>2, <2>3
<1> HIDE DEF S, f
<1>6. /\ Len(toClient) \in Nat /\ DOMAIN toClient = 1 .. Len(toClient)
      /\ DOMAIN toClient' = 1 .. (Len(toClient) + 1)
      /\ \A i \in 1 .. Len(toClient) : toClient'[i] = toClient[i]
      /\ toClient'[Len(toClient) + 1] = f
  <2>1. toClient \in Seq(Frame)
    BY <1>0 DEF TypeOK
  <2>. QED
    BY <1>1, <1>4, <2>1, AppendProps
<1>7. Agreed'
  <2>1. \A q \in Publish : /\ fate'[q] # None => fate[q] # None
                           /\ fate'[q] = None => fate[q] = None
                           /\ fate'[q] = "open" => fate[q] = "open"
    BY <1>3 DEF None
  <2>. QED
    BY <1>0, <1>1, <1>2, <2>1 DEF Agreed
<1>8. ConfirmsOnce'
  <2>1. \A i \in DOMAIN toClient' : IsConfirm(toClient'[i]) => toClient'[i].tag < serverSeq
    BY <1>0, <1>2, <1>4, <1>6 DEF ConfirmsOnce
  <2>2. ASSUME NEW i \in DOMAIN toClient', NEW j \in DOMAIN toClient', i < j, IsConfirm(toClient'[j])
        PROVE  ~Covers(toClient'[i], toClient'[j].tag)
    <3>1. i \in DOMAIN toClient /\ toClient'[i] = toClient[i]
      BY <1>6, <2>2
    <3>2. CASE j = Len(toClient) + 1
      BY <1>0, <1>1, <1>4, <1>6, <3>1, <3>2 DEF ConfirmsOnce
    <3>3. CASE j # Len(toClient) + 1
      <4>1. j \in DOMAIN toClient /\ toClient'[j] = toClient[j]
        BY <1>6, <3>3
      <4>. QED
        BY <1>0, <2>2, <3>1, <4>1 DEF ConfirmsOnce
    <3>. QED
      BY <3>2, <3>3
  <2>3. ASSUME NEW q \in Publish, fate'[q] = "open", NEW i \in DOMAIN toClient'
        PROVE  ~Covers(toClient'[i], tag[q])
    <3>1. fate[q] = "open" /\ q \notin S
      BY <1>3, <2>3
    <3>2. CASE i = Len(toClient) + 1
      BY <1>5, <1>6, <3>1, <3>2
    <3>3. CASE i # Len(toClient) + 1
      BY <1>0, <1>6, <3>1, <3>3 DEF ConfirmsOnce
    <3>. QED
      BY <3>2, <3>3
  <2>. QED
    BY <1>1, <2>1, <2>2, <2>3 DEF ConfirmsOnce
<1>9. Covered'
  <2> SUFFICES ASSUME NEW q \in Elems(unconfirmed), fate'[q] \in {"acked", "nacked"}
               PROVE  \E k \in DOMAIN toClient' : FirstCover(q, k)'
    BY <1>1 DEF Covered
  <2>1. q \in Publish
    BY <1>2
  <2>2. CASE q \in S
    <3>1. Covers(f, tag[q]) /\ fate'[q] = v /\ \A i \in DOMAIN toClient : ~Covers(toClient[i], tag[q])
      BY <1>0, <1>3, <1>5, <2>1, <2>2 DEF ConfirmsOnce
    <3>2. PICK k \in DOMAIN toClient' : k = Len(toClient) + 1
      BY <1>6
    <3>3. \A i \in DOMAIN toClient' : i < k => i \in DOMAIN toClient /\ toClient'[i] = toClient[i]
      BY <1>6, <3>2
    <3>4. FirstCover(q, k)'
      BY <1>1, <1>4, <1>6, <3>1, <3>2, <3>3 DEF FirstCover
    <3>. QED
      BY <3>4
  <2>3. CASE q \notin S
    <3>1. fate'[q] = fate[q]
      BY <1>3, <2>1, <2>3
    <3>2. PICK k \in DOMAIN toClient : FirstCover(q, k)
      BY <1>0, <1>1, <3>1 DEF Covered
    <3>3. \A i \in DOMAIN toClient' : i < k => i \in DOMAIN toClient /\ toClient'[i] = toClient[i]
      BY <1>6
    <3>4. k \in DOMAIN toClient' /\ toClient'[k] = toClient[k]
      BY <1>6
    <3>5. FirstCover(q, k)'
      BY <1>1, <3>1, <3>2, <3>3, <3>4 DEF FirstCover
    <3>. QED
      BY <3>4, <3>5
  <2>. QED
    BY <2>2, <2>3
<1>10. AcksFind'
  <2>1. \A i \in DOMAIN toClient' : IsConfirm(toClient'[i]) =>
            \E q \in Elems(unconfirmed) : tag[q] = toClient'[i].tag
    <3> SUFFICES ASSUME NEW i \in DOMAIN toClient', IsConfirm(toClient'[i])
                 PROVE  \E q \in Elems(unconfirmed) : tag[q] = toClient'[i].tag
      OBVIOUS
    <3>1. CASE i = Len(toClient) + 1
      BY <1>2, <1>4, <1>6, <3>1
    <3>2. CASE i # Len(toClient) + 1
      <4>1. i \in DOMAIN toClient /\ toClient'[i] = toClient[i]
        BY <1>6, <3>2
      <4>. QED
        BY <1>0, <1>1, <4>1 DEF AcksFind, IsConfirm
    <3>. QED
      BY <3>1, <3>2
  <2>. QED
    BY <1>1, <2>1 DEF AcksFind, IsConfirm
<1>11. VerdictIsOwn'
  <2>1. \A q \in Publish : confirm[q] \in {"acked", "nacked"} => fate'[q] = confirm[q]
    BY <1>0, <1>3 DEF VerdictIsOwn
  <2>. QED
    BY <1>1, <2>1 DEF VerdictIsOwn
<1>12. Unnumbered' /\ Numbered' /\ TagsAscend'
  BY <1>0, <1>1 DEF Unnumbered, Numbered, TagsAscend
<1>. QED
  BY <1>7, <1>8, <1>9, <1>10, <1>11, <1>12 DEF Agreement

LEMMA StepNumber == TypeInv /\ ListInv /\ NumberInv /\ [Next]_vars => NumberInv'
<1> SUFFICES ASSUME TypeInv, ListInv, NumberInv, [Next]_vars, ~skewed' PROVE Agreement'
  BY StepSelects DEF NumberInv
<1> USE DEF chanVars, clientVars, serverVars
<1>0. SelectsOK /\ TypeOK /\ (~skewed => Agreement)
  BY DEF NumberInv, TypeInv
<1>1. ASSUME UNCHANGED <<attached, sock, confirmId, unconfirmed, tag, confirm, toServer, toClient,
                         serverSeq, seq, fate, skewed>>
      PROVE  Agreement'
  BY <1>0, <1>1 DEF Agreement, Unnumbered, Numbered, Agreed, ConfirmsOnce, Covered, FirstCover,
                    TagsAscend, AcksFind, VerdictIsOwn
<1>2. CASE ConfirmSelect \/ CloseChannel
  <2>1. PICK e \in {Select, Close} : Send(e)
    BY <1>2 DEF ConfirmSelect, CloseChannel
  <2>2. UNCHANGED <<attached, sock, clientVars, toClient, serverVars, skewed>>
    BY <1>2 DEF ConfirmSelect, CloseChannel
  <2>. QED
    BY <1>0, <2>1, <2>2, OtherSent
<1>3. ASSUME NEW p \in Publish, NEW b \in Buffer, BasicPublish(p, b) PROVE Agreement'
  <2>1. ~skewed
    BY <1>3 DEF BasicPublish
  <2>. QED
    BY <1>0, <1>3, <2>1, PublishAgrees
<1>4. ASSUME NEW p \in Publish, Refuse(p) \/ Written(p) \/ WriteFailed(p) PROVE Agreement'
  <2>1. confirm' = confirm
    BY <1>4 DEF Refuse, Written, WriteFailed, WriteDone, Promises
  <2>. QED
    BY <1>1, <1>4, <2>1 DEF Refuse, Written, WriteFailed, WriteDone
<1>5. CASE GotSelectOk
  <2>1. ~skewed
    BY <1>5 DEF GotSelectOk
  <2>. QED
    BY <1>0, <1>5, <2>1, SelectOkAgrees
<1>6. CASE GotConfirm
  <2>1. ~skewed
    BY <1>6 DEF GotConfirm
  <2>. QED
    BY <1>0, <1>6, <2>1, ConfirmAgrees
<1>7. CASE ChannelClosed
  <2>1. /\ SetClosed \/ UNCHANGED <<unconfirmed, confirm>>
        /\ ~attached' /\ (toClient' = toClient \/ (toClient # <<>> /\ toClient' = Tail(toClient)))
        /\ UNCHANGED <<confirmId, tag, toServer, serverSeq, seq, fate, skewed>>
        /\ sock' = "up" => sock = "up"
    BY <1>7 DEF ChannelClosed, Receive
  <2>. QED
    BY <1>0, <2>1, DetachAgrees
<1>8. CASE Take
  <2>1. ~skewed
    BY <1>8 DEF Take
  <2>. QED
    BY <1>0, <1>8, <2>1, TakeAgrees
<1>9. ASSUME NEW p \in Publish, NEW m \in BOOLEAN, NEW v \in {"acked", "nacked"}, Confirm(p, m, v)
      PROVE  Agreement'
  <2>1. ~skewed
    BY <1>9 DEF Confirm
  <2>. QED
    BY <1>0, <1>9, <2>1, BrokerConfirms
<1>10. CASE ServerCloses
  <2>1. /\ ~skewed /\ CloseMethod \in Frame /\ ~IsConfirm(CloseMethod) /\ serverSeq \in Nat
        /\ toClient' = Append(toClient, CloseMethod)
        /\ UNCHANGED <<chanVars, clientVars, selects, toServer, serverVars, skewed>>
    BY <1>0, <1>10, FrameFacts DEF ServerCloses, IsConfirm, CloseMethod, TypeOK
  <2>2. ConfirmsOnce' /\ Covered' /\ AcksFind'
    BY <1>0, <2>1, OtherFrame
  <2>. QED
    BY <1>0, <2>1, <2>2 DEF Agreement, Unnumbered, Numbered, Agreed, TagsAscend, VerdictIsOwn
<1>11. CASE SocketBreaks \/ HeartbeatTimeout
  <2>1. /\ sock' # "up" /\ toServer' = <<>> /\ toClient' = <<>>
        /\ UNCHANGED <<closed, attached, clientVars, serverVars, skewed>>
    BY <1>11 DEF SocketBreaks, HeartbeatTimeout
  <2>2. Elems(toServer') = {} /\ DOMAIN toServer' = {} /\ DOMAIN toClient' = {}
    BY <2>1 DEF Elems
  <2>. QED
    BY <1>0, <2>1, <2>2 DEF Agreement, Unnumbered, Numbered, Agreed, ConfirmsOnce, Covered,
                            TagsAscend, AcksFind, VerdictIsOwn
<1>12. CASE CloseConnection
  BY <1>1, <1>12 DEF CloseConnection
<1>13. CASE ConnectionCloseOk \/ SocketClosed
  <2>1. /\ sock' = "gone"
        /\ UNCHANGED <<confirmId, tag, toServer, toClient, serverSeq, seq, fate, skewed>>
    BY <1>13 DEF ConnectionCloseOk, SocketClosed
  <2>2. CASE UNCHANGED <<attached, unconfirmed, confirm>>
    BY <1>0, <2>1, <2>2
       DEF Agreement, Unnumbered, Numbered, Agreed, ConfirmsOnce, Covered, FirstCover,
           TagsAscend, AcksFind, VerdictIsOwn
  <2>3. CASE ~attached' /\ (SetClosed \/ UNCHANGED <<unconfirmed, confirm>>)
    BY <1>0, <2>1, <2>3, DetachAgrees
  <2>. QED
    BY <1>13, <2>2, <2>3 DEF ConnectionCloseOk, SocketClosed, TellChannel
<1>14. CASE UNCHANGED vars
  BY <1>1, <1>14 DEF vars
<1>. QED
  BY <1>2, <1>3, <1>4, <1>5, <1>6, <1>7, <1>8, <1>9, <1>10, <1>11, <1>12,
     <1>13, <1>14 DEF Next

LEMMA NumberInvariance == Spec => [](TypeInv /\ ListInv /\ NumberInv)
<1>1. Init => TypeInv /\ ListInv /\ NumberInv
  BY InitType, InitList, InitNumber
<1>2. TypeInv /\ ListInv /\ NumberInv /\ [Next]_vars => (TypeInv /\ ListInv /\ NumberInv)'
  BY StepType, StepList, StepNumber
<1>. QED
  BY <1>1, <1>2, PTL DEF Spec

\* unconfirmedPublishes holds exactly the publishes that wait for a confirm; unless the
\* numberings disagree, it is in the order of the tags and has an entry for each ack or nack.
THEOREM ListIsOrderlyHolds == Spec => []ListIsOrderly
<1>1. ListInv /\ NumberInv => ListIsOrderly
  BY DEF ListInv, NumberInv, Agreement, ListIsOrderly, TagsAscend, AcksFind
<1>. QED
  BY <1>1, NumberInvariance, PTL

\* publishConfirmed, however it cuts the list, gives no publish another's ack or nack.
THEOREM VerdictIsOwnHolds == Spec => []VerdictIsOwn
<1>1. NumberInv => VerdictIsOwn
  BY DEF NumberInv, Agreement, VerdictIsOwn
<1>. QED
  BY <1>1, NumberInvariance, PTL

LEMMA RestIsSettled == TypeInv /\ ListInv /\ NumberInv => SettledAtRest
<1> SUFFICES ASSUME TypeInv, ListInv, NumberInv, AtRest, ~skewed,
                    NEW p \in Publish, result[p] = "pending"
             PROVE  p \in Elems(unconfirmed) /\ (closed \/ Untold)
  BY DEF SettledAtRest
<1>1. write[p] # "pending" /\ p \in Elems(unconfirmed)
  BY DEF AtRest, ListInv, Progress, ListIsPending
<1>2. ASSUME ~closed, ~Untold PROVE FALSE
  <2>1. attached /\ sock = "up" /\ toClient = <<>>
    BY <1>2 DEF Untold, AtRest, ListInv, TableOK, TypeInv, TypeOK
  <2>2. DOMAIN toClient = {} /\ Serving
    BY <2>1 DEF Serving, Closing
  <2>3. Elems(toServer) = {} /\ fate[p] # "open"
    BY <2>2 DEF AtRest, Elems
  <2>4. Numbered /\ Agreed /\ Covered /\ TagsAscend
    BY DEF NumberInv, Agreement
  <2>5. fate[p] \notin {"acked", "nacked"}
    BY <1>1, <2>1, <2>2, <2>4 DEF Covered
  <2>6. fate[p] = None
    BY <2>3, <2>5 DEF TypeInv, TypeOK
  <2>7. /\ serverSeq <= tag[p] /\ tag[p] > 0 /\ tag[p] < confirmId
        /\ tag[p] \in Nat /\ serverSeq \in Nat /\ confirmId \in Nat
    BY <1>1, <2>1, <2>4, <2>6 DEF Agreed, TagsAscend, TypeInv, TypeOK
  <2>8. tag[p] \in serverSeq .. confirmId - 1 /\ confirmId > 0
    BY <2>7
  <2>. QED
    BY <2>1, <2>3, <2>4, <2>8 DEF Numbered
<1>. QED
  BY <1>1, <1>2

\* When nothing is under way any more, no publish waits but on a channel closed by close(),
\* or left open by a connection that the client had marked as closed.
THEOREM SettledAtRestHolds == Spec => []SettledAtRest
BY RestIsSettled, NumberInvariance, PTL

=============================================================================
