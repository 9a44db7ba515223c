------------------------- MODULE FrameAssemblyProofs -------------------------
(***************************************************************************)
(* FrameAssembly for any stream, any size of the buffer and any way the    *)
(* network cuts the stream into reads: parseFrames is given the frames.    *)
(*                                                                         *)
(* The argument: the handler is always `framePos` bytes into the frame     *)
(* after the last one it has parsed, and has these bytes in frameBuffer.   *)
(* So where it reads a size, it reads the size of that frame.              *)
(***************************************************************************)
EXTENDS FrameAssembly, Connection, TLAPS

----------------------------------------------------------------------------
(* The stream *)

LEMMA StreamFacts ==
    /\ Len(Start) \in Nat /\ Len(Start) > 1 /\ Capacity \in Nat
    /\ Start[1] = 1
    /\ \A k \in 1 .. Len(Start) : Start[k] \in Nat /\ Start[k] <= Start[Len(Start)]
    /\ \A j, k \in 1 .. Len(Start) : j < k => Start[j] < Start[k]
    /\ Start[Len(Start)] \in Nat /\ 0 \notin Bytes
<1>1. /\ Start \in Seq(Nat) /\ Len(Start) \in Nat /\ Len(Start) > 1 /\ Capacity \in Nat
      /\ Start[1] = 1 /\ DOMAIN Start = 1 .. Len(Start)
  BY StreamAssumption
<1>2. \A k \in 1 .. Len(Start) : Start[k] \in Nat
  BY <1>1
<1>3. \A j, k \in 1 .. Len(Start) : j < k => Start[j] < Start[k]
  BY <1>1, StreamAssumption
<1>4. \A k \in 1 .. Len(Start) : Start[k] <= Start[Len(Start)]
  <2> SUFFICES ASSUME NEW k \in 1 .. Len(Start) PROVE Start[k] <= Start[Len(Start)]
    OBVIOUS
  <2>1. CASE k = Len(Start)
    BY <2>1, <1>2
  <2>2. CASE k < Len(Start)
    <3>1. Len(Start) \in 1 .. Len(Start)
      BY <1>1
    <3>2. Start[k] < Start[Len(Start)] /\ Start[k] \in Nat /\ Start[Len(Start)] \in Nat
      BY <2>2, <3>1, <1>2, <1>3
    <3>. QED
      BY <3>2
  <2>3. k = Len(Start) \/ k < Len(Start)
    <3>1. Len(Start) \in Nat
      BY <1>1
    <3>. QED
      BY <3>1
  <2>. QED
    BY <2>1, <2>2, <2>3
<1>. QED
  BY <1>1, <1>2, <1>3, <1>4 DEF Bytes

LEMMA SizeFacts ==
    ASSUME NEW k \in Frames
    PROVE  /\ k \in 1 .. Len(Start) /\ k + 1 \in 1 .. Len(Start)
           /\ Size(k) \in Nat /\ Size(k) > 7 /\ Size(k) <= Capacity
           /\ Start[k] \in Nat /\ Start[k] >= 1 /\ Start[k + 1] = Start[k] + Size(k)
           /\ Start[k + 1] <= Start[Len(Start)]
<1>1. k \in 1 .. Len(Start) /\ k + 1 \in 1 .. Len(Start)
  BY StreamFacts DEF Frames
<1>2. Start[k] \in Nat /\ Start[k + 1] \in Nat /\ Start[k + 1] <= Start[Len(Start)]
  BY <1>1, StreamFacts
<1>3. Size(k) > 7 /\ Size(k) <= Capacity
  BY StreamAssumption DEF Header
<1>4. Start[k] >= 1
  <2>1. CASE k = 1
    BY <2>1, StreamFacts
  <2>2. CASE k > 1
    BY <2>2, <1>1, <1>2, StreamFacts
  <2>. QED
    BY <1>1, <2>1, <2>2
<1>. QED
  BY <1>1, <1>2, <1>3, <1>4 DEF Size

\* The size field of a frame is read from the frame's own bytes.
LEMMA SizeRead ==
    ASSUME NEW k \in Frames, NEW h, \A i \in 3 .. 6 : h[i] = Start[k] + i
    PROVE  SizeFrom(h) = Size(k)
<1> DEFINE at == {x \in Frames : \A i \in 3 .. 6 : h[i] = Start[x] + i}
<1>1. k \in at
  OBVIOUS
<1>2. ASSUME NEW x \in at PROVE x = k
  <2>1. x \in Frames /\ Start[x] + 3 = Start[k] + 3
    <3>1. 3 \in 3 .. 6
      OBVIOUS
    <3>. QED
      BY <3>1
  <2>2. x \in 1 .. Len(Start) /\ k \in 1 .. Len(Start) /\ Start[x] \in Nat /\ Start[k] \in Nat
    BY <2>1, SizeFacts
  <2>3. Start[x] = Start[k]
    <3>1. \A m, n \in Nat : m + 3 = n + 3 => m = n
      OBVIOUS
    <3>. QED
      BY <2>1, <2>2, <3>1, Zenon
  <2>4. ~(x < k) /\ ~(k < x)
    <3>1. ~(x < k)
      <4> SUFFICES ASSUME x < k PROVE FALSE
        OBVIOUS
      <4>1. Start[x] < Start[k]
        BY <2>2, StreamFacts
      <4>. QED
        BY <2>2, <2>3, <4>1
    <3>2. ~(k < x)
      <4> SUFFICES ASSUME k < x PROVE FALSE
        OBVIOUS
      <4>1. Start[k] < Start[x]
        BY <2>2, StreamFacts
      <4>. QED
        BY <2>2, <2>3, <4>1
    <3>. QED
      BY <3>1, <3>2
  <2>5. x \in Int /\ k \in Int
    BY <2>2, StreamFacts
  <2>. QED
    BY <2>4, <2>5
<1>3. at = {k}
  BY <1>1, <1>2
<1>4. SizeFrom(h) = IF at = {} THEN 8 ELSE LET y == CHOOSE x \in at : TRUE IN Size(y)
  BY DEF SizeFrom
<1>5. (CHOOSE x \in at : TRUE) = k
  BY <1>3
<1> HIDE DEF at
<1>. QED
  BY <1>1, <1>4, <1>5

----------------------------------------------------------------------------
(* The inductive invariant *)

\* the frame after the ones that were parsed
Coming == Len(parsed) + 1

\* What was parsed are the first frames of the stream.
ParsedAreFrames == \A k \in DOMAIN parsed : k \in Frames /\ parsed[k] = View(Start[k], Size(k))
\* The handler is framePos bytes into the coming frame, and has them in frameBuffer.
AtTheFrame ==
    /\ Coming \in DOMAIN Start /\ pos = Start[Coming] + framePos
    /\ \A i \in 0 .. framePos - 1 : frameBuffer[i] = Start[Coming] + i
\* A frame that is begun is not complete, and its size is known after its header.
PartIsPart ==
    /\ framePos # 0 \/ frameSize # 0 => Coming \in Frames
    /\ frameSize = 0 => framePos < Header
    /\ frameSize # 0 => frameSize = Size(Coming) /\ framePos < frameSize
FrameInv == TypeOK /\ ParsedAreFrames /\ AtTheFrame /\ PartIsPart

LEMMA InitFrame == Init => FrameInv
<1> SUFFICES ASSUME Init PROVE FrameInv
  OBVIOUS
<1>1. TypeOK
  <2>1. 0 \in 0 .. Capacity
    BY StreamFacts
  <2>2. parsed \in Seq(Seq(Bytes \cup {0}))
    BY DEF Init
  <2>3. pos \in 1 .. end + 1 /\ end \in Bytes \cup {0}
    BY DEF Init
  <2>. QED
    BY <2>1, <2>2, <2>3 DEF Init, TypeOK
<1>2. parsed = <<>> /\ framePos = 0 /\ frameSize = 0 /\ pos = 1
  BY DEF Init
<1>. QED
  BY <1>1, <1>2, StreamFacts DEF FrameInv, ParsedAreFrames, AtTheFrame, PartIsPart, Coming, Header

LEMMA FrameTyped ==
    ASSUME TypeOK, AtTheFrame
    PROVE  /\ framePos \in Nat /\ framePos <= Capacity /\ frameSize \in Nat /\ end \in Nat /\ pos \in Nat
           /\ pos <= end + 1 /\ pos >= 1 /\ end <= Start[Len(Start)] - 1
           /\ Capacity \in Nat /\ Start[Len(Start)] \in Nat
           /\ Len(parsed) \in Nat /\ Coming \in 1 .. Len(Start) /\ Start[Coming] \in Nat
<1>1. end \in Nat /\ end <= Start[Len(Start)] - 1
  BY StreamFacts DEF TypeOK, Bytes
<1>2. Len(parsed) \in Nat /\ Coming \in 1 .. Len(Start)
  BY StreamFacts DEF TypeOK, AtTheFrame
<1>. QED
  BY <1>1, <1>2, StreamFacts DEF TypeOK

\* While bytes of the read are left, a frame is coming.
LEMMA BusyComes ==
    ASSUME FrameInv, Busy
    PROVE  Coming \in Frames /\ Left \in Nat /\ Left > 0
<1>1. pos <= end /\ pos = Start[Coming] + framePos
  BY DEF Busy, FrameInv, AtTheFrame
<1>2. Coming # Len(Start)
  BY <1>1, FrameTyped DEF FrameInv
<1>3. Coming \in 1 .. Len(Start) /\ Len(Start) \in Nat
  BY FrameTyped, StreamFacts DEF FrameInv
<1>4. Coming \in 1 .. Len(Start) - 1
  BY <1>2, <1>3
<1>5. end \in Nat /\ pos \in Nat
  BY FrameTyped DEF FrameInv
<1>. QED
  BY <1>1, <1>4, <1>5 DEF Frames, Left

\* Copying the next n bytes of the frame behind the ones that are there.
LEMMA FilledHolds ==
    ASSUME FrameInv, NEW n \in Nat, n <= Left, framePos + n <= Capacity
    PROVE  /\ Filled(n) \in [Places -> Bytes \cup {0}]
           /\ \A i \in 0 .. framePos + n - 1 : Filled(n)[i] = Start[Coming] + i
           /\ pos + n = Start[Coming] + (framePos + n)
           /\ pos + n \in 1 .. end + 1
<1>1. /\ framePos \in Nat /\ pos \in Nat /\ pos >= 1 /\ end \in Nat /\ end <= Start[Len(Start)] - 1
      /\ Start[Coming] \in Nat /\ Capacity \in Nat /\ Start[Len(Start)] \in Nat
  BY FrameTyped DEF FrameInv
<1>2. /\ pos = Start[Coming] + framePos
      /\ \A i \in 0 .. framePos - 1 : frameBuffer[i] = Start[Coming] + i
      /\ frameBuffer \in [Places -> Bytes \cup {0}]
  BY DEF FrameInv, AtTheFrame, TypeOK
<1>3. n <= end - pos + 1
  BY DEF Left
<1>4. ASSUME NEW i \in Places PROVE Filled(n)[i] \in Bytes \cup {0}
  <2>1. CASE i \in framePos .. framePos + n - 1
    <3>1. Filled(n)[i] = pos + i - framePos
      BY <2>1 DEF Filled
    <3>2. pos + i - framePos \in 1 .. end
      BY <1>1, <1>3, <2>1 DEF Places
    <3>. QED
      BY <1>1, <3>1, <3>2 DEF Bytes
  <2>2. CASE i \notin framePos .. framePos + n - 1
    BY <1>2, <2>2 DEF Filled
  <2>. QED
    BY <2>1, <2>2
<1>5. Filled(n) \in [Places -> Bytes \cup {0}]
  BY <1>4 DEF Filled
<1>6. ASSUME NEW i \in 0 .. framePos + n - 1 PROVE Filled(n)[i] = Start[Coming] + i
  <2>1. i \in Places
    BY <1>1 DEF Places
  <2>2. CASE i \in framePos .. framePos + n - 1
    <3>1. Filled(n)[i] = pos + i - framePos
      BY <2>1, <2>2 DEF Filled
    <3>. QED
      BY <1>1, <1>2, <2>2, <3>1
  <2>3. CASE i \notin framePos .. framePos + n - 1
    <3>1. Filled(n)[i] = frameBuffer[i]
      BY <2>1, <2>3 DEF Filled
    <3>2. i \in 0 .. framePos - 1
      BY <1>1, <2>3
    <3>. QED
      BY <1>2, <3>1, <3>2
  <2>. QED
    BY <2>2, <2>3
<1>7. pos + n = Start[Coming] + (framePos + n)
  BY <1>1, <1>2
<1>8. pos + n \in 1 .. end + 1
  BY <1>1, <1>3
<1>. QED
  BY <1>5, <1>6, <1>7, <1>8

----------------------------------------------------------------------------
(* Steps *)

\* Bytes of the coming frame go to frameBuffer, but not its last.
LEMMA PartStep ==
    ASSUME FrameInv, Busy, NEW n \in Nat, n > 0, n <= Left,
           frameBuffer' = Filled(n), framePos' = framePos + n, pos' = pos + n,
           UNCHANGED <<transport, end, parsed, threw>>,
           \/ frameSize' = 0 /\ framePos + n < Header
           \/ frameSize' = Size(Coming) /\ framePos + n < frameSize'
    PROVE  FrameInv'
<1>1. /\ Coming \in Frames /\ Size(Coming) \in Nat /\ Size(Coming) <= Capacity /\ Size(Coming) > 7
      /\ Capacity \in Nat
  BY BusyComes, SizeFacts, StreamFacts
<1>2. framePos \in Nat /\ framePos + n <= Capacity
  <2>1. framePos \in Nat
    BY FrameTyped DEF FrameInv
  <2>. QED
    BY <1>1, <2>1 DEF Header
<1>3. Coming' = Coming
  BY DEF Coming
<1>4. ParsedAreFrames'
  BY DEF FrameInv, ParsedAreFrames
<1>5. AtTheFrame'
  BY <1>2, <1>3, FilledHolds DEF FrameInv, AtTheFrame
<1>6. PartIsPart'
  BY <1>1, <1>2, <1>3 DEF PartIsPart, Header
<1>7. frameBuffer' \in [Places -> Bytes \cup {0}] /\ pos' \in 1 .. end' + 1
  BY <1>2, FilledHolds
<1>8. framePos' \in 0 .. Capacity /\ frameSize' \in 0 .. Capacity
  BY <1>1, <1>2
<1>9. TypeOK'
  BY <1>7, <1>8 DEF FrameInv, TypeOK
<1>. QED
  BY <1>4, <1>5, <1>6, <1>9 DEF FrameInv

\* The coming frame is given to parseFrames, and the next one comes.
LEMMA ParseStep ==
    ASSUME FrameInv, Busy, Start[Coming + 1] <= end + 1,
           parsed' = Append(parsed, View(Start[Coming], Size(Coming))),
           pos' = Start[Coming + 1], framePos' = 0, frameSize' = 0,
           frameBuffer' \in [Places -> Bytes \cup {0}], UNCHANGED <<transport, end, threw>>
    PROVE  FrameInv'
<1>1. /\ Coming \in Frames /\ Coming \in 1 .. Len(Start) /\ Coming + 1 \in 1 .. Len(Start)
      /\ Size(Coming) \in Nat /\ Start[Coming] \in Nat /\ Start[Coming] >= 1
      /\ Start[Coming + 1] = Start[Coming] + Size(Coming)
      /\ Start[Coming + 1] <= Start[Len(Start)]
  BY BusyComes, SizeFacts
<1>2. parsed \in Seq(Seq(Bytes \cup {0})) /\ Len(parsed) \in Nat /\ end \in Nat
  BY FrameTyped DEF FrameInv, TypeOK
<1>3. View(Start[Coming], Size(Coming)) \in Seq(Bytes \cup {0})
  <2>1. ASSUME NEW i \in 1 .. Size(Coming) PROVE Start[Coming] + i - 1 \in Bytes
    <3> DEFINE a == Start[Coming]
               size == Size(Coming)
               e == Start[Len(Start)]
    <3>1. a \in Nat /\ size \in Nat /\ e \in Nat /\ a >= 1 /\ a + size <= e
      BY <1>1, StreamFacts
    <3>2. i \in 1 .. size
      OBVIOUS
    <3> HIDE DEF a, size, e
    <3>3. a + i - 1 \in 1 .. e - 1
      BY <3>1, <3>2
    <3>. QED
      BY <3>3 DEF Bytes, a, e
  <2>2. View(Start[Coming], Size(Coming)) \in [1 .. Size(Coming) -> Bytes \cup {0}]
    BY <2>1 DEF View
  <2>. QED
    BY <1>1, <2>2
<1>4. parsed' \in Seq(Seq(Bytes \cup {0})) /\ Len(parsed') = Len(parsed) + 1
  BY <1>2, <1>3
<1>5. Coming' = Coming + 1
  BY <1>4 DEF Coming
<1>6. ASSUME NEW k \in DOMAIN parsed' PROVE k \in Frames /\ parsed'[k] = View(Start[k], Size(k))
  <2>1. CASE k = Coming
    <3>1. parsed'[k] = View(Start[Coming], Size(Coming))
      BY <1>2, <1>3, <2>1 DEF Coming
    <3>. QED
      BY <1>1, <2>1, <3>1
  <2>2. CASE k # Coming
    <3>1. k \in DOMAIN parsed /\ parsed'[k] = parsed[k]
      BY <1>2, <1>3, <1>4, <2>2 DEF Coming
    <3>. QED
      BY <3>1 DEF FrameInv, ParsedAreFrames
  <2>. QED
    BY <2>1, <2>2
<1>7. ParsedAreFrames'
  BY <1>6 DEF ParsedAreFrames
<1>8. AtTheFrame'
  BY <1>1, <1>5, StreamFacts DEF AtTheFrame
<1>9. PartIsPart'
  BY DEF PartIsPart, Header
<1>10. pos' \in 1 .. end' + 1
  BY <1>1, <1>2
<1>11. TypeOK'
  BY <1>4, <1>10, StreamFacts DEF FrameInv, TypeOK
<1>. QED
  BY <1>7, <1>8, <1>9, <1>11 DEF FrameInv

LEMMA StepFrame == FrameInv /\ [Next]_vars => FrameInv'
<1> SUFFICES ASSUME FrameInv, [Next]_vars PROVE FrameInv'
  OBVIOUS
<1> USE DEF Smaller
<1>0. ASSUME UNCHANGED <<transport, frameBuffer, framePos, frameSize, parsed>>, pos' = pos,
             end' \in Bytes \cup {0}, pos' \in 1 .. end' + 1, threw' \in BOOLEAN
      PROVE  FrameInv'
  BY <1>0 DEF FrameInv, TypeOK, ParsedAreFrames, AtTheFrame, PartIsPart, Coming
<1>1. ASSUME NEW last \in Bytes, Read(last) PROVE FrameInv'
  <2>1. pos \in 1 .. last + 1
    BY <1>1, FrameTyped DEF Read, FrameInv, Bytes
  <2>. QED
    BY <1>0, <1>1, <2>1 DEF Read, FrameInv, TypeOK
<1>2. CASE Connect
  <2>1. TypeOK'
    <3>1. 0 \in 0 .. Capacity
      BY StreamFacts
    <3>2. parsed' \in Seq(Seq(Bytes \cup {0}))
      BY <1>2 DEF Connect
    <3>3. pos' \in 1 .. end' + 1 /\ end' \in Bytes \cup {0}
      BY <1>2 DEF Connect
    <3>. QED
      BY <1>2, <3>1, <3>2, <3>3 DEF Connect, FrameInv, TypeOK
  <2>. QED
    BY <1>2, <2>1, StreamFacts DEF Connect, FrameInv, ParsedAreFrames, AtTheFrame, PartIsPart, Coming,
                                   Header
<1>3. ASSUME Busy, frameSize = 0, framePos # 0, NEW n \in Nat, n > 0, n <= Left,
             framePos + n <= Header, Copy(n), UNCHANGED <<transport, end, parsed, threw>>,
             frameSize' = IF framePos + n = Header THEN SizeFrom(Filled(n)) ELSE 0
      PROVE  FrameInv'
  <2>1. /\ Coming \in Frames /\ Size(Coming) \in Nat /\ Size(Coming) <= Capacity
        /\ Size(Coming) > 7 /\ Capacity \in Nat /\ framePos \in Nat
    BY <1>3, BusyComes, SizeFacts, FrameTyped DEF FrameInv
  <2>2. CASE framePos + n = Header
    <3>1. framePos + n <= Capacity
      BY <2>1, <2>2 DEF Header
    <3>2. \A i \in 3 .. 6 : Filled(n)[i] = Start[Coming] + i
      <4>1. \A i \in 0 .. framePos + n - 1 : Filled(n)[i] = Start[Coming] + i
        BY <1>3, <3>1, FilledHolds
      <4>2. \A i \in 3 .. 6 : i \in 0 .. framePos + n - 1
        BY <2>1, <2>2 DEF Header
      <4>. QED
        BY <4>1, <4>2
    <3>3. frameSize' = Size(Coming)
      BY <1>3, <2>1, <2>2, <3>2, SizeRead
    <3>4. framePos + n < frameSize'
      BY <2>1, <2>2, <3>3 DEF Header
    <3>. QED
      BY <1>3, <3>3, <3>4, PartStep DEF Copy
  <2>3. CASE framePos + n # Header
    <3>1. frameSize' = 0 /\ framePos + n < Header
      BY <1>3, <2>1, <2>3 DEF Header
    <3>. QED
      BY <1>3, <3>1, PartStep DEF Copy
  <2>. QED
    BY <2>2, <2>3
<1>4. CASE MoreHeader
  <2> DEFINE n == Smaller(Header - framePos, Left)
  <2>1. /\ Busy /\ frameSize = 0 /\ framePos # 0 /\ Copy(n)
        /\ frameSize' = IF framePos + n >= Header THEN SizeFrom(Filled(n)) ELSE 0
        /\ UNCHANGED <<transport, end, parsed, threw>>
    BY <1>4 DEF MoreHeader, HeaderComplete
  <2>2. framePos \in Nat /\ framePos < Header /\ Left \in Nat /\ Left > 0
    BY <2>1, BusyComes, FrameTyped DEF FrameInv, PartIsPart
  <2>3. n \in Nat /\ n > 0 /\ n <= Left /\ framePos + n <= Header
    BY <2>2 DEF Header
  <2>4. framePos + n >= Header <=> framePos + n = Header
    BY <2>2, <2>3 DEF Header
  <2> HIDE DEF n
  <2>. QED
    BY <1>3, <2>1, <2>3, <2>4
<1>5. CASE RestOfHeader
  <2> DEFINE n == Header - framePos
  <2>1. /\ Busy /\ frameSize = 0 /\ framePos # 0 /\ n <= Left /\ Copy(n)
        /\ frameSize' = SizeFrom(Filled(n)) /\ UNCHANGED <<transport, end, parsed, threw>>
    BY <1>5 DEF RestOfHeader
  <2>2. framePos \in Nat /\ framePos < Header
    BY <2>1, FrameTyped DEF FrameInv, PartIsPart
  <2>3. n \in Nat /\ n > 0 /\ framePos + n = Header /\ framePos + n <= Header
    BY <2>2 DEF Header
  <2> HIDE DEF n
  <2>. QED
    BY <1>3, <2>1, <2>3
<1>6. CASE RestOfHeaderMissing
  BY <1>0, <1>6 DEF RestOfHeaderMissing, FrameInv, TypeOK
<1>7. CASE SplitHeader
  <2>1. Left \in Nat /\ Left > 0
    BY <1>7, BusyComes DEF SplitHeader
  <2>. QED
    BY <1>7, <2>1, PartStep DEF SplitHeader, Copy
<1>8. ASSUME Busy, framePos = 0, Left >= Header
      PROVE  SizeFrom([i \in 3 .. 6 |-> pos + i]) = Size(Coming)
  <2>1. pos = Start[Coming] + framePos /\ Start[Coming] \in Nat
    BY FrameTyped DEF FrameInv, AtTheFrame
  <2>2. pos = Start[Coming]
    BY <1>8, <2>1
  <2>. QED
    BY <1>8, <2>2, BusyComes, SizeRead
<1>9. CASE WholeFrame
  <2>1. /\ Busy /\ frameSize = 0 /\ framePos = 0 /\ Left >= Header /\ Left >= Size(Coming)
        /\ parsed' = Append(parsed, View(pos, Size(Coming)))
        /\ pos' = pos + Size(Coming) /\ frameSize' = 0
        /\ UNCHANGED <<transport, frameBuffer, framePos, end, threw>>
    BY <1>8, <1>9 DEF WholeFrame, NextFrame
  <2>2. /\ pos = Start[Coming] /\ Start[Coming + 1] = Start[Coming] + Size(Coming)
        /\ Start[Coming] \in Nat /\ Size(Coming) \in Nat /\ end \in Nat
    BY <2>1, FrameTyped, BusyComes, SizeFacts DEF FrameInv, AtTheFrame
  <2>3. Start[Coming + 1] <= end + 1
    BY <2>1, <2>2 DEF Left
  <2>4. frameBuffer' \in [Places -> Bytes \cup {0}] /\ framePos' = 0
    BY <2>1 DEF FrameInv, TypeOK
  <2>. QED
    BY <2>1, <2>2, <2>3, <2>4, ParseStep
<1>10. CASE StartFrame
  <2>1. /\ Busy /\ frameSize = 0 /\ framePos = 0 /\ frameSize' = Size(Coming)
        /\ UNCHANGED <<transport, frameBuffer, framePos, pos, end, parsed, threw>>
    BY <1>8, <1>10 DEF StartFrame
  <2>2. Coming \in Frames /\ Size(Coming) \in 0 .. Capacity /\ Size(Coming) > 0
    BY <2>1, BusyComes, SizeFacts, StreamFacts
  <2>3. TypeOK'
    BY <2>1, <2>2 DEF FrameInv, TypeOK
  <2>4. PartIsPart'
    BY <2>1, <2>2 DEF PartIsPart, Coming
  <2>. QED
    BY <2>1, <2>3, <2>4 DEF FrameInv, ParsedAreFrames, AtTheFrame, Coming
<1>11. CASE Fill
  <2> DEFINE n == Smaller(Smaller(frameSize - framePos, Left), Capacity - framePos)
  <2>1. /\ Busy /\ frameSize # 0 /\ UNCHANGED <<transport, end, threw>>
        /\ \/ framePos + n < frameSize /\ Copy(n) /\ UNCHANGED <<frameSize, parsed>>
           \/ /\ framePos + n = frameSize /\ frameBuffer' = Filled(n) /\ pos' = pos + n
              /\ parsed' = Append(parsed, [i \in 1 .. frameSize |-> Filled(n)[i - 1]])
              /\ frameSize' = 0 /\ framePos' = 0
    BY <1>11 DEF Fill, FrameDone
  <2>2. /\ framePos \in Nat /\ frameSize = Size(Coming) /\ framePos < frameSize
        /\ Left \in Nat /\ Left > 0 /\ Coming \in Frames
    BY <2>1, BusyComes, FrameTyped DEF FrameInv, PartIsPart
  <2>3. frameSize \in Nat /\ frameSize <= Capacity /\ Capacity \in Nat
    BY <2>2, SizeFacts, StreamFacts
  <2>4. n \in Nat /\ n > 0 /\ n <= Left /\ framePos + n <= Capacity
    BY <2>2, <2>3
  <2> HIDE DEF n
  <2>5. CASE framePos + n < frameSize
    <3>1. Copy(n) /\ frameSize' = frameSize /\ parsed' = parsed
      BY <2>1, <2>2, <2>4, <2>5
    <3>. QED
      BY <2>1, <2>2, <2>4, <2>5, <3>1, PartStep DEF Copy
  <2>6. CASE framePos + n = frameSize
    <3>1. /\ frameBuffer' = Filled(n) /\ pos' = pos + n /\ frameSize' = 0 /\ framePos' = 0
          /\ parsed' = Append(parsed, [i \in 1 .. frameSize |-> Filled(n)[i - 1]])
      BY <2>1, <2>2, <2>4, <2>6
    <3>2. \A i \in 1 .. frameSize : Filled(n)[i - 1] = Start[Coming] + i - 1
      <4> SUFFICES ASSUME NEW i \in 1 .. frameSize PROVE Filled(n)[i - 1] = Start[Coming] + i - 1
        OBVIOUS
      <4>1. i - 1 \in 0 .. framePos + n - 1
        BY <2>2, <2>3, <2>4, <2>6
      <4>2. Filled(n)[i - 1] = Start[Coming] + (i - 1)
        BY <2>4, <4>1, FilledHolds
      <4>. QED
        BY <4>2, FrameTyped DEF FrameInv
    <3>3. [i \in 1 .. frameSize |-> Filled(n)[i - 1]] = View(Start[Coming], Size(Coming))
      BY <2>2, <3>2 DEF View
    <3>4. /\ frameBuffer' \in [Places -> Bytes \cup {0}]
          /\ pos' = Start[Coming] + frameSize /\ pos' <= end + 1
      BY <2>4, <2>6, <3>1, FilledHolds
    <3>5. pos' = Start[Coming + 1]
      BY <2>2, <3>4, SizeFacts
    <3>. QED
      BY <2>1, <3>1, <3>3, <3>4, <3>5, ParseStep
  <2>. QED
    BY <2>1, <2>5, <2>6
<1>12. CASE UNCHANGED vars
  BY <1>0, <1>12 DEF vars, FrameInv, TypeOK
<1>. QED
  BY <1>1, <1>2, <1>4, <1>5, <1>6, <1>7, <1>9, <1>10, <1>11, <1>12 DEF Next, Handle

----------------------------------------------------------------------------
(* Theorems *)

\* The places and sizes onRead and handleMessage compute are within frameBuffer and the
\* read: nothing is copied past the end of the buffer.
THEOREM TypeCorrect == Spec => []TypeOK
<1>1. FrameInv => TypeOK
  BY DEF FrameInv
<1>. QED
  BY <1>1, InitFrame, StepFrame, PTL DEF Spec

\* A frame whose end the handler has passed is one of the parsed ones.
LEMMA PassedIsParsed ==
    ASSUME FrameInv, NEW k \in Frames, Start[k + 1] <= pos
    PROVE  k \in DOMAIN parsed
<1>1. /\ pos = Start[Coming] + framePos /\ framePos \in Nat /\ Coming \in 1 .. Len(Start)
      /\ Start[Coming] \in Nat /\ Len(parsed) \in Nat
  BY FrameTyped DEF FrameInv, AtTheFrame
<1>2. k + 1 \in 1 .. Len(Start) /\ k \in Nat /\ Start[k + 1] \in Nat
  BY SizeFacts, StreamFacts DEF Frames
<1>3. k < Coming
  <2>1. CASE Coming \in Frames
    <3>1. framePos < Size(Coming) /\ Size(Coming) \in Nat /\ Start[Coming + 1] = Start[Coming] + Size(Coming)
          /\ Coming + 1 \in 1 .. Len(Start)
      BY <1>1, <2>1, SizeFacts DEF FrameInv, PartIsPart, Header
    <3>2. Start[k + 1] < Start[Coming + 1]
      BY <1>1, <1>2, <3>1, SMTT(30)
    <3>3. \A j \in 1 .. Len(Start) : Start[j] \in Nat
      BY StreamFacts
    <3>4. ~(Coming + 1 < k + 1) /\ ~(Coming + 1 = k + 1)
      BY <1>2, <3>1, <3>2, <3>3, StreamFacts
    <3>. QED
      BY <1>1, <1>2, <3>4
  <2>2. CASE Coming \notin Frames
    <3>1. Coming = Len(Start)
      BY <1>1, <2>2, StreamFacts DEF Frames
    <3>. QED
      BY <3>1, StreamFacts DEF Frames
  <2>. QED
    BY <2>1, <2>2
<1>4. k \in 1 .. Len(parsed)
  BY <1>1, <1>2, <1>3 DEF Coming, Frames
<1>. QED
  BY <1>4 DEF FrameInv, TypeOK

\* However the network cuts the stream into reads, onRead and handleMessage give parseFrames
\* the frames of the stream, whole, in order and each once, and none that has arrived is
\* left behind when a read has been handled.
THEOREM FramesInOrderHolds == Spec => []FramesInOrder
<1>1. FrameInv => FramesInOrder
  BY PassedIsParsed DEF FramesInOrder, FrameInv, ParsedAreFrames
<1>. QED
  BY <1>1, InitFrame, StepFrame, PTL DEF Spec

----------------------------------------------------------------------------
(***************************************************************************)
(* The socket the stream comes from: Sockets, for any number of attempts.  *)
(* It is instantiated beside FrameAssembly; the two speak of one client    *)
(* and share its `transport`.                                              *)
(***************************************************************************)
VARIABLES attempts, connectPromise, armed, confused, closeCall, secretCall, cutShort

S == INSTANCE Sockets

USE SocketsAssumption

(* Types *)

\* connect was not called yet.
LEMMA SocketsInitType ==
    ASSUME S!Init
    PROVE  S!TypeOK
<1>1. /\ attempts \in 0 .. MaxSocket /\ transport \in {"tcp", "ws"} /\ closed \in BOOLEAN
      /\ socket \in S!Socket \cup {None} /\ connectPromise \in S!Socket \cup {None}
  BY DEF S!Init, S!Socket
<1>2. promise \in [S!Socket -> {"none", "pending", "resolved", "rejected"}]
  BY DEF S!Init
<1>3. life \in [S!Socket -> S!Life] /\ phase \in [S!Socket -> S!Phase]
  BY DEF S!Init, S!Life, S!Phase
<1>. QED
  BY <1>1, <1>2, <1>3 DEF S!Init, S!TypeOK

\* closeSocket, and the calls the connection ends under
LEMMA EndedType ==
    ASSUME S!TypeOK
    PROVE  S!Ended \in [S!Socket -> S!Life]
  BY DEF S!TypeOK, S!Ended, S!Life

\* A call stays what it is, or is rejected.
LEMMA LeftType ==
    ASSUME NEW call \in {"none", "awaiting", "resolved", "rejected"}
    PROVE  S!Left(call) \subseteq {"none", "awaiting", "resolved", "rejected"}
  BY DEF S!Left

\* closeCall and secretCall stay promises when the connection ends under them.
LEMMA CutType ==
    ASSUME S!TypeOK
    PROVE  /\ S!Left(closeCall) \subseteq {"none", "awaiting", "resolved", "rejected"}
           /\ S!Left(secretCall) \subseteq {"none", "awaiting", "resolved", "rejected"}
           /\ S!CutShort => cutShort' \in BOOLEAN
           /\ S!Cut => /\ closeCall' \in {"none", "awaiting", "resolved", "rejected"}
                       /\ secretCall' \in {"none", "awaiting", "resolved", "rejected"}
                       /\ cutShort' \in BOOLEAN
<1>1. /\ closeCall \in {"none", "awaiting", "resolved", "rejected"}
      /\ secretCall \in {"none", "awaiting", "resolved", "rejected"}
  BY DEF S!TypeOK
<1>2. /\ S!Left(closeCall) \subseteq {"none", "awaiting", "resolved", "rejected"}
      /\ S!Left(secretCall) \subseteq {"none", "awaiting", "resolved", "rejected"}
  BY <1>1, LeftType
<1>3. S!CutShort => cutShort' \in BOOLEAN
  BY DEF S!CutShort, S!TypeOK
<1>. QED
  BY <1>2, <1>3 DEF S!Cut

\* As long as no given-up socket has had its say, who speaks is the client's or the last.
LEMMA HandleType ==
    ASSUME S!TypeOK, NEW s \in S!Socket, S!Handle(s)
    PROVE  /\ meddled' \in BOOLEAN
           /\ ~meddled' => ~meddled /\ s \notin abandoned /\ socket \in {s, None}
  BY DEF S!TypeOK, S!Handle

\* The reply is written on the socket the client has, whichever that is.
LEMMA ReplyType ==
    ASSUME S!TypeOK, NEW s \in S!Socket, NEW next \in S!Phase, S!Reply(s, next)
    PROVE  phase' \in [S!Socket -> S!Phase] /\ confused' \in SUBSET S!Socket
<1>1. phase' \in [S!Socket -> S!Phase]
  BY DEF S!TypeOK, S!Reply, S!Phase
<1>2. confused' \subseteq S!Socket
  BY DEF S!TypeOK, S!Reply
<1>. QED
  BY <1>1, <1>2

\* Every step keeps the types.
LEMMA SocketsTypeStep ==
    ASSUME S!TypeOK, S!Next
    PROVE  S!TypeOK'
<1>. DEFINE Calling == {"none", "awaiting", "resolved", "rejected"}
            Promise == {"none", "pending", "resolved", "rejected"}
<1>0. /\ transport \in {"tcp", "ws"} /\ attempts \in 0 .. MaxSocket
      /\ socket \in S!Socket \cup {None} /\ closed \in BOOLEAN
      /\ connectPromise \in S!Socket \cup {None}
      /\ promise \in [S!Socket -> Promise]
      /\ armed \in SUBSET S!Socket /\ life \in [S!Socket -> S!Life] /\ phase \in [S!Socket -> S!Phase]
      /\ confused \in SUBSET S!Socket /\ abandoned \in SUBSET S!Socket
      /\ closeCall \in Calling /\ secretCall \in Calling
      /\ meddled \in BOOLEAN /\ cutShort \in BOOLEAN
  BY DEF S!TypeOK
<1>s. \A s \in S!Socket : \A how \in Promise : S!Settled(promise, s, how) \in [S!Socket -> Promise]
  BY <1>0 DEF S!Settled
<1>l. \A s \in S!Socket : \A l \in S!Life : [life EXCEPT ![s] = l] \in [S!Socket -> S!Life]
  BY <1>0
<1>p. \A s \in S!Socket : \A l \in S!Phase : [phase EXCEPT ![s] = l] \in [S!Socket -> S!Phase]
  BY <1>0
<1>1. ASSUME S!Connect PROVE S!TypeOK'
  <2>1. attempts + 1 \in S!Socket /\ attempts + 1 \in 0 .. MaxSocket
    BY <1>0, <1>1 DEF S!Connect, S!Socket
  <2>2. promise' \in [S!Socket -> Promise] /\ life' \in [S!Socket -> S!Life]
    BY <2>1, <1>0, <1>1, <1>l DEF S!Connect, S!Life
  <2>. QED
    BY <2>1, <2>2, <1>0, <1>1 DEF S!Connect, S!calls, S!history, S!TypeOK
<1>2. ASSUME S!Close PROVE S!TypeOK'
  BY <1>0, <1>2 DEF S!Close, S!net, S!history, S!TypeOK
<1>3. ASSUME S!UpdateSecret PROVE S!TypeOK'
  BY <1>0, <1>3 DEF S!UpdateSecret, S!client, S!net, S!history, S!TypeOK
<1>4. ASSUME S!TimesOut PROVE S!TypeOK'
  <2> PICK s \in S!Socket : S!ConnectTimesOut(s)
    BY <1>4 DEF S!TimesOut
  <2>1. promise' \in [S!Socket -> Promise] /\ abandoned' \in SUBSET S!Socket
    BY <1>0, <1>s DEF S!ConnectTimesOut, S!GivenUp
  <2>. QED
    BY <2>1, <1>0 DEF S!ConnectTimesOut, S!net, S!calls, S!TypeOK
<1>5. ASSUME NEW s \in S!Socket, S!Events(s) PROVE S!TypeOK'
  <2>1. CASE S!Dialed(s)
    <3>1. phase' \in [S!Socket -> S!Phase] /\ confused' \in SUBSET S!Socket
      BY <2>1, <1>0, <1>p, ReplyType DEF S!Dialed, S!Phase
    <3>2. life' \in [S!Socket -> S!Life]
      BY <2>1, <1>l DEF S!Dialed, S!Life
    <3>. QED
      BY <2>1, <3>1, <3>2, <1>0, HandleType DEF S!Dialed, S!client, S!calls, S!TypeOK
  <2>2. CASE S!DialFails(s)
    <3>1. life' \in [S!Socket -> S!Life] /\ promise' \in [S!Socket -> Promise]
      BY <2>2, <1>l, <1>s DEF S!DialFails, S!Life
    <3>. QED
      BY <2>2, <3>1, <1>0 DEF S!DialFails, S!calls, S!history, S!TypeOK
  <2>3. CASE S!GotStart(s)
    <3>1. phase' \in [S!Socket -> S!Phase] /\ confused' \in SUBSET S!Socket
      BY <2>3, ReplyType DEF S!GotStart, S!Phase
    <3>. QED
      BY <2>3, <3>1, <1>0, HandleType DEF S!GotStart, S!client, S!calls, S!TypeOK
  <2>4. CASE S!GotTune(s)
    <3>1. phase' \in [S!Socket -> S!Phase] /\ confused' \in SUBSET S!Socket
      BY <2>4, ReplyType DEF S!GotTune, S!Phase
    <3>. QED
      BY <2>4, <3>1, <1>0, HandleType DEF S!GotTune, S!client, S!calls, S!TypeOK
  <2>5. CASE S!GotOpenOk(s)
    <3>1. phase' \in [S!Socket -> S!Phase]
      BY <2>5, <1>p DEF S!GotOpenOk, S!Phase
    <3>2. promise' \in [S!Socket -> Promise] /\ armed' \in SUBSET S!Socket
      BY <2>5, <1>0, <1>s DEF S!GotOpenOk
    <3>. QED
      BY <2>5, <3>1, <3>2, <1>0, HandleType DEF S!GotOpenOk, S!calls, S!TypeOK
  <2>6. CASE S!GotClose(s)
    <3>1. promise' \in [S!Socket -> Promise]
      BY <2>6, <1>0, <1>s DEF S!GotClose
    <3>2. life' \in [S!Socket -> S!Life] /\ closed' \in BOOLEAN /\ socket' \in S!Socket \cup {None}
      BY <2>6, EndedType DEF S!GotClose, S!CloseSocket, S!ClosedNow
    <3>3. closeCall' \in Calling /\ cutShort' \in BOOLEAN
      BY <2>6, CutType DEF S!GotClose
    <3>4. secretCall' \in Calling
      BY <2>6, CutType, <1>0 DEF S!GotClose
    <3>. QED
      BY <2>6, <3>1, <3>2, <3>3, <3>4, <1>0, HandleType DEF S!GotClose, S!TypeOK
  <2>7. CASE S!PeerEnds(s)
    <3>1. life' \in [S!Socket -> S!Life] /\ promise' \in [S!Socket -> Promise]
      BY <2>7, <1>0, <1>l, <1>s DEF S!PeerEnds, S!Life
    <3>. QED
      BY <2>7, <3>1, <1>0 DEF S!PeerEnds, S!calls, S!history, S!TypeOK
  <2>8. CASE S!WebSocketFails(s)
    <3>1. life' \in [S!Socket -> S!Life] /\ promise' \in [S!Socket -> Promise]
      BY <2>8, <1>0, <1>l, <1>s DEF S!WebSocketFails, S!Life
    <3>2. /\ closeCall' \in Calling /\ secretCall' \in Calling /\ cutShort' \in BOOLEAN
          /\ closed' \in BOOLEAN /\ socket' \in S!Socket \cup {None}
      BY <2>8, <1>0, CutType DEF S!WebSocketFails, S!calls
    <3>. QED
      BY <2>8, <3>1, <3>2, <1>0, HandleType DEF S!WebSocketFails, S!TypeOK
  <2>9. CASE S!SocketClosed(s)
    <3>1. life' \in [S!Socket -> S!Life] /\ promise' \in [S!Socket -> Promise]
      BY <2>9, <1>0, <1>l, <1>s DEF S!SocketClosed, S!Life
    <3>. QED
      BY <2>9, <3>1, <1>0, HandleType, CutType DEF S!SocketClosed, S!TypeOK
  <2>10. CASE S!HeartbeatTimesOut(s)
    <3>1. life' \in [S!Socket -> S!Life] /\ closed' \in BOOLEAN /\ socket' \in S!Socket \cup {None}
      BY <2>10, EndedType DEF S!HeartbeatTimesOut, S!CloseSocket, S!ClosedNow
    <3>. QED
      BY <2>10, <3>1, <1>0, HandleType, CutType DEF S!HeartbeatTimesOut, S!TypeOK
  <2>. QED
    BY <1>5, <2>1, <2>2, <2>3, <2>4, <2>5, <2>6, <2>7, <2>8, <2>9, <2>10 DEF S!Events
<1>6. ASSUME NEW s \in S!Socket, S!Answers(s) PROVE S!TypeOK'
  <2>1. CASE S!GotCloseOk(s)
    <3>1. life' \in [S!Socket -> S!Life] /\ closed' \in BOOLEAN /\ socket' \in S!Socket \cup {None}
      BY <2>1, EndedType DEF S!GotCloseOk, S!CloseSocket, S!ClosedNow
    <3>2. secretCall' \in Calling /\ closeCall' \in Calling /\ cutShort' \in BOOLEAN
      BY <2>1, <1>0, CutType DEF S!GotCloseOk
    <3>. QED
      BY <2>1, <3>1, <3>2, <1>0 DEF S!GotCloseOk, S!TypeOK
  <2>2. CASE S!GotUpdateSecretOk(s)
    BY <2>2, <1>0 DEF S!GotUpdateSecretOk, S!client, S!net, S!history, S!TypeOK
  <2>. QED
    BY <1>6, <2>1, <2>2 DEF S!Answers
<1>. QED
  BY <1>1, <1>2, <1>3, <1>4, <1>5, <1>6 DEF S!Next

----------------------------------------------------------------------------
(* The inductive invariant, which holds until a socket that was given up has its say *)

\* The client's socket and the attempt it would settle are those of the last connect.
AttemptInv ==
    /\ \A s \in S!Socket :
          (life[s] = "unused" <=> s > attempts) /\ (promise[s] = "none" <=> s > attempts)
    /\ socket \in {None, attempts} /\ connectPromise \in {None, attempts}

\* A socket that is or may come up is the client's or was given up; the one of an attempt
\* that failed for another reason is neither.
HeldInv ==
    \A s \in S!Socket :
        /\ life[s] \in {"dialing", "up"} => s = socket \/ s \in abandoned
        /\ promise[s] = "rejected" => s \in abandoned \/ life[s] \notin {"dialing", "up"}

\* The handshake starts when the socket is up, and the attempt is settled when it is done.
PhaseInv ==
    /\ \A s \in S!Socket :
          /\ life[s] \in {"unused", "dialing"} => phase[s] = "none"
          /\ promise[s] = "resolved" => phase[s] = "open"
    /\ socket # None /\ connectPromise = None => phase[socket] = "open"

UsableInv ==
    ~closed => /\ socket # None /\ phase[socket] = "open" /\ life[socket] \in {"up", "ending"}
               /\ promise[socket] = "resolved"

SocketsInv == AttemptInv /\ HeldInv /\ PhaseInv /\ UsableInv

\* connect: the attempt before is over, so that no socket of it is left but one given up.
LEMMA SocketsInvConnect ==
    ASSUME S!TypeOK, SocketsInv, S!Connect
    PROVE  SocketsInv'
<1>. DEFINE s == attempts + 1
<1>1. s \in S!Socket /\ attempts \in Nat /\ S!Socket \subseteq Nat /\ None \notin S!Socket
  BY DEF S!TypeOK, S!Connect, S!Socket
<1>2. /\ attempts' = s /\ socket' = s /\ connectPromise' = s
      /\ promise' = [promise EXCEPT ![s] = "pending"]
      /\ life' = [life EXCEPT ![s] = "dialing"]
      /\ phase' = phase /\ closed' = closed /\ abandoned' = abandoned
      /\ promise \in [S!Socket -> {"none", "pending", "resolved", "rejected"}]
      /\ life \in [S!Socket -> S!Life]
      /\ attempts # 0 => promise[attempts] = "rejected" \/ (promise[attempts] = "resolved" /\ socket = None)
  BY DEF S!Connect, S!history, S!TypeOK
<1>3. \A x \in S!Socket : x # s => life'[x] = life[x] /\ promise'[x] = promise[x] /\ (x > s <=> x > attempts)
  BY <1>1, <1>2
<1>4. life'[s] = "dialing" /\ promise'[s] = "pending" /\ ~(s > s) /\ life[s] = "unused"
  BY <1>1, <1>2 DEF SocketsInv, AttemptInv
<1>5. socket # None => attempts \in S!Socket /\ attempts # 0 /\ socket = attempts
  BY <1>1 DEF SocketsInv, AttemptInv, S!TypeOK, S!Socket
<1>6. AttemptInv'
  <2> SUFFICES ASSUME NEW x \in S!Socket
               PROVE (life'[x] = "unused" <=> x > s) /\ (promise'[x] = "none" <=> x > s)
    BY <1>2 DEF AttemptInv
  <2>. HIDE DEF s
  <2>. QED
    BY <1>3, <1>4 DEF SocketsInv, AttemptInv
<1>7. HeldInv'
  <2> SUFFICES ASSUME NEW x \in S!Socket
               PROVE /\ life'[x] \in {"dialing", "up"} => x = s \/ x \in abandoned
                     /\ promise'[x] = "rejected" => x \in abandoned \/ life'[x] \notin {"dialing", "up"}
    BY <1>2 DEF HeldInv
  <2>. HIDE DEF s
  <2>1. socket # None => promise[socket] = "rejected" /\ socket \in S!Socket
    BY <1>5, <1>2
  <2>2. CASE x = s
    BY <2>2, <1>4
  <2>3. CASE x # s
    <3>1. life'[x] = life[x] /\ promise'[x] = promise[x]
      BY <2>3, <1>3
    <3>2. /\ life[x] \in {"dialing", "up"} => x = socket \/ x \in abandoned
          /\ promise[x] = "rejected" => x \in abandoned \/ life[x] \notin {"dialing", "up"}
      BY DEF SocketsInv, HeldInv
    <3>. QED
      BY <3>1, <3>2, <2>1, <1>1
  <2>. QED
    BY <2>2, <2>3
<1>8. PhaseInv'
  <2>1. s # None
    BY <1>1
  <2>2. \A x \in S!Socket : /\ life'[x] \in {"unused", "dialing"} => phase[x] = "none"
                            /\ promise'[x] = "resolved" => phase[x] = "open"
    <3>. HIDE DEF s
    <3>. QED
      BY <1>3, <1>4 DEF SocketsInv, PhaseInv
  <2>3. phase' = phase /\ connectPromise' = s
    BY <1>2
  <2>. HIDE DEF s
  <2>. QED
    BY <2>1, <2>2, <2>3 DEF PhaseInv
<1>9. closed
  BY <1>2, <1>5 DEF SocketsInv, UsableInv
<1>. QED
  BY <1>6, <1>7, <1>8, <1>9, <1>2 DEF SocketsInv, UsableInv

\* The client writes its next frame of the handshake of s.
LEMMA SocketsInvReply ==
    ASSUME S!TypeOK, SocketsInv, NEW s \in S!Socket,
           NEW next \in {"greeted", "started", "tuned"},
           life[s] \in {"dialing", "up"}, phase[s] \in {"none", "greeted", "started"},
           phase' = [phase EXCEPT ![s] = IF socket = s THEN next ELSE "mute"],
           life' = [life EXCEPT ![s] = "up"],
           socket \in {s, None}, s \notin abandoned,
           UNCHANGED <<attempts, socket, closed, connectPromise, promise, abandoned>>
    PROVE  SocketsInv'
<1>1. s = socket /\ s # None
  BY DEF SocketsInv, HeldInv, S!Socket
<1>2. /\ life \in [S!Socket -> S!Life] /\ phase \in [S!Socket -> S!Phase]
      /\ life'[s] = "up" /\ phase'[s] = next
      /\ \A x \in S!Socket : x # s => life'[x] = life[x] /\ phase'[x] = phase[x]
  BY <1>1 DEF S!TypeOK
<1>3. promise[s] # "resolved" /\ closed /\ connectPromise # None
  BY <1>1 DEF SocketsInv, PhaseInv, UsableInv
<1>4. AttemptInv'
  BY <1>2 DEF SocketsInv, AttemptInv
<1>5. HeldInv'
  BY <1>1, <1>2 DEF SocketsInv, HeldInv
<1>6. PhaseInv'
  BY <1>2, <1>3 DEF SocketsInv, PhaseInv
<1>. QED
  BY <1>3, <1>4, <1>5, <1>6 DEF SocketsInv, UsableInv

\* The socket s comes to an end; if it is the client's, the client may have none now.
LEMMA SocketsInvEnd ==
    ASSUME S!TypeOK, SocketsInv, NEW s \in S!Socket,
           life[s] # "unused", life'[s] \in {"failing", "ending", "gone"},
           \A x \in S!Socket : x # s => life'[x] = life[x] /\ promise'[x] = promise[x],
           promise'[s] = promise[s] \/ (promise[s] = "pending" /\ promise'[s] = "rejected"),
           socket' = socket \/ (socket' = None /\ socket \in {s, None}),
           connectPromise' = connectPromise \/ (connectPromise' = None /\ socket' = None),
           closed' \/ (socket' = socket /\ closed' = closed /\ (socket = s => life'[s] = "ending")),
           UNCHANGED <<attempts, phase, abandoned>>
    PROVE  SocketsInv'
<1>1. AttemptInv'
  BY DEF SocketsInv, AttemptInv
<1>2. HeldInv'
  <2> SUFFICES ASSUME NEW x \in S!Socket
               PROVE /\ life'[x] \in {"dialing", "up"} => x = socket' \/ x \in abandoned
                     /\ promise'[x] = "rejected" => x \in abandoned \/ life'[x] \notin {"dialing", "up"}
    BY DEF HeldInv
  <2>1. CASE x = s
    BY <2>1
  <2>2. CASE x # s
    <3>1. life'[x] = life[x] /\ promise'[x] = promise[x] /\ x # None
      BY <2>2 DEF S!Socket
    <3>2. /\ life[x] \in {"dialing", "up"} => x = socket \/ x \in abandoned
          /\ promise[x] = "rejected" => x \in abandoned \/ life[x] \notin {"dialing", "up"}
      BY DEF SocketsInv, HeldInv
    <3>. QED
      BY <3>1, <3>2, <2>2
  <2>. QED
    BY <2>1, <2>2
<1>3. PhaseInv'
  BY DEF SocketsInv, PhaseInv
<1>4. UsableInv'
  BY DEF SocketsInv, UsableInv, S!TypeOK
<1>. QED
  BY <1>1, <1>2, <1>3, <1>4 DEF SocketsInv

\* closeSocket, by an event of the client's socket
LEMMA CloseSocketEnds ==
    ASSUME S!TypeOK, NEW s \in S!Socket, socket = s, s # None, life[s] \in {"up"}, S!CloseSocket
    PROVE  /\ socket' = None /\ closed'
           /\ life'[s] = "ending" /\ \A x \in S!Socket : x # s => life'[x] = life[x]
  BY DEF S!TypeOK, S!CloseSocket, S!ClosedNow, S!Ended

\* The event is the client's own socket's.
LEMMA OwnSocket ==
    ASSUME S!TypeOK, SocketsInv, NEW s \in S!Socket, life[s] = "up",
           S!Handle(s), ~meddled'
    PROVE  socket = s /\ s # None /\ s = attempts /\ s \notin abandoned
<1>1. s \notin abandoned /\ socket \in {s, None} /\ s # None
  BY HandleType DEF S!Socket
<1>. QED
  BY <1>1 DEF SocketsInv, HeldInv, AttemptInv

\* reject: one attempt is settled, if it was not.
LEMMA SettledAt ==
    ASSUME S!TypeOK, NEW s \in S!Socket
    PROVE  /\ \A x \in S!Socket : x # s => S!Settled(promise, s, "rejected")[x] = promise[x]
           /\ LET p == S!Settled(promise, s, "rejected")[s]
              IN  p = promise[s] \/ (promise[s] = "pending" /\ p = "rejected")
  BY DEF S!TypeOK, S!Settled

\* The events of a socket, each by the lemma on what it does.
LEMMA SocketsInvEvent ==
    ASSUME S!TypeOK, SocketsInv, ~meddled',
           NEW s \in S!Socket, S!Events(s)
    PROVE  SocketsInv'
<1>0. /\ life \in [S!Socket -> S!Life] /\ phase \in [S!Socket -> S!Phase]
      /\ promise \in [S!Socket -> {"none", "pending", "resolved", "rejected"}]
      /\ socket \in S!Socket \cup {None} /\ s # None
  BY DEF S!TypeOK, S!Socket
<1>1. CASE S!Dialed(s)
  <2>1. /\ life[s] = "dialing" /\ life' = [life EXCEPT ![s] = "up"]
        /\ s \notin abandoned /\ socket \in {s, None}
        /\ UNCHANGED <<attempts, socket, closed, connectPromise, promise, abandoned>>
    BY <1>1, HandleType DEF S!Dialed, S!client
  <2>2. phase[s] = "none" /\ socket = s
    BY <2>1 DEF SocketsInv, PhaseInv, HeldInv
  <2>3. phase' = [phase EXCEPT ![s] = IF socket = s THEN "greeted" ELSE "mute"]
    BY <1>1, <2>2 DEF S!Dialed, S!Reply
  <2>. QED
    BY <2>1, <2>2, <2>3, SocketsInvReply
<1>2. CASE S!DialFails(s)
  <2>1. /\ life[s] \in {"dialing", "failing"} /\ life' = [life EXCEPT ![s] = "gone"]
        /\ promise' = S!Settled(promise, s, "rejected")
        /\ UNCHANGED <<attempts, socket, closed, connectPromise, phase, abandoned>>
    BY <1>2 DEF S!DialFails, S!history
  <2>2. life'[s] = "gone" /\ \A x \in S!Socket : x # s => life'[x] = life[x]
    BY <2>1, <1>0
  <2>3. closed' \/ (socket' = socket /\ closed' = closed /\ (socket = s => life'[s] = "ending"))
    BY <2>1 DEF SocketsInv, UsableInv
  <2>. QED
    BY <2>1, <2>2, <2>3, SettledAt, SocketsInvEnd
<1>3. CASE S!GotStart(s) \/ S!GotTune(s)
  <2>1. PICK next \in {"started", "tuned"} :
           phase' = [phase EXCEPT ![s] = IF socket = s THEN next ELSE "mute"]
    BY <1>3 DEF S!GotStart, S!GotTune, S!Reply
  <2>2. /\ life[s] = "up" /\ life' = life /\ phase[s] \in {"greeted", "started"}
        /\ s \notin abandoned /\ socket \in {s, None}
        /\ UNCHANGED <<attempts, socket, closed, connectPromise, promise, abandoned>>
    BY <1>3, HandleType DEF S!GotStart, S!GotTune, S!Speaks, S!client
  <2>3. life' = [life EXCEPT ![s] = "up"]
    BY <2>2, <1>0
  <2>. QED
    BY <2>1, <2>2, <2>3, SocketsInvReply
<1>4. CASE S!GotOpenOk(s)
  <2>1. socket = s /\ s = attempts /\ s \notin abandoned /\ life[s] = "up" /\ phase[s] = "tuned"
    BY <1>4, OwnSocket DEF S!GotOpenOk, S!Speaks
  <2>2. /\ phase' = [phase EXCEPT ![s] = "open"] /\ closed' = FALSE /\ connectPromise' = None
        /\ UNCHANGED <<attempts, socket, life, abandoned>>
    BY <1>4 DEF S!GotOpenOk
  <2>3. connectPromise = s /\ promise[s] \in {"pending", "resolved"}
    BY <2>1, <1>0 DEF SocketsInv, PhaseInv, AttemptInv, HeldInv
  <2>4. promise' = S!Settled(promise, s, "resolved")
    BY <2>3, <1>4, <1>0 DEF S!GotOpenOk
  <2>5. promise'[s] = "resolved" /\ \A x \in S!Socket : x # s => promise'[x] = promise[x]
    BY <2>3, <2>4, <1>0 DEF S!Settled
  <2>6. phase'[s] = "open" /\ \A x \in S!Socket : x # s => phase'[x] = phase[x]
    BY <2>2, <1>0
  <2>7. AttemptInv' /\ HeldInv'
    BY <2>1, <2>2, <2>3, <2>5, <1>0 DEF SocketsInv, AttemptInv, HeldInv
  <2>8. PhaseInv'
    BY <2>1, <2>2, <2>5, <2>6 DEF SocketsInv, PhaseInv
  <2>9. UsableInv'
    BY <2>1, <2>2, <2>5, <2>6, <1>0 DEF UsableInv
  <2>. QED
    BY <2>7, <2>8, <2>9 DEF SocketsInv
<1>5. CASE S!GotClose(s)
  <2>1. socket = s /\ s = attempts /\ life[s] = "up"
    BY <1>5, OwnSocket DEF S!GotClose
  <2>2. /\ promise' = IF connectPromise = None THEN promise
                      ELSE S!Settled(promise, connectPromise, "rejected")
        /\ connectPromise' = None /\ UNCHANGED <<attempts, phase, abandoned>>
    BY <1>5 DEF S!GotClose
  <2>3. /\ socket' = None /\ closed'
        /\ life'[s] = "ending" /\ \A x \in S!Socket : x # s => life'[x] = life[x]
    BY <1>5, <2>1, <1>0, CloseSocketEnds DEF S!GotClose
  <2>4. connectPromise \in {None, s}
    BY <2>1 DEF SocketsInv, AttemptInv
  <2>5. /\ \A x \in S!Socket : x # s => promise'[x] = promise[x]
        /\ promise'[s] = promise[s] \/ (promise[s] = "pending" /\ promise'[s] = "rejected")
    BY <2>2, <2>4, SettledAt
  <2>. QED
    BY <2>1, <2>2, <2>3, <2>5, SocketsInvEnd
<1>6. CASE S!PeerEnds(s)
  <2>1. /\ life[s] = "up" /\ life' = [life EXCEPT ![s] = "ending"]
        /\ promise' = promise \/ promise' = S!Settled(promise, s, "rejected")
        /\ UNCHANGED <<attempts, socket, closed, connectPromise, phase, abandoned>>
    BY <1>6 DEF S!PeerEnds, S!history
  <2>2. life'[s] = "ending" /\ \A x \in S!Socket : x # s => life'[x] = life[x]
    BY <2>1, <1>0
  <2>. QED
    BY <2>1, <2>2, SettledAt, SocketsInvEnd
<1>7. CASE S!WebSocketFails(s) \/ S!SocketClosed(s)
  <2>1. /\ life[s] \in {"up", "ending"} /\ socket \in {s, None}
        /\ life' = [life EXCEPT ![s] = "ending"] \/ life' = [life EXCEPT ![s] = "gone"]
        /\ promise' = promise \/ promise' = S!Settled(promise, s, "rejected")
        /\ closed' = TRUE /\ (socket' = socket \/ socket' = None)
        /\ UNCHANGED <<attempts, connectPromise, phase, abandoned>>
    BY <1>7, HandleType DEF S!WebSocketFails, S!SocketClosed
  <2>2. life'[s] \in {"ending", "gone"} /\ \A x \in S!Socket : x # s => life'[x] = life[x]
    BY <2>1, <1>0
  <2>. QED
    BY <2>1, <2>2, SettledAt, SocketsInvEnd
<1>8. CASE S!HeartbeatTimesOut(s)
  <2>1. socket = s /\ life[s] = "up"
    BY <1>8, OwnSocket DEF S!HeartbeatTimesOut
  <2>2. UNCHANGED <<attempts, connectPromise, promise, phase, abandoned>>
    BY <1>8 DEF S!HeartbeatTimesOut
  <2>3. /\ socket' = None /\ closed'
        /\ life'[s] = "ending" /\ \A x \in S!Socket : x # s => life'[x] = life[x]
    BY <1>8, <2>1, <1>0, CloseSocketEnds DEF S!HeartbeatTimesOut
  <2>. QED
    BY <2>1, <2>2, <2>3, SocketsInvEnd
<1>. QED
  BY <1>1, <1>2, <1>3, <1>4, <1>5, <1>6, <1>7, <1>8 DEF S!Events

\* The answers to close and updateSecret.
LEMMA SocketsInvAnswer ==
    ASSUME S!TypeOK, SocketsInv, NEW s \in S!Socket, S!Answers(s)
    PROVE  SocketsInv'
<1>1. CASE S!GotCloseOk(s)
  <2>1. /\ socket = s /\ life[s] = "up" /\ s # None
        /\ UNCHANGED <<attempts, connectPromise, promise, phase, abandoned>>
    BY <1>1 DEF S!GotCloseOk, S!Speaks, S!Socket
  <2>2. /\ socket' = None /\ closed'
        /\ life'[s] = "ending" /\ \A x \in S!Socket : x # s => life'[x] = life[x]
    BY <1>1, <2>1, CloseSocketEnds DEF S!GotCloseOk
  <2>. QED
    BY <2>1, <2>2, SocketsInvEnd
<1>2. CASE S!GotUpdateSecretOk(s)
  BY <1>2 DEF S!GotUpdateSecretOk, S!client, S!net, S!history, SocketsInv, AttemptInv, HeldInv,
              PhaseInv, UsableInv
<1>. QED
  BY <1>1, <1>2 DEF S!Answers

\* The time limit of an attempt gives its socket up.
LEMMA SocketsInvTimesOut ==
    ASSUME S!TypeOK, SocketsInv, S!TimesOut
    PROVE  SocketsInv'
<1> PICK s \in S!Socket : S!ConnectTimesOut(s)
  BY DEF S!TimesOut
<1>1. /\ promise[s] = "pending" /\ promise' = S!Settled(promise, s, "rejected")
      /\ abandoned' = abandoned \cup {s}
      /\ UNCHANGED <<attempts, socket, closed, connectPromise, life, phase>>
  BY DEF S!ConnectTimesOut, S!GivenUp, S!net
<1>2. promise'[s] = "rejected" /\ \A x \in S!Socket : x # s => promise'[x] = promise[x]
  BY <1>1 DEF S!TypeOK, S!Settled
<1>3. AttemptInv' /\ HeldInv' /\ PhaseInv'
  BY <1>1, <1>2 DEF SocketsInv, AttemptInv, HeldInv, PhaseInv
<1>4. UsableInv'
  BY <1>1, <1>2 DEF SocketsInv, UsableInv, S!TypeOK
<1>. QED
  BY <1>3, <1>4 DEF SocketsInv

\* Every step of a client no given-up socket has disturbed keeps the invariant.
LEMMA SocketsInvStep ==
    ASSUME S!TypeOK, ~meddled => SocketsInv, S!Next
    PROVE  ~meddled' => SocketsInv'
<1> SUFFICES ASSUME ~meddled' PROVE SocketsInv'
  OBVIOUS
<1>1. CASE S!Connect
  BY <1>1, SocketsInvConnect DEF S!Connect, S!history
<1>2. CASE S!Close \/ S!UpdateSecret
  <2>1. /\ UNCHANGED <<attempts, socket, connectPromise, promise, life, phase, abandoned, meddled>>
        /\ closed' = closed \/ closed' = TRUE
    BY <1>2 DEF S!Close, S!UpdateSecret, S!client, S!net, S!history
  <2>. QED
    BY <2>1 DEF SocketsInv, AttemptInv, HeldInv, PhaseInv, UsableInv
<1>3. CASE S!TimesOut
  <2>1. ~meddled
    BY <1>3 DEF S!TimesOut, S!ConnectTimesOut
  <2>. QED
    BY <1>3, <2>1, SocketsInvTimesOut
<1>4. ASSUME NEW s \in S!Socket, S!Events(s) PROVE SocketsInv'
  <2>1. ~meddled
    BY <1>4, HandleType DEF S!Events, S!Dialed, S!DialFails, S!GotStart, S!GotTune, S!GotOpenOk,
          S!GotClose, S!PeerEnds, S!WebSocketFails, S!SocketClosed, S!HeartbeatTimesOut, S!history
  <2>. QED
    BY <1>4, <2>1, SocketsInvEvent
<1>5. ASSUME NEW s \in S!Socket, S!Answers(s) PROVE SocketsInv'
  <2>1. ~meddled
    BY <1>5 DEF S!Answers, S!GotCloseOk, S!GotUpdateSecretOk, S!history
  <2>. QED
    BY <1>5, <2>1, SocketsInvAnswer
<1>. QED
  BY <1>1, <1>2, <1>3, <1>4, <1>5 DEF S!Next

\* Whatever the sockets do, AMQPBaseClient's fields hold values of their types.
THEOREM SocketsTypeCorrect == S!Spec => []S!TypeOK
<1>1. S!Init => S!TypeOK
  BY SocketsInitType
<1>2. S!TypeOK /\ [S!Next]_(S!vars) => S!TypeOK'
  <2>1. CASE UNCHANGED S!vars
    BY <2>1 DEF S!vars, S!client, S!net, S!calls, S!history, S!TypeOK
  <2>. QED
    BY <2>1, SocketsTypeStep
<1>. QED
  BY <1>1, <1>2, PTL DEF S!Spec

\* As long as no socket that was given up has had its say, the client holds on to the socket
\* of the last attempt and to no other, and is open only when the handshake of it is done.
THEOREM SocketsInvariant ==
    S!Spec => [](~meddled => SocketsInv)
<1>1. S!Init => SocketsInv
  BY DEF S!Init, SocketsInv, AttemptInv, HeldInv, PhaseInv, UsableInv, S!Socket
<1>2. S!TypeOK /\ (~meddled => SocketsInv) /\ [S!Next]_(S!vars) => (~meddled' => SocketsInv')
  <2>1. ASSUME UNCHANGED S!vars, ~meddled => SocketsInv PROVE ~meddled' => SocketsInv'
    BY <2>1 DEF S!vars, S!client, S!net, S!calls, S!history, SocketsInv, AttemptInv, HeldInv,
                PhaseInv, UsableInv
  <2>. QED
    BY <2>1, SocketsInvStep
<1>. QED
  BY <1>1, <1>2, SocketsTypeCorrect, PTL DEF S!Spec

\* connect resolves when the handshake is done on the socket it made, and `closed` is false only
\* on a socket whose handshake is done, for any number of attempts (AMQPBaseClient, connect).
THEOREM OpenSocketIsUsable == S!Spec => []OpenIsUsable
<1>1. (~meddled => SocketsInv) => OpenIsUsable
  BY DEF OpenIsUsable, Socket, S!Socket, SocketsInv, PhaseInv, UsableInv
<1>. QED
  BY <1>1, SocketsInvariant, PTL

\* The client keeps no socket open but its own and those whose attempts timed out, for any
\* number of attempts (closeSocket, the close and error events).
THEOREM NoSocketLeaks == S!Spec => []NothingLeaks
<1>1. (~meddled => SocketsInv) => NothingLeaks
  BY DEF NothingLeaks, Socket, S!Socket, SocketsInv, HeldInv
<1>. QED
  BY <1>1, SocketsInvariant, PTL
=============================================================================
