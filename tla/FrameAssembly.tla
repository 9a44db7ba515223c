---------------------------- MODULE FrameAssembly ----------------------------
(***************************************************************************)
(* Frames out of socket reads: onRead of the socket client, handleMessage  *)
(* of the WebSocket client.                                                *)
(*                                                                         *)
(* A read holds any number of bytes.  A frame that lies in one read is     *)
(* parsed in place; one that is split is collected in frameBuffer, its     *)
(* 7-byte header first, because the header holds the size.                 *)
(*                                                                         *)
(* Bytes are known by their position in the stream, from 1.  Each action   *)
(* is one turn of the handler's loop.                                      *)
(***************************************************************************)
EXTENDS Integers, Sequences

CONSTANTS
    Start,      \* the first byte of each frame, and of what follows the last one
    Capacity    \* the size of frameBuffer, frameMax

Header == 7
Frames == 1 .. Len(Start) - 1
Size(k) == Start[k + 1] - Start[k]
Bytes == 1 .. Start[Len(Start)] - 1

\* A frame has a header and an end byte, and the server respects frameMax.
ASSUME StreamAssumption ==
    /\ Start \in Seq(Nat) /\ Len(Start) > 1 /\ Start[1] = 1
    /\ Capacity \in Nat
    /\ \A j, k \in DOMAIN Start : j < k => Start[j] < Start[k]
    /\ \A k \in Frames : Size(k) > Header /\ Size(k) <= Capacity

VARIABLES
    transport,   \* the kind of client
    frameBuffer, \* the byte each place holds; 0: not a byte of this connection
    framePos,    \* how much of a split frame is in frameBuffer
    frameSize,   \* the size of the frame being read; 0: not known yet
    pos, end,    \* the next byte, and the last one, of the read being handled
    parsed,      \* history: the bytes of each view given to parseFrames
    threw        \* the handler threw, and the rest of the read was lost

vars == <<transport, frameBuffer, framePos, frameSize, pos, end, parsed, threw>>

Places == 0 .. Capacity - 1

TypeOK ==
    /\ transport \in {"socket", "websocket"}
    /\ frameBuffer \in [Places -> Bytes \cup {0}]
    /\ framePos \in 0 .. Capacity
    /\ frameSize \in 0 .. Capacity
    /\ end \in Bytes \cup {0} /\ pos \in 1 .. end + 1
    /\ parsed \in Seq(Seq(Bytes \cup {0}))
    /\ threw \in BOOLEAN

Init ==
    /\ transport \in {"socket", "websocket"}
    /\ frameBuffer = [i \in Places |-> 0]
    /\ framePos = 0 /\ frameSize = 0
    /\ pos = 1 /\ end = 0
    /\ parsed = <<>>
    /\ threw = FALSE

----------------------------------------------------------------------------
Idle == pos > end /\ ~threw
Busy == pos <= end /\ ~threw
Left == end - pos + 1

\* Any number of the bytes to come arrives.
Read(last) ==
    /\ Idle
    /\ pos <= last
    /\ end' = last
    /\ UNCHANGED <<transport, frameBuffer, framePos, frameSize, pos, parsed, threw>>

\* connect: a new stream, and old bytes in the buffer
Connect ==
    /\ pos > end \/ threw
    /\ frameBuffer' = [i \in Places |-> 0]
    /\ framePos' = 0 /\ frameSize' = 0
    /\ pos' = 1 /\ end' = 0
    /\ parsed' = <<>> /\ threw' = FALSE
    /\ UNCHANGED transport

\* The size field of the header at the bytes h[3] .. h[6], and 8 bytes of overhead; other
\* bytes read as a size of 0.
SizeFrom(h) ==
    LET at == {k \in Frames : \A i \in 3 .. 6 : h[i] = Start[k] + i}
    IN  IF at = {} THEN 8 ELSE LET k == CHOOSE x \in at : TRUE IN Size(k)

\* buf.copy(frameBuffer, framePos, ...) of n bytes
Filled(n) ==
    [i \in Places |-> IF i \in framePos .. framePos + n - 1 THEN pos + i - framePos ELSE frameBuffer[i]]
Copy(n) ==
    /\ frameBuffer' = Filled(n)
    /\ framePos' = framePos + n
    /\ pos' = pos + n

Smaller(m, n) == IF m < n THEN m ELSE n

\* Mutant: the size is taken before the header is complete.
HeaderTaken(n) == TRUE
\* Mutant: one byte too many is waited for.
HeaderPassed(n) == framePos + n > Header
\* All 7 bytes are in, counting n more.
HeaderComplete(n) == framePos + n >= Header

\* The rest of a split header, or as much of it as there is: onRead
MoreHeader ==
    LET n == Smaller(Header - framePos, Left)
    IN  /\ Busy /\ transport = "socket" /\ frameSize = 0 /\ framePos # 0
        /\ Copy(n)
        /\ frameSize' = IF HeaderComplete(n) THEN SizeFrom(Filled(n)) ELSE 0
        /\ UNCHANGED <<transport, end, parsed, threw>>

\* handleMessage takes the rest to be there: new Uint8Array(buf, bufPos, len) throws if
\* it is not.
RestOfHeader ==
    LET n == Header - framePos
    IN  /\ Busy /\ transport = "websocket" /\ frameSize = 0 /\ framePos # 0
        /\ n <= Left
        /\ Copy(n)
        /\ frameSize' = SizeFrom(Filled(n))
        /\ UNCHANGED <<transport, end, parsed, threw>>
RestOfHeaderMissing ==
    /\ Busy /\ transport = "websocket" /\ frameSize = 0 /\ framePos # 0
    /\ Header - framePos > Left
    /\ threw' = TRUE
    /\ UNCHANGED <<transport, frameBuffer, framePos, frameSize, pos, end, parsed>>

\* The header of the next frame is split over reads.
SplitHeader ==
    /\ Busy /\ frameSize = 0 /\ framePos = 0
    /\ Left < Header
    /\ Copy(Left)
    /\ UNCHANGED <<transport, frameSize, end, parsed, threw>>

View(first, size) == [i \in 1 .. size |-> first + i - 1]

NextFrame(size) == pos' = pos + size /\ frameSize' = 0

\* The whole frame is in this read: it is parsed without copying.
WholeFrame ==
    LET size == SizeFrom([i \in 3 .. 6 |-> pos + i])
    IN  /\ Busy /\ frameSize = 0 /\ framePos = 0
        /\ Left >= Header /\ Left >= size
        /\ parsed' = Append(parsed, View(pos, size))
        /\ NextFrame(size)
        /\ UNCHANGED <<transport, frameBuffer, framePos, end, threw>>

\* Only a part of the frame is in this read: its size is remembered.
StartFrame ==
    LET size == SizeFrom([i \in 3 .. 6 |-> pos + i])
    IN  /\ Busy /\ frameSize = 0 /\ framePos = 0
        /\ Left >= Header /\ Left < size
        /\ frameSize' = size
        /\ UNCHANGED <<transport, frameBuffer, framePos, pos, end, parsed, threw>>

FrameDone(p) == framePos' = 0

\* More of a split frame; it is parsed from frameBuffer when it is complete.
Fill ==
    LET n == Smaller(Smaller(frameSize - framePos, Left), Capacity - framePos)
    IN  /\ Busy /\ frameSize # 0
        /\ \/ /\ framePos + n < frameSize
              /\ Copy(n)
              /\ UNCHANGED <<frameSize, parsed>>
           \/ /\ framePos + n = frameSize
              /\ frameBuffer' = Filled(n)
              /\ pos' = pos + n
              /\ parsed' = Append(parsed, [i \in 1 .. frameSize |-> Filled(n)[i - 1]])
              /\ frameSize' = 0
              /\ FrameDone(framePos + n)
        /\ UNCHANGED <<transport, end, threw>>

Handle ==
    \/ MoreHeader \/ RestOfHeader \/ RestOfHeaderMissing \/ SplitHeader
    \/ WholeFrame \/ StartFrame \/ Fill

Next == (\E last \in Bytes : Read(last)) \/ Connect \/ Handle

\* The handler runs to its end; whether more bytes arrive is up to the network.
Spec == Init /\ [][Next]_vars /\ WF_vars(Handle)

----------------------------------------------------------------------------
(* What parseFrames may rely on *)

\* However the stream is cut into reads, parseFrames is given the frames of the stream,
\* whole, in order, each once; and when a read has been handled, all that have arrived:
\* none waits in frameBuffer for bytes of the next one.
FramesInOrder ==
    /\ \A k \in DOMAIN parsed : k \in Frames /\ parsed[k] = View(Start[k], Size(k))
    /\ Idle => \A k \in Frames : Start[k + 1] <= pos => k \in DOMAIN parsed

\* The loop ends: no read keeps the event loop busy for ever.
HandlerEnds == Busy ~> ~Busy
=============================================================================
