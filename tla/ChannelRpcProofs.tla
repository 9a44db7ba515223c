-------------------------- MODULE ChannelRpcProofs --------------------------
(***************************************************************************)
(* Proofs about ChannelRpc for every set of calls, channels and numbers:   *)
(* its types, that every pending call is held once, that rejections have a *)
(* cause, that objects outside the table are closed, that the channel      *)
(* implements RpcOrder, that a call gets the answer to its own request,    *)
(* and that one that waits has something to come.                          *)
(***************************************************************************)
EXTENDS ChannelRpc, TLAPS

\* The frames the model builds are frames.
LEMMA FrameTypes ==
    /\ \A c \in Call : Request(c) \in Frame /\ Ok(c) \in Frame /\ CloseOk(c) \in Frame
    /\ CloseOk(None) \in Frame /\ CloseMethod \in Frame
  BY DEF Frame, Request, Ok, CloseOk, CloseMethod

\* sendRpc keeps the queues and the promises well typed.
LEMMA SendRpcType ==
    ASSUME RpcTypeOK, CallTypeOK, NEW c \in Call, NEW ch \in Chan,
           NEW k \in {"open", "rpc", "close"}, SendRpc(c, ch, k)
    PROVE  RpcTypeOK' /\ CallTypeOK'
<1>1. RpcTypeOK'
  BY DEF SendRpc, RpcTypeOK
<1>2. CallTypeOK'
  BY DEF SendRpc, CallTypeOK
<1> QED
  BY <1>1, <1>2

\* Rejecting a call on a closed channel keeps them well typed.
LEMMA RejectClosedType ==
    ASSUME RpcTypeOK, CallTypeOK, NEW c \in Call, RejectClosed(c)
    PROVE  RpcTypeOK' /\ CallTypeOK'
<1>1. RpcTypeOK'
  BY DEF RejectClosed, RpcTypeOK, rpcVars
<1>2. CallTypeOK'
  BY DEF RejectClosed, CallTypeOK
<1> QED
  BY <1>1, <1>2

\* resolveRPC keeps them well typed, with or without a callback to shift.
LEMMA ResolveRPCType ==
    ASSUME RpcTypeOK, CallTypeOK, NEW ch \in Chan, NEW f \in Frame, ResolveRPC(ch, f),
           UNCHANGED <<rpcQueue, sending, owner, kind>>
    PROVE  RpcTypeOK' /\ CallTypeOK'
<1>1. CASE rpcCallbacks[ch] = <<>>
  BY <1>1 DEF ResolveRPC, RpcTypeOK, CallTypeOK
<1>2. CASE rpcCallbacks[ch] # <<>>
  <2>1. Head(rpcCallbacks[ch]) \in Call /\ Tail(rpcCallbacks[ch]) \in Seq(Call)
    BY <1>2 DEF RpcTypeOK
  <2>2. f.call \in Call \cup {None}
    BY DEF Frame
  <2>3. RpcTypeOK'
    BY <1>2, <2>1 DEF ResolveRPC, RpcTypeOK
  <2>4. CallTypeOK'
    BY <1>2, <2>1, <2>2 DEF ResolveRPC, CallTypeOK, Settled
  <2> QED
    BY <2>3, <2>4
<1> QED
  BY <1>1, <1>2

\* setClosed keeps them and the closed flags well typed.
LEMMA SetClosedType ==
    ASSUME RpcTypeOK, CallTypeOK, ChanTypeOK, NEW C, SetClosed(C),
           UNCHANGED <<rpcQueue, sending, owner, kind, answer>>
    PROVE  RpcTypeOK' /\ CallTypeOK' /\ closed' \in [Chan -> BOOLEAN]
<1>1. RpcTypeOK'
  BY DEF SetClosed, RpcTypeOK
<1>2. CallTypeOK'
  BY DEF SetClosed, CallTypeOK, Settled
<1>3. closed' \in [Chan -> BOOLEAN]
  BY DEF SetClosed
<1> QED
  BY <1>1, <1>2, <1>3

\* What is read from the wire is a frame.
LEMMA HeadOfWire ==
    ASSUME WireTypeOK, NEW n \in Number, toClient[n] # <<>>
    PROVE  Head(toClient[n]) \in Frame /\ Tail(toClient[n]) \in Seq(Frame)
  BY DEF WireTypeOK

\* What the broker puts on the wire is a frame.
LEMMA ReplyType ==
    ASSUME WireTypeOK, NEW n \in Number, NEW f \in Frame, Reply(n, f)
    PROVE  toClient' \in [Number -> Seq(Frame)]
  BY DEF WireTypeOK, Reply

\* A call waits in the chain of an object that has its number.
Numbered == \A ch \in Chan : rpcQueue[ch] # <<>> => number[ch] \in Number
TypeInv == TypeOK /\ Numbered

\* Every reachable state is well typed, and a channel with a waiting call has a
\* number to send it on (AMQPBaseClient.channel assigns the id before open).
THEOREM TypeInvariance == Spec => []TypeInv
<1> USE NoneAssumption DEF connVars, chanVars, rpcVars, callVars, wireVars
<1>1. Init => TypeInv
  <2> SUFFICES ASSUME Init PROVE TypeInv
    OBVIOUS
  <2> USE DEF Init
  <2>1. ConnTypeOK
    BY DEF ConnTypeOK
  <2>2. ChanTypeOK
    BY DEF ChanTypeOK
  <2>3. RpcTypeOK
    BY DEF RpcTypeOK
  <2>4. CallTypeOK
    BY DEF CallTypeOK
  <2>5. WireTypeOK
    BY DEF WireTypeOK
  <2>6. Numbered
    BY DEF Numbered
  <2> QED
    BY <2>1, <2>2, <2>3, <2>4, <2>5, <2>6 DEF TypeOK, TypeInv
<1>2. TypeInv /\ [Next]_vars => TypeInv'
  <2> SUFFICES ASSUME TypeInv, [Next]_vars PROVE TypeInv'
    OBVIOUS
  <2> USE DEF TypeOK, TypeInv
  <2>1. ASSUME NEW c \in Call, NEW ch \in Chan, NEW n \in Number, OpenChannel(c, ch, n) PROVE TypeInv'
    <3>1. ConnTypeOK'
      BY <2>1 DEF OpenChannel, SendRpc, ConnTypeOK
    <3>2. ChanTypeOK'
      BY <2>1 DEF OpenChannel, SendRpc, ChanTypeOK
    <3>3. RpcTypeOK'
      BY <2>1 DEF OpenChannel, SendRpc, RpcTypeOK
    <3>4. CallTypeOK'
      BY <2>1 DEF OpenChannel, SendRpc, CallTypeOK
    <3>5. WireTypeOK'
      BY <2>1 DEF OpenChannel, SendRpc, WireTypeOK
    <3>6. Numbered'
      BY <2>1 DEF OpenChannel, SendRpc, Numbered, RpcTypeOK, ChanTypeOK
    <3> QED
      BY <3>1, <3>2, <3>3, <3>4, <3>5, <3>6
  <2>2. ASSUME NEW c \in Call, NEW ch \in Chan, Rpc(c, ch) PROVE TypeInv'
    <3>1. ConnTypeOK'
      BY <2>2 DEF Rpc, SendRpc, RejectClosed, ConnTypeOK
    <3>2. ChanTypeOK'
      BY <2>2 DEF Rpc, SendRpc, RejectClosed, ChanTypeOK
    <3>3. RpcTypeOK'
      BY <2>2, SendRpcType, RejectClosedType DEF Rpc
    <3>4. CallTypeOK'
      BY <2>2, SendRpcType, RejectClosedType DEF Rpc
    <3>5. WireTypeOK'
      BY <2>2 DEF Rpc, SendRpc, RejectClosed, WireTypeOK
    <3>6. Numbered'
      BY <2>2 DEF Rpc, SendRpc, RejectClosed, Numbered, RpcTypeOK, ChanTypeOK
    <3> QED
      BY <3>1, <3>2, <3>3, <3>4, <3>5, <3>6
  <2>3. ASSUME NEW c \in Call, NEW ch \in Chan, Close(c, ch) PROVE TypeInv'
    <3>1. ConnTypeOK'
      BY <2>3 DEF Close, SendRpc, RejectClosed, ConnTypeOK
    <3>2. ChanTypeOK'
      BY <2>3 DEF Close, SendRpc, RejectClosed, ChanTypeOK
    <3>3. RpcTypeOK'
      BY <2>3, SendRpcType, RejectClosedType DEF Close
    <3>4. CallTypeOK'
      BY <2>3, SendRpcType, RejectClosedType DEF Close
    <3>5. WireTypeOK'
      BY <2>3 DEF Close, SendRpc, RejectClosed, WireTypeOK
    <3>6. Numbered'
      BY <2>3 DEF Close, SendRpc, RejectClosed, Numbered, RpcTypeOK, ChanTypeOK
    <3> QED
      BY <3>1, <3>2, <3>3, <3>4, <3>5, <3>6
  <2>4. ASSUME CloseConnection PROVE TypeInv'
    <3>1. ConnTypeOK'
      BY <2>4 DEF CloseConnection, ConnTypeOK
    <3>2. ChanTypeOK'
      BY <2>4 DEF CloseConnection, ChanTypeOK
    <3>3. RpcTypeOK'
      BY <2>4 DEF CloseConnection, RpcTypeOK
    <3>4. CallTypeOK'
      BY <2>4 DEF CloseConnection, CallTypeOK
    <3>5. WireTypeOK'
      BY <2>4 DEF CloseConnection, WireTypeOK
    <3>6. Numbered'
      BY <2>4 DEF CloseConnection, Numbered, RpcTypeOK
    <3> QED
      BY <3>1, <3>2, <3>3, <3>4, <3>5, <3>6
  <2>5. ASSUME NEW ch \in Chan, StepRejected(ch) PROVE TypeInv'
    <3>1. ConnTypeOK'
      BY <2>5 DEF StepRejected, Settled, ConnTypeOK
    <3>2. ChanTypeOK'
      BY <2>5 DEF StepRejected, Settled, ChanTypeOK
    <3>3. RpcTypeOK'
      BY <2>5 DEF StepRejected, Settled, RpcTypeOK
    <3>4. CallTypeOK'
      BY <2>5 DEF StepRejected, Settled, CallTypeOK
    <3>5. WireTypeOK'
      BY <2>5 DEF StepRejected, Settled, WireTypeOK
    <3>6. Numbered'
      BY <2>5 DEF StepRejected, Numbered, RpcTypeOK
    <3> QED
      BY <3>1, <3>2, <3>3, <3>4, <3>5, <3>6
  <2>6. ASSUME NEW ch \in Chan, Step(ch) PROVE TypeInv'
    <3>1. ConnTypeOK'
      BY <2>6 DEF Step, ConnTypeOK
    <3>2. ChanTypeOK'
      BY <2>6 DEF Step, ChanTypeOK
    <3>3. RpcTypeOK'
      <4>1. Head(rpcQueue[ch]) \in Call /\ Tail(rpcQueue[ch]) \in Seq(Call)
        BY <2>6 DEF Step, RpcTypeOK
      <4>2. rpcQueue' \in [Chan -> Seq(Call)] /\ sending' \in [Chan -> Call \cup {None}]
        BY <2>6, <4>1 DEF Step, RpcTypeOK
      <4>3. rpcCallbacks' \in [Chan -> Seq(Call)]
        BY <2>6, <4>1 DEF Step, RpcTypeOK
      <4> QED
        BY <4>2, <4>3 DEF RpcTypeOK
    <3>4. CallTypeOK'
      BY <2>6 DEF Step, CallTypeOK
    <3>5. WireTypeOK'
      <4>1. number[ch] \in Number /\ Head(rpcQueue[ch]) \in Call
        BY <2>6 DEF Step, RpcTypeOK, Numbered
      <4>2. Request(Head(rpcQueue[ch])) \in Frame
        BY <4>1, FrameTypes
      <4>3. toServer' \in [Number -> Seq(Frame)]
        BY <2>6, <4>1, <4>2 DEF Step, WireTypeOK
      <4>4. crossed' \in SUBSET Number
        BY <2>6, <4>1 DEF Step, WireTypeOK
      <4> QED
        BY <2>6, <4>3, <4>4 DEF Step, WireTypeOK
    <3>6. Numbered'
      BY <2>6 DEF Step, Numbered, RpcTypeOK
    <3> QED
      BY <3>1, <3>2, <3>3, <3>4, <3>5, <3>6
  <2>7. ASSUME NEW ch \in Chan, Written(ch) PROVE TypeInv'
    <3>1. ConnTypeOK'
      BY <2>7 DEF Written, ConnTypeOK
    <3>2. ChanTypeOK'
      BY <2>7 DEF Written, ChanTypeOK
    <3>3. RpcTypeOK'
      BY <2>7 DEF Written, RpcTypeOK
    <3>4. CallTypeOK'
      BY <2>7 DEF Written, CallTypeOK
    <3>5. WireTypeOK'
      BY <2>7 DEF Written, WireTypeOK
    <3>6. Numbered'
      BY <2>7 DEF Written, Numbered, RpcTypeOK
    <3> QED
      BY <3>1, <3>2, <3>3, <3>4, <3>5, <3>6
  <2>8. ASSUME NEW ch \in Chan, WriteFailed(ch) PROVE TypeInv'
    <3>1. ConnTypeOK'
      BY <2>8 DEF WriteFailed, Victim, Settled, ConnTypeOK
    <3>2. ChanTypeOK'
      BY <2>8 DEF WriteFailed, Victim, Settled, ChanTypeOK
    <3>3. RpcTypeOK'
      BY <2>8 DEF WriteFailed, Victim, Settled, RpcTypeOK
    <3>4. CallTypeOK'
      BY <2>8 DEF WriteFailed, Victim, Settled, CallTypeOK
    <3>5. WireTypeOK'
      BY <2>8 DEF WriteFailed, Victim, Settled, WireTypeOK
    <3>6. Numbered'
      BY <2>8 DEF WriteFailed, Victim, Numbered, RpcTypeOK
    <3> QED
      BY <3>1, <3>2, <3>3, <3>4, <3>5, <3>6
  <2>9. ASSUME NEW n \in Number, SkipFrame(n) PROVE TypeInv'
    <3>1. ConnTypeOK'
      BY <2>9 DEF SkipFrame, Read, ConnTypeOK
    <3>2. ChanTypeOK'
      BY <2>9 DEF SkipFrame, Read, ChanTypeOK
    <3>3. RpcTypeOK'
      BY <2>9 DEF SkipFrame, Read, RpcTypeOK
    <3>4. CallTypeOK'
      BY <2>9 DEF SkipFrame, Read, CallTypeOK
    <3>5. WireTypeOK'
      BY <2>9 DEF SkipFrame, Read, WireTypeOK
    <3>6. Numbered'
      BY <2>9 DEF SkipFrame, Numbered, RpcTypeOK, Read
    <3> QED
      BY <3>1, <3>2, <3>3, <3>4, <3>5, <3>6
  <2>10. ASSUME NEW n \in Number, GotAnswer(n) PROVE TypeInv'
    <3>1. ConnTypeOK'
      BY <2>10 DEF GotAnswer, Read, ConnTypeOK
    <3>2. ChanTypeOK'
      BY <2>10 DEF GotAnswer, Read, ChanTypeOK
    <3>3. RpcTypeOK'
      <4>1. CASE ResolveRPC(slot[n], Head(toClient[n]))
        BY <2>10, <4>1, ResolveRPCType, HeadOfWire DEF GotAnswer, Read, ChanTypeOK
      <4> QED
        BY <2>10, <4>1 DEF GotAnswer
    <3>4. CallTypeOK'
      <4>1. CASE ResolveRPC(slot[n], Head(toClient[n]))
        BY <2>10, <4>1, ResolveRPCType, HeadOfWire DEF GotAnswer, Read, ChanTypeOK
      <4> QED
        BY <2>10, <4>1 DEF GotAnswer
    <3>5. WireTypeOK'
      BY <2>10, FrameTypes DEF GotAnswer, Read, WireTypeOK
    <3>6. Numbered'
      BY <2>10 DEF GotAnswer, Numbered, RpcTypeOK, Read
    <3> QED
      BY <3>1, <3>2, <3>3, <3>4, <3>5, <3>6
  <2>11. ASSUME NEW n \in Number, GotCloseOk(n) PROVE TypeInv'
    <3>1. ConnTypeOK'
      BY <2>11 DEF GotCloseOk, Read, SetClosed, ConnTypeOK
    <3>2. ChanTypeOK'
      BY <2>11 DEF GotCloseOk, Read, SetClosed, ChanTypeOK
    <3>3. RpcTypeOK'
      <4>1. CASE ResolveRPC(slot[n], Head(toClient[n]))
        BY <2>11, <4>1, ResolveRPCType, HeadOfWire DEF GotCloseOk, Read, ChanTypeOK
      <4>2. CASE SetClosed({slot[n]}) /\ UNCHANGED answer
        BY <2>11, <4>2, SetClosedType DEF GotCloseOk, Read
      <4> QED
        BY <2>11, <4>1, <4>2 DEF GotCloseOk
    <3>4. CallTypeOK'
      <4>1. CASE ResolveRPC(slot[n], Head(toClient[n]))
        BY <2>11, <4>1, ResolveRPCType, HeadOfWire DEF GotCloseOk, Read, ChanTypeOK
      <4>2. CASE SetClosed({slot[n]}) /\ UNCHANGED answer
        BY <2>11, <4>2, SetClosedType DEF GotCloseOk, Read
      <4> QED
        BY <2>11, <4>1, <4>2 DEF GotCloseOk
    <3>5. WireTypeOK'
      BY <2>11, FrameTypes DEF GotCloseOk, Read, WireTypeOK
    <3>6. Numbered'
      BY <2>11 DEF GotCloseOk, Numbered, RpcTypeOK, Read
    <3> QED
      BY <3>1, <3>2, <3>3, <3>4, <3>5, <3>6
  <2>12. ASSUME NEW n \in Number, ServerClosedChannel(n) PROVE TypeInv'
    <3>1. ConnTypeOK'
      BY <2>12 DEF ServerClosedChannel, Read, SetClosed, ConnTypeOK
    <3>2. ChanTypeOK'
      BY <2>12 DEF ServerClosedChannel, Read, SetClosed, ChanTypeOK
    <3>3. RpcTypeOK'
      BY <2>12, SetClosedType DEF ServerClosedChannel, Read
    <3>4. CallTypeOK'
      BY <2>12, SetClosedType DEF ServerClosedChannel, Read
    <3>5. WireTypeOK'
      BY <2>12, FrameTypes DEF ServerClosedChannel, Read, WireTypeOK
    <3>6. Numbered'
      BY <2>12 DEF ServerClosedChannel, Numbered, RpcTypeOK, Read
    <3> QED
      BY <3>1, <3>2, <3>3, <3>4, <3>5, <3>6
  <2>13. ASSUME ServerClosedConnection PROVE TypeInv'
    <3>1. ConnTypeOK'
      BY <2>13 DEF ServerClosedConnection, DropChannels, SetClosed, Settled, WireDown, ConnTypeOK
    <3>2. ChanTypeOK'
      BY <2>13 DEF ServerClosedConnection, DropChannels, SetClosed, Settled, WireDown, ChanTypeOK
    <3>3. RpcTypeOK'
      BY <2>13 DEF ServerClosedConnection, DropChannels, SetClosed, Settled, WireDown, RpcTypeOK
    <3>4. CallTypeOK'
      BY <2>13 DEF ServerClosedConnection, DropChannels, SetClosed, Settled, WireDown, CallTypeOK
    <3>5. WireTypeOK'
      BY <2>13 DEF ServerClosedConnection, DropChannels, SetClosed, Settled, WireDown, WireTypeOK
    <3>6. Numbered'
      BY <2>13 DEF ServerClosedConnection, Numbered, RpcTypeOK
    <3> QED
      BY <3>1, <3>2, <3>3, <3>4, <3>5, <3>6
  <2>14. ASSUME ConnectionCloseOk PROVE TypeInv'
    <3>1. ConnTypeOK'
      BY <2>14 DEF ConnectionCloseOk, DropChannels, SetClosed, Settled, WireDown, ConnTypeOK
    <3>2. ChanTypeOK'
      BY <2>14 DEF ConnectionCloseOk, DropChannels, SetClosed, Settled, WireDown, ChanTypeOK
    <3>3. RpcTypeOK'
      BY <2>14 DEF ConnectionCloseOk, DropChannels, SetClosed, Settled, WireDown, RpcTypeOK
    <3>4. CallTypeOK'
      BY <2>14 DEF ConnectionCloseOk, DropChannels, SetClosed, Settled, WireDown, CallTypeOK
    <3>5. WireTypeOK'
      BY <2>14 DEF ConnectionCloseOk, DropChannels, SetClosed, Settled, WireDown, WireTypeOK
    <3>6. Numbered'
      BY <2>14 DEF ConnectionCloseOk, Numbered, RpcTypeOK
    <3> QED
      BY <3>1, <3>2, <3>3, <3>4, <3>5, <3>6
  <2>15. ASSUME SocketClosed PROVE TypeInv'
    <3>1. ConnTypeOK'
      BY <2>15 DEF SocketClosed, DropChannels, SetClosed, Settled, ConnTypeOK
    <3>2. ChanTypeOK'
      BY <2>15 DEF SocketClosed, DropChannels, SetClosed, Settled, ChanTypeOK
    <3>3. RpcTypeOK'
      BY <2>15, SetClosedType DEF SocketClosed, DropChannels, RpcTypeOK
    <3>4. CallTypeOK'
      BY <2>15 DEF SocketClosed, DropChannels, SetClosed, Settled, CallTypeOK
    <3>5. WireTypeOK'
      BY <2>15 DEF SocketClosed, DropChannels, SetClosed, Settled, WireTypeOK
    <3>6. Numbered'
      BY <2>15 DEF SocketClosed, Numbered, RpcTypeOK
    <3> QED
      BY <3>1, <3>2, <3>3, <3>4, <3>5, <3>6
  <2>16. ASSUME NEW n \in Number, Serve(n) PROVE TypeInv'
    <3>1. ConnTypeOK'
      BY <2>16 DEF Serve, Take, ConnTypeOK
    <3>2. ChanTypeOK'
      BY <2>16 DEF Serve, Take, ChanTypeOK
    <3>3. RpcTypeOK'
      BY <2>16 DEF Serve, Take, RpcTypeOK
    <3>4. CallTypeOK'
      BY <2>16 DEF Serve, Take, CallTypeOK
    <3>5. WireTypeOK'
      <4>1. Tail(toServer[n]) \in Seq(Frame) /\ Head(toServer[n]) \in Frame
        BY <2>16 DEF Serve, Take, Reply, WireTypeOK
      <4>2. Head(toServer[n]).method = "Request" => Ok(Head(toServer[n]).call) \in Frame /\ CloseOk(Head(toServer[n]).call) \in Frame
        BY <4>1 DEF Frame, Ok, CloseOk
      <4>3. toServer' \in [Number -> Seq(Frame)]
        BY <2>16, <4>1 DEF Serve, Take, Reply, WireTypeOK
      <4>4. toClient' \in [Number -> Seq(Frame)]
        BY <2>16, <4>2, ReplyType DEF Serve, Take, WireTypeOK
      <4>5. server' \in [Number -> {"closed", "open", "closing"}]
        BY <2>16 DEF Serve, Take, Reply, WireTypeOK
      <4>6. crossed' \in SUBSET Number
        BY <2>16 DEF Serve, Take, Reply, WireTypeOK
      <4> QED
        BY <4>3, <4>4, <4>5, <4>6 DEF WireTypeOK
    <3>6. Numbered'
      BY <2>16 DEF Serve, Numbered, RpcTypeOK, Take
    <3> QED
      BY <3>1, <3>2, <3>3, <3>4, <3>5, <3>6
  <2>17. ASSUME NEW n \in Number, ServeClosing(n) PROVE TypeInv'
    <3>1. ConnTypeOK'
      BY <2>17 DEF ServeClosing, Take, ConnTypeOK
    <3>2. ChanTypeOK'
      BY <2>17 DEF ServeClosing, Take, ChanTypeOK
    <3>3. RpcTypeOK'
      BY <2>17 DEF ServeClosing, Take, RpcTypeOK
    <3>4. CallTypeOK'
      BY <2>17 DEF ServeClosing, Take, CallTypeOK
    <3>5. WireTypeOK'
      <4>1. Tail(toServer[n]) \in Seq(Frame) /\ Head(toServer[n]) \in Frame
        BY <2>17 DEF ServeClosing, Take, Reply, WireTypeOK
      <4>2. Head(toServer[n]).method = "Request" => Ok(Head(toServer[n]).call) \in Frame /\ CloseOk(Head(toServer[n]).call) \in Frame
        BY <4>1 DEF Frame, Ok, CloseOk
      <4>3. toServer' \in [Number -> Seq(Frame)]
        BY <2>17, <4>1 DEF ServeClosing, Take, Reply, WireTypeOK
      <4>4. toClient' \in [Number -> Seq(Frame)]
        BY <2>17, <4>2, ReplyType DEF ServeClosing, Take, WireTypeOK
      <4>5. server' \in [Number -> {"closed", "open", "closing"}]
        BY <2>17 DEF ServeClosing, Take, Reply, WireTypeOK
      <4>6. crossed' \in SUBSET Number
        BY <2>17 DEF ServeClosing, Take, Reply, WireTypeOK
      <4> QED
        BY <4>3, <4>4, <4>5, <4>6 DEF WireTypeOK
    <3>6. Numbered'
      BY <2>17 DEF ServeClosing, Numbered, RpcTypeOK, Take
    <3> QED
      BY <3>1, <3>2, <3>3, <3>4, <3>5, <3>6
  <2>18. ASSUME NEW n \in Number, ServeError(n) PROVE TypeInv'
    <3>1. ConnTypeOK'
      BY <2>18 DEF ServeError, Take, ConnTypeOK
    <3>2. ChanTypeOK'
      BY <2>18 DEF ServeError, Take, ChanTypeOK
    <3>3. RpcTypeOK'
      BY <2>18 DEF ServeError, Take, RpcTypeOK
    <3>4. CallTypeOK'
      BY <2>18 DEF ServeError, Take, CallTypeOK
    <3>5. WireTypeOK'
      <4>1. Tail(toServer[n]) \in Seq(Frame) /\ Head(toServer[n]) \in Frame
        BY <2>18 DEF ServeError, Take, Reply, WireTypeOK
      <4>2. Head(toServer[n]).method = "Request" => Ok(Head(toServer[n]).call) \in Frame /\ CloseOk(Head(toServer[n]).call) \in Frame
        BY <4>1 DEF Frame, Ok, CloseOk
      <4>3. toServer' \in [Number -> Seq(Frame)]
        BY <2>18, <4>1 DEF ServeError, Take, Reply, WireTypeOK
      <4>4. toClient' \in [Number -> Seq(Frame)]
        BY <2>18, <4>2, ReplyType DEF ServeError, Take, WireTypeOK
      <4>5. server' \in [Number -> {"closed", "open", "closing"}]
        BY <2>18 DEF ServeError, Take, Reply, WireTypeOK
      <4>6. crossed' \in SUBSET Number
        BY <2>18 DEF ServeError, Take, Reply, WireTypeOK
      <4> QED
        BY <4>3, <4>4, <4>5, <4>6 DEF WireTypeOK
    <3>6. Numbered'
      BY <2>18 DEF ServeError, Numbered, RpcTypeOK, Take
    <3> QED
      BY <3>1, <3>2, <3>3, <3>4, <3>5, <3>6
  <2>19. ASSUME NEW n \in Number, ServerCloses(n) PROVE TypeInv'
    <3>1. ConnTypeOK'
      BY <2>19 DEF ServerCloses, ConnTypeOK
    <3>2. ChanTypeOK'
      BY <2>19 DEF ServerCloses, ChanTypeOK
    <3>3. RpcTypeOK'
      BY <2>19 DEF ServerCloses, RpcTypeOK
    <3>4. CallTypeOK'
      BY <2>19 DEF ServerCloses, CallTypeOK
    <3>5. WireTypeOK'
      BY <2>19, FrameTypes DEF ServerCloses, WireTypeOK
    <3>6. Numbered'
      BY <2>19 DEF ServerCloses, Numbered, RpcTypeOK
    <3> QED
      BY <3>1, <3>2, <3>3, <3>4, <3>5, <3>6
  <2>20. ASSUME ServerSaysBye PROVE TypeInv'
    <3>1. ConnTypeOK'
      BY <2>20 DEF ServerSaysBye, ConnTypeOK
    <3>2. ChanTypeOK'
      BY <2>20 DEF ServerSaysBye, ChanTypeOK
    <3>3. RpcTypeOK'
      BY <2>20 DEF ServerSaysBye, RpcTypeOK
    <3>4. CallTypeOK'
      BY <2>20 DEF ServerSaysBye, CallTypeOK
    <3>5. WireTypeOK'
      BY <2>20 DEF ServerSaysBye, WireTypeOK
    <3>6. Numbered'
      BY <2>20 DEF ServerSaysBye, Numbered, RpcTypeOK
    <3> QED
      BY <3>1, <3>2, <3>3, <3>4, <3>5, <3>6
  <2>21. ASSUME SocketBreaks PROVE TypeInv'
    <3>1. ConnTypeOK'
      BY <2>21 DEF SocketBreaks, WireDown, ConnTypeOK
    <3>2. ChanTypeOK'
      BY <2>21 DEF SocketBreaks, WireDown, ChanTypeOK
    <3>3. RpcTypeOK'
      BY <2>21 DEF SocketBreaks, WireDown, RpcTypeOK
    <3>4. CallTypeOK'
      BY <2>21 DEF SocketBreaks, WireDown, CallTypeOK
    <3>5. WireTypeOK'
      BY <2>21 DEF SocketBreaks, WireDown, WireTypeOK
    <3>6. Numbered'
      BY <2>21 DEF SocketBreaks, Numbered, RpcTypeOK
    <3> QED
      BY <3>1, <3>2, <3>3, <3>4, <3>5, <3>6
  <2>22. CASE UNCHANGED vars
    BY <2>22 DEF vars, ConnTypeOK, ChanTypeOK, RpcTypeOK, CallTypeOK, WireTypeOK, Numbered
  <2> QED
    BY <2>1, <2>2, <2>3, <2>4, <2>5, <2>6, <2>7, <2>8, <2>9, <2>10, <2>11, <2>12,
       <2>13, <2>14, <2>15, <2>16, <2>17, <2>18, <2>19, <2>20, <2>21, <2>22
       DEF Next, Client, Application, Environment
<1> QED
  BY <1>1, <1>2, PTL DEF Spec

\* TypeOK for any number of calls, channels and channel numbers.
THEOREM TypeCorrect == Spec => []TypeOK
<1>1. TypeInv => TypeOK
  BY DEF TypeInv
<1> QED
  BY <1>1, TypeInvariance, PTL

----------------------------------------------------------------------------
\* push adds one element, at the end.
LEMMA AppendElems ==
    ASSUME NEW S, NEW s \in Seq(S), NEW e \in S
    PROVE  /\ Elems(Append(s, e)) = Elems(s) \cup {e}
           /\ Distinct(s) /\ e \notin Elems(s) => Distinct(Append(s, e))
           /\ Append(s, e) # <<>> /\ Append(s, e)[Len(Append(s, e))] = e
  BY DEF Elems, Distinct

\* shift removes the first element and leaves the last one last.
LEMMA TailElems ==
    ASSUME NEW S, NEW s \in Seq(S), s # <<>>, Distinct(s)
    PROVE  /\ Head(s) \in Elems(s)
           /\ Elems(Tail(s)) = Elems(s) \ {Head(s)}
           /\ Distinct(Tail(s))
           /\ Tail(s) # <<>> => Tail(s)[Len(Tail(s))] = s[Len(s)]
<1>1. Head(s) \in Elems(s)
  BY DEF Elems
<1>2. \A i \in DOMAIN Tail(s) : i + 1 \in DOMAIN s /\ Tail(s)[i] = s[i + 1]
  OBVIOUS
<1>3. \A i \in DOMAIN s : i # 1 => i - 1 \in DOMAIN Tail(s) /\ Tail(s)[i - 1] = s[i]
  OBVIOUS
<1>4. Elems(Tail(s)) \subseteq Elems(s) \ {Head(s)}
  BY <1>2 DEF Elems, Distinct
<1>5. ASSUME NEW x \in Elems(s), x # Head(s) PROVE x \in Elems(Tail(s))
  <2>1. PICK i \in DOMAIN s : s[i] = x
    BY DEF Elems
  <2>2. i # 1
    BY <2>1, <1>5
  <2> QED
    BY <2>1, <2>2, <1>3 DEF Elems
<1>6. Distinct(Tail(s))
  BY <1>2 DEF Distinct
<1> QED
  BY <1>1, <1>4, <1>5, <1>6

\* pop removes the last element and nothing else.
LEMMA FrontElems ==
    ASSUME NEW S, NEW s \in Seq(S), s # <<>>, Distinct(s)
    PROVE  LET front == SubSeq(s, 1, Len(s) - 1)
               last == s[Len(s)]
           IN  /\ last \in Elems(s)
               /\ Elems(front) = Elems(s) \ {last}
               /\ Distinct(front)
<1> DEFINE front == SubSeq(s, 1, Len(s) - 1)
           last == s[Len(s)]
<1>1. last \in Elems(s)
  BY DEF Elems
<1>2. DOMAIN front = 1 .. Len(s) - 1 /\ \A i \in 1 .. Len(s) - 1 : front[i] = s[i]
  OBVIOUS
<1>3. DOMAIN s = 1 .. Len(s) /\ Len(s) \in Nat \ {0}
  OBVIOUS
<1> HIDE DEF front
<1>4. Elems(front) = Elems(s) \ {last}
  BY <1>2, <1>3 DEF Elems, Distinct
<1>5. Distinct(front)
  BY <1>2, <1>3 DEF Distinct
<1> QED
  BY <1>1, <1>4, <1>5 DEF front

\* PendingIsHeld is not inductive alone: a call held twice would still be held after
\* it is settled, and a failed write must pop the call it belongs to.
HeldInv == PendingIsHeld /\ HeldOnce /\ WritingIsLast

\* sendRpc: the new call is held by the chain only.
LEMMA SendRpcHeld ==
    ASSUME TypeInv, HeldInv, NEW c \in Call, NEW ch \in Chan, NEW k,
           promise[c] = "none", SendRpc(c, ch, k)
    PROVE  HeldInv'
<1> USE DEF HeldInv, TypeInv, TypeOK, RpcTypeOK, CallTypeOK, SendRpc
<1>1. c \notin Outstanding(ch) /\ c \notin Elems(rpcQueue[ch]) \cup Elems(rpcCallbacks[ch])
  BY DEF PendingIsHeld, Outstanding
<1>2. /\ Elems(rpcQueue'[ch]) = Elems(rpcQueue[ch]) \cup {c}
      /\ Distinct(rpcQueue'[ch])
  BY <1>1, AppendElems DEF HeldOnce
<1>3. \A x \in Chan \ {ch} : rpcQueue'[x] = rpcQueue[x]
  OBVIOUS
<1>4. Outstanding(ch)' = Outstanding(ch) \cup {c}
  BY DEF Outstanding
<1>5. \A x \in Chan \ {ch} : Outstanding(x)' = Outstanding(x)
  BY DEF Outstanding
<1>6. PendingIsHeld'
  BY <1>2, <1>3, <1>4, <1>5 DEF PendingIsHeld
<1>7. HeldOnce'
  BY <1>1, <1>2, <1>3 DEF HeldOnce
<1>8. WritingIsLast'
  <2> SUFFICES ASSUME NEW x \in Chan, sending[x] # None
               PROVE  /\ owner'[sending[x]] = x /\ promise'[sending[x]] # "none"
                      /\ sending[x] \notin Elems(rpcQueue'[x])
    BY DEF WritingIsLast
  <2>1. sending[x] # c /\ sending[x] \in Call
    BY NoneAssumption DEF WritingIsLast
  <2>2. owner'[sending[x]] = x /\ promise'[sending[x]] # "none"
    BY <2>1 DEF WritingIsLast
  <2>3. sending[x] \notin Elems(rpcQueue'[x])
    BY <2>1, <1>2, <1>3 DEF WritingIsLast
  <2> QED
    BY <2>2, <2>3
<1> QED
  BY <1>6, <1>7, <1>8

\* rejectClosed: a call that was never outstanding is held nowhere.
LEMMA RejectClosedHeld ==
    ASSUME TypeInv, HeldInv, NEW c \in Call, promise[c] = "none", RejectClosed(c)
    PROVE  HeldInv'
<1> USE DEF HeldInv, TypeInv, TypeOK, RpcTypeOK, CallTypeOK, RejectClosed, rpcVars
<1>1. \A x \in Chan : Outstanding(x)' = Outstanding(x)
  BY DEF Outstanding
<1>2. PendingIsHeld' /\ HeldOnce'
  BY <1>1 DEF PendingIsHeld, HeldOnce
<1>3. WritingIsLast'
  BY DEF WritingIsLast
<1> QED
  BY <1>2, <1>3

\* The step of the chain moves its call from the chain to the callbacks.
LEMMA StepHeld ==
    ASSUME TypeInv, HeldInv, NEW ch \in Chan, Step(ch)
    PROVE  HeldInv'
<1> USE DEF HeldInv, TypeInv, TypeOK, RpcTypeOK, CallTypeOK
<1> DEFINE c == Head(rpcQueue[ch])
<1>1. /\ rpcQueue[ch] # <<>> /\ rpcQueue' = [rpcQueue EXCEPT ![ch] = Tail(@)]
      /\ rpcCallbacks' = [rpcCallbacks EXCEPT ![ch] = Append(@, c)]
      /\ sending' = [sending EXCEPT ![ch] = c]
      /\ UNCHANGED <<owner, promise>>
  BY DEF Step, callVars
<1>2. c \in Call /\ c \in Elems(rpcQueue[ch]) /\ c \notin Elems(rpcCallbacks[ch])
  BY <1>1, TailElems DEF HeldOnce
<1>3. /\ Elems(rpcQueue'[ch]) = Elems(rpcQueue[ch]) \ {c}
      /\ Distinct(rpcQueue'[ch])
  BY <1>1, TailElems DEF HeldOnce
<1>4. /\ Elems(rpcCallbacks'[ch]) = Elems(rpcCallbacks[ch]) \cup {c}
      /\ Distinct(rpcCallbacks'[ch])
      /\ rpcCallbacks'[ch][Len(rpcCallbacks'[ch])] = c
  BY <1>1, <1>2, AppendElems DEF HeldOnce
<1>5. \A x \in Chan \ {ch} : /\ rpcQueue'[x] = rpcQueue[x]
                             /\ rpcCallbacks'[x] = rpcCallbacks[x]
                             /\ sending'[x] = sending[x]
  BY <1>1
<1>6. \A x \in Chan : Outstanding(x)' = Outstanding(x)
  BY <1>1 DEF Outstanding
<1>7. PendingIsHeld'
  <2>1. Outstanding(ch)' = Elems(rpcQueue'[ch]) \cup Elems(rpcCallbacks'[ch])
    BY <1>2, <1>3, <1>4, <1>6 DEF PendingIsHeld
  <2>2. ASSUME NEW x \in Chan \ {ch}
        PROVE  Outstanding(x)' = Elems(rpcQueue'[x]) \cup Elems(rpcCallbacks'[x])
    BY <1>5, <1>6 DEF PendingIsHeld
  <2> QED
    BY <2>1, <2>2 DEF PendingIsHeld
<1>8. HeldOnce'
  BY <1>2, <1>3, <1>4, <1>5 DEF HeldOnce
<1>9. c \in Outstanding(ch)
  BY <1>2 DEF PendingIsHeld
<1>10. WritingIsLast'
  BY <1>1, <1>3, <1>4, <1>5, <1>9 DEF WritingIsLast, Outstanding
<1> QED
  BY <1>7, <1>8, <1>10

\* Without a socket, the step drops the call and rejects it.
LEMMA StepRejectedHeld ==
    ASSUME TypeInv, HeldInv, NEW ch \in Chan, StepRejected(ch)
    PROVE  HeldInv'
<1> USE DEF HeldInv, TypeInv, TypeOK, RpcTypeOK, CallTypeOK
<1> DEFINE c == Head(rpcQueue[ch])
<1>1. /\ rpcQueue[ch] # <<>> /\ rpcQueue' = [rpcQueue EXCEPT ![ch] = Tail(@)]
      /\ promise' = Settled({c}, "rejected")
      /\ UNCHANGED <<owner, sending, rpcCallbacks>>
  BY DEF StepRejected
<1>2. c \in Call /\ c \in Elems(rpcQueue[ch]) /\ c \notin Elems(rpcCallbacks[ch])
  BY <1>1, TailElems DEF HeldOnce
<1>3. /\ Elems(rpcQueue'[ch]) = Elems(rpcQueue[ch]) \ {c}
      /\ Distinct(rpcQueue'[ch])
  BY <1>1, TailElems DEF HeldOnce
<1>4. \A x \in Chan \ {ch} : rpcQueue'[x] = rpcQueue[x]
  BY <1>1
<1>5. c \in Outstanding(ch)
  BY <1>2 DEF PendingIsHeld
<1>6. \A x \in Chan : Outstanding(x)' = Outstanding(x) \ {c}
  BY <1>1 DEF Outstanding, Settled
<1>7. \A x \in Chan \ {ch} : c \notin Outstanding(x)
  BY <1>5 DEF Outstanding
<1>8. PendingIsHeld'
  BY <1>1, <1>2, <1>3, <1>4, <1>6, <1>7 DEF PendingIsHeld
<1>9. HeldOnce'
  BY <1>1, <1>3, <1>4 DEF HeldOnce
<1>10. WritingIsLast'
  <2>1. \A d \in Call : promise[d] # "none" => promise'[d] # "none"
    BY <1>1 DEF Settled
  <2> SUFFICES ASSUME NEW x \in Chan, sending[x] # None
               PROVE  promise'[sending[x]] # "none" /\ sending[x] \notin Elems(rpcQueue'[x])
    BY <1>1 DEF WritingIsLast
  <2>2. sending[x] \in Call /\ promise[sending[x]] # "none" /\ sending[x] \notin Elems(rpcQueue[x])
    BY DEF WritingIsLast
  <2> QED
    BY <1>3, <1>4, <2>1, <2>2
<1> QED
  BY <1>8, <1>9, <1>10

\* A failed write rejects the call it pops.  If answers have taken all callbacks,
\* the call that failed is settled already.
LEMMA WriteFailedHeld ==
    ASSUME TypeInv, HeldInv, NEW ch \in Chan, WriteFailed(ch)
    PROVE  HeldInv'
<1> USE DEF HeldInv, TypeInv, TypeOK, RpcTypeOK, CallTypeOK
<1> DEFINE s == rpcCallbacks[ch]
<1>1. /\ sending[ch] # None /\ sending' = [sending EXCEPT ![ch] = None]
      /\ UNCHANGED <<owner, rpcQueue>>
  BY DEF WriteFailed, Victim
<1>2. sending[ch] \in Call /\ owner[sending[ch]] = ch /\ promise[sending[ch]] # "none"
      /\ sending[ch] \notin Elems(rpcQueue[ch])
  BY <1>1 DEF WritingIsLast
<1>3. CASE s = <<>>
  <2>1. Elems(s) = {}
    BY <1>3 DEF Elems
  <2>2. promise[sending[ch]] # "pending"
    BY <1>2, <2>1 DEF PendingIsHeld, Outstanding
  <2>3. UNCHANGED <<promise, rpcCallbacks>>
    BY <1>3, <2>2 DEF WriteFailed, Victim, Settled
  <2>4. \A x \in Chan : Outstanding(x)' = Outstanding(x)
    BY <1>1, <2>3 DEF Outstanding
  <2> QED
    BY <1>1, <2>3, <2>4 DEF PendingIsHeld, HeldOnce, WritingIsLast
<1>4. CASE s # <<>>
  <2> DEFINE c == s[Len(s)]
  <2>1. /\ rpcCallbacks' = [rpcCallbacks EXCEPT ![ch] = SubSeq(@, 1, Len(@) - 1)]
        /\ promise' = Settled({c}, "rejected")
    BY <1>4 DEF WriteFailed, Victim
  <2>2. /\ c \in Elems(s)
        /\ Elems(rpcCallbacks'[ch]) = Elems(s) \ {c}
        /\ Distinct(rpcCallbacks'[ch])
    BY <1>4, <2>1, FrontElems DEF HeldOnce
  <2>3. \A x \in Chan \ {ch} : rpcCallbacks'[x] = rpcCallbacks[x] /\ sending'[x] = sending[x]
    BY <1>1, <2>1
  <2>4. c \in Outstanding(ch) /\ c \notin Elems(rpcQueue[ch])
    BY <2>2 DEF PendingIsHeld, HeldOnce
  <2>5. \A x \in Chan : Outstanding(x)' = Outstanding(x) \ {c}
    BY <1>1, <2>1 DEF Outstanding, Settled
  <2>6. \A x \in Chan \ {ch} : c \notin Outstanding(x)
    BY <2>4 DEF Outstanding
  <2>7. PendingIsHeld'
    <3>1. Outstanding(ch)' = Elems(rpcQueue'[ch]) \cup Elems(rpcCallbacks'[ch])
      BY <1>1, <2>2, <2>4, <2>5 DEF PendingIsHeld
    <3>2. ASSUME NEW x \in Chan \ {ch}
          PROVE  Outstanding(x)' = Elems(rpcQueue'[x]) \cup Elems(rpcCallbacks'[x])
      BY <1>1, <2>3, <2>5, <2>6 DEF PendingIsHeld
    <3> QED
      BY <3>1, <3>2 DEF PendingIsHeld
  <2>8. HeldOnce'
    BY <1>1, <2>2, <2>3 DEF HeldOnce
  <2>9. \A d \in Call : promise[d] # "none" => promise'[d] # "none"
    BY <2>1 DEF Settled
  <2>10. WritingIsLast'
    <3> SUFFICES ASSUME NEW x \in Chan \ {ch}, sending[x] # None
                 PROVE  promise'[sending[x]] # "none"
      BY <1>1, <2>3 DEF WritingIsLast
    <3>1. sending[x] \in Call /\ promise[sending[x]] # "none"
      BY DEF WritingIsLast
    <3> QED
      BY <3>1, <2>9
  <2> QED
    BY <2>7, <2>8, <2>10
<1> QED
  BY <1>3, <1>4

\* resolveRPC settles the call it shifts.
LEMMA ResolveRPCHeld ==
    ASSUME TypeInv, HeldInv, NEW ch \in Chan, NEW f, ResolveRPC(ch, f),
           UNCHANGED <<rpcQueue, sending, owner>>
    PROVE  HeldInv'
<1> USE DEF HeldInv, TypeInv, TypeOK, RpcTypeOK, CallTypeOK
<1> DEFINE s == rpcCallbacks[ch]
           c == Head(s)
<1>1. CASE s = <<>>
  <2>1. UNCHANGED <<promise, rpcCallbacks>>
    BY <1>1 DEF ResolveRPC
  <2>2. \A x \in Chan : Outstanding(x)' = Outstanding(x)
    BY <2>1 DEF Outstanding
  <2> QED
    BY <2>1, <2>2 DEF PendingIsHeld, HeldOnce, WritingIsLast
<1>2. CASE s # <<>>
  <2>1. /\ rpcCallbacks' = [rpcCallbacks EXCEPT ![ch] = Tail(@)]
        /\ promise' = Settled({c}, "resolved")
    BY <1>2 DEF ResolveRPC
  <2>2. /\ c \in Elems(s)
        /\ Elems(rpcCallbacks'[ch]) = Elems(s) \ {c}
        /\ Distinct(rpcCallbacks'[ch])
        /\ Tail(s) # <<>> => Tail(s)[Len(Tail(s))] = s[Len(s)]
    BY <1>2, <2>1, TailElems DEF HeldOnce
  <2>3. rpcCallbacks'[ch] = Tail(s) /\ \A x \in Chan \ {ch} : rpcCallbacks'[x] = rpcCallbacks[x]
    BY <2>1
  <2>4. c \in Outstanding(ch) /\ c \notin Elems(rpcQueue[ch])
    BY <2>2 DEF PendingIsHeld, HeldOnce
  <2>5. \A x \in Chan : Outstanding(x)' = Outstanding(x) \ {c}
    BY <2>1 DEF Outstanding, Settled
  <2>6. \A x \in Chan \ {ch} : c \notin Outstanding(x)
    BY <2>4 DEF Outstanding
  <2>7. PendingIsHeld'
    <3>1. Outstanding(ch)' = Elems(rpcQueue'[ch]) \cup Elems(rpcCallbacks'[ch])
      BY <2>2, <2>4, <2>5 DEF PendingIsHeld
    <3>2. ASSUME NEW x \in Chan \ {ch}
          PROVE  Outstanding(x)' = Elems(rpcQueue'[x]) \cup Elems(rpcCallbacks'[x])
      BY <2>3, <2>5, <2>6 DEF PendingIsHeld
    <3> QED
      BY <3>1, <3>2 DEF PendingIsHeld
  <2>8. HeldOnce'
    BY <2>2, <2>3 DEF HeldOnce
  <2>9. \A d \in Call : promise[d] # "none" => promise'[d] # "none"
    BY <2>1 DEF Settled
  <2>10. WritingIsLast'
    <3> SUFFICES ASSUME NEW x \in Chan, sending[x] # None
                 PROVE  /\ promise'[sending[x]] # "none"
                        /\ rpcCallbacks'[x] # <<>>
                             => rpcCallbacks'[x][Len(rpcCallbacks'[x])] = sending[x]
      BY DEF WritingIsLast
    <3>1. /\ sending[x] \in Call /\ promise[sending[x]] # "none"
          /\ rpcCallbacks[x] # <<>> => rpcCallbacks[x][Len(rpcCallbacks[x])] = sending[x]
      BY DEF WritingIsLast
    <3> QED
      BY <1>2, <3>1, <2>2, <2>3, <2>9
  <2> QED
    BY <2>7, <2>8, <2>10
<1> QED
  BY <1>1, <1>2

\* setClosed rejects the calls whose callbacks it clears.
LEMMA SetClosedHeld ==
    ASSUME TypeInv, HeldInv, NEW C \in SUBSET Chan, SetClosed(C),
           UNCHANGED <<rpcQueue, sending, owner>>
    PROVE  HeldInv'
<1> USE DEF HeldInv, TypeInv, TypeOK, RpcTypeOK, CallTypeOK
<1> DEFINE Dropped == UNION {Elems(rpcCallbacks[x]) : x \in NotYetClosed(C)}
<1>1. /\ rpcCallbacks' = [x \in Chan |-> IF x \in NotYetClosed(C) THEN <<>> ELSE rpcCallbacks[x]]
      /\ promise' = Settled(Dropped, "rejected")
  BY DEF SetClosed
<1>2. \A x \in Chan : Outstanding(x)' = Outstanding(x) \ Dropped
  BY <1>1 DEF Outstanding, Settled
<1>3. \A x \in NotYetClosed(C) : x \in Chan /\ rpcCallbacks'[x] = <<>> /\ Elems(rpcCallbacks'[x]) = {}
  BY <1>1 DEF NotYetClosed, Elems
<1>4. \A x \in Chan \ NotYetClosed(C) : rpcCallbacks'[x] = rpcCallbacks[x]
  BY <1>1
<1>5. \A x \in Chan, y \in Chan : x # y => Outstanding(x) \cap Outstanding(y) = {}
  BY DEF Outstanding
<1>6. \A x \in Chan : Elems(rpcCallbacks[x]) \subseteq Outstanding(x)
  BY DEF PendingIsHeld
<1>7. ASSUME NEW x \in Chan
      PROVE  Outstanding(x)' = Elems(rpcQueue'[x]) \cup Elems(rpcCallbacks'[x])
  <2>1. CASE x \in NotYetClosed(C)
    <3>1. Outstanding(x) \cap Dropped = Elems(rpcCallbacks[x])
      <4>1. Elems(rpcCallbacks[x]) \subseteq Outstanding(x) \cap Dropped
        BY <2>1, <1>6
      <4>2. ASSUME NEW d \in Outstanding(x), d \in Dropped PROVE d \in Elems(rpcCallbacks[x])
        <5>1. PICK y \in NotYetClosed(C) : d \in Elems(rpcCallbacks[y])
          BY <4>2
        <5>2. y = x
          BY <5>1, <1>3, <1>5, <1>6
        <5> QED
          BY <5>1, <5>2
      <4> QED
        BY <4>1, <4>2
    <3>2. Outstanding(x) \ Elems(rpcCallbacks[x]) = Elems(rpcQueue[x])
      BY DEF PendingIsHeld, HeldOnce
    <3> QED
      BY <2>1, <1>2, <1>3, <3>1, <3>2
  <2>2. CASE x \notin NotYetClosed(C)
    <3>1. Outstanding(x) \cap Dropped = {}
      <4> SUFFICES ASSUME NEW d \in Outstanding(x), d \in Dropped PROVE FALSE
        OBVIOUS
      <4>1. PICK y \in NotYetClosed(C) : d \in Elems(rpcCallbacks[y])
        OBVIOUS
      <4>2. y \in Chan /\ y # x /\ d \in Outstanding(y)
        BY <2>2, <4>1, <1>3, <1>6
      <4> QED
        BY <4>2, <1>5
    <3> QED
      BY <2>2, <1>2, <1>4, <3>1 DEF PendingIsHeld
  <2> QED
    BY <2>1, <2>2
<1>8. PendingIsHeld'
  BY <1>7 DEF PendingIsHeld
<1>9. HeldOnce'
  <2>1. Distinct(<<>>)
    BY DEF Distinct
  <2> SUFFICES ASSUME NEW x \in Chan
               PROVE  /\ Distinct(rpcQueue[x]) /\ Distinct(rpcCallbacks'[x])
                      /\ Elems(rpcQueue[x]) \cap Elems(rpcCallbacks'[x]) = {}
    BY DEF HeldOnce
  <2>2. CASE x \in NotYetClosed(C)
    BY <2>1, <2>2, <1>3 DEF HeldOnce
  <2>3. CASE x \notin NotYetClosed(C)
    BY <2>3, <1>4 DEF HeldOnce
  <2> QED
    BY <2>2, <2>3
<1>10. WritingIsLast'
  <2>1. \A d \in Call : promise[d] # "none" => promise'[d] # "none"
    BY <1>1 DEF Settled
  <2> SUFFICES ASSUME NEW x \in Chan, sending[x] # None
               PROVE  /\ promise'[sending[x]] # "none"
                      /\ rpcCallbacks'[x] # <<>>
                             => rpcCallbacks'[x][Len(rpcCallbacks'[x])] = sending[x]
    BY DEF WritingIsLast
  <2>2. sending[x] \in Call /\ promise[sending[x]] # "none"
    BY DEF WritingIsLast
  <2> QED
    BY <2>1, <2>2, <1>3, <1>4 DEF WritingIsLast
<1> QED
  BY <1>8, <1>9, <1>10

\* A step that leaves the calls and their holders alone keeps the invariant.
LEMMA StutterHeld ==
    ASSUME HeldInv, UNCHANGED <<rpcVars, owner, promise>>
    PROVE  HeldInv'
<1>1. \A x \in Chan : Outstanding(x)' = Outstanding(x)
  BY DEF Outstanding
<1> QED
  BY <1>1 DEF HeldInv, PendingIsHeld, HeldOnce, WritingIsLast, rpcVars

\* HeldInv holds in every reachable state, one lemma per way to hold or settle a call.
THEOREM HeldInvariance == Spec => []HeldInv
<1>1. Init => HeldInv
  <2> SUFFICES ASSUME Init PROVE HeldInv
    OBVIOUS
  <2>1. \A ch \in Chan : Outstanding(ch) = {}
    BY DEF Init, Outstanding
  <2>2. Elems(<<>>) = {} /\ Distinct(<<>>)
    BY DEF Elems, Distinct
  <2>3. PendingIsHeld
    BY <2>1, <2>2 DEF Init, PendingIsHeld
  <2>4. HeldOnce
    BY <2>2 DEF Init, HeldOnce
  <2>5. WritingIsLast
    BY DEF Init, WritingIsLast
  <2> QED
    BY <2>3, <2>4, <2>5 DEF HeldInv
<1>2. TypeInv /\ HeldInv /\ [Next]_vars => HeldInv'
  <2> SUFFICES ASSUME TypeInv, HeldInv, [Next]_vars PROVE HeldInv'
    OBVIOUS
  <2> USE DEF connVars, chanVars, wireVars
  <2>1. ASSUME NEW c \in Call, NEW ch \in Chan, NEW n \in Number, OpenChannel(c, ch, n) PROVE HeldInv'
    BY <2>1, SendRpcHeld DEF OpenChannel
  <2>2. ASSUME NEW c \in Call, NEW ch \in Chan, Rpc(c, ch) PROVE HeldInv'
    BY <2>2, SendRpcHeld, RejectClosedHeld DEF Rpc
  <2>3. ASSUME NEW c \in Call, NEW ch \in Chan, Close(c, ch) PROVE HeldInv'
    BY <2>3, SendRpcHeld, RejectClosedHeld DEF Close
  <2>4. CASE CloseConnection
    BY <2>4, StutterHeld DEF CloseConnection, callVars
  <2>5. ASSUME NEW ch \in Chan, Step(ch) \/ StepRejected(ch) \/ WriteFailed(ch) PROVE HeldInv'
    BY <2>5, StepHeld, StepRejectedHeld, WriteFailedHeld
  <2>6. ASSUME NEW ch \in Chan, Written(ch) PROVE HeldInv'
    <3>1. \A x \in Chan : sending'[x] # None => sending'[x] = sending[x]
      BY <2>6 DEF Written, TypeInv, TypeOK, RpcTypeOK
    <3>2. UNCHANGED <<rpcQueue, rpcCallbacks, owner, promise>>
      BY <2>6 DEF Written, callVars
    <3>3. \A x \in Chan : Outstanding(x)' = Outstanding(x)
      BY <3>2 DEF Outstanding
    <3> QED
      BY <3>1, <3>2, <3>3 DEF HeldInv, PendingIsHeld, HeldOnce, WritingIsLast
  <2>7. ASSUME NEW n \in Number, SkipFrame(n) PROVE HeldInv'
    BY <2>7, StutterHeld DEF SkipFrame, Read, rpcVars
  <2>8. ASSUME NEW n \in Number, GotAnswer(n) PROVE HeldInv'
    <3>1. slot[n] \in Chan
      BY <2>8 DEF GotAnswer, TypeInv, TypeOK, ChanTypeOK
    <3> QED
      BY <2>8, <3>1, ResolveRPCHeld DEF GotAnswer, Read
  <2>9. ASSUME NEW n \in Number, GotCloseOk(n) PROVE HeldInv'
    <3>1. slot[n] \in Chan
      BY <2>9 DEF GotCloseOk, TypeInv, TypeOK, ChanTypeOK
    <3> QED
      BY <2>9, <3>1, ResolveRPCHeld, SetClosedHeld DEF GotCloseOk, Read
  <2>10. ASSUME NEW n \in Number, ServerClosedChannel(n) PROVE HeldInv'
    <3>1. slot[n] \in Chan
      BY <2>10 DEF ServerClosedChannel, TypeInv, TypeOK, ChanTypeOK
    <3> QED
      BY <2>10, <3>1, SetClosedHeld DEF ServerClosedChannel, Read
  <2>11. CASE ServerClosedConnection \/ ConnectionCloseOk \/ SocketClosed
    <3>1. {slot[n] : n \in Number} \ {None} \in SUBSET Chan
      BY DEF TypeInv, TypeOK, ChanTypeOK
    <3>2. CASE SocketClosed /\ connClosed
      BY <3>2, StutterHeld DEF SocketClosed, rpcVars
    <3>3. CASE DropChannels /\ UNCHANGED <<rpcQueue, sending, owner>>
      BY <3>1, <3>3, SetClosedHeld DEF DropChannels
    <3> QED
      BY <2>11, <3>2, <3>3 DEF ServerClosedConnection, ConnectionCloseOk, SocketClosed
  <2>12. ASSUME NEW n \in Number, Serve(n) \/ ServeClosing(n) \/ ServeError(n) \/ ServerCloses(n)
         PROVE  HeldInv'
    BY <2>12, StutterHeld DEF Serve, ServeClosing, ServeError, ServerCloses, Take, callVars
  <2>13. CASE ServerSaysBye \/ SocketBreaks
    BY <2>13, StutterHeld DEF ServerSaysBye, SocketBreaks, callVars
  <2>14. CASE UNCHANGED vars
    BY <2>14, StutterHeld DEF vars, callVars
  <2> QED
    BY <2>1, <2>2, <2>3, <2>4, <2>5, <2>6, <2>7, <2>8, <2>9, <2>10, <2>11, <2>12, <2>13, <2>14
       DEF Next, Client, Application, Environment
<1> QED
  BY <1>1, <1>2, TypeInvariance, PTL DEF Spec

\* No promise of sendRpc is forgotten, for any number of calls and channels.
THEOREM EveryPendingCallIsHeld == Spec => []PendingIsHeld
<1>1. HeldInv => PendingIsHeld
  BY DEF HeldInv
<1> QED
  BY <1>1, HeldInvariance, PTL

\* The callbacks that a failed write of sendRpc pops are its own.
THEOREM FailedWriteIsLast == Spec => []WritingIsLast
<1>1. HeldInv => WritingIsLast
  BY DEF HeldInv
<1> QED
  BY <1>1, HeldInvariance, PTL

----------------------------------------------------------------------------
\* A pending call is rejected only for its own failed write, the lost socket or the
\* closing of its channel (sendRpc's catch, setClosed): the owner of a rejected
\* callback is found with HeldInv.
THEOREM RejectionsHaveCause == Spec => RejectedForCause
<1> DEFINE Cause(c) == \/ sending[owner[c]] = c
                       \/ sock = "gone"
                       \/ ~closed[owner[c]] /\ closed'[owner[c]]
           Rejected(c) == promise[c] = "pending" /\ promise'[c] = "rejected"
<1>1. TypeInv /\ HeldInv /\ [Next]_vars => [\A c \in Call : Rejected(c) => Cause(c)]_vars
  <2> SUFFICES ASSUME TypeInv, HeldInv, Next, NEW c \in Call, Rejected(c), sock # "gone"
               PROVE  Cause(c)
    OBVIOUS
  <2> USE DEF TypeInv, TypeOK, CallTypeOK
  <2>1. ~UNCHANGED promise
    OBVIOUS
  <2>2. ASSUME NEW d \in Call, NEW ch \in Chan, NEW k, SendRpc(d, ch, k) PROVE FALSE
    BY <2>2 DEF SendRpc
  <2>3. ASSUME NEW d \in Call, promise[d] = "none", RejectClosed(d) PROVE FALSE
    BY <2>3 DEF RejectClosed
  <2>4. ASSUME NEW ch \in Chan, WriteFailed(ch) PROVE Cause(c)
    <3> DEFINE s == rpcCallbacks[ch]
    <3>1. CASE s = <<>>
      BY <2>4, <3>1 DEF WriteFailed, Victim, Settled, HeldInv, WritingIsLast
    <3>2. CASE s # <<>>
      BY <2>4, <3>2 DEF WriteFailed, Victim, Settled, HeldInv, WritingIsLast
    <3> QED
      BY <3>1, <3>2
  <2>5. ASSUME NEW ch, NEW f, ResolveRPC(ch, f) PROVE FALSE
    BY <2>5 DEF ResolveRPC, Settled
  <2>6. ASSUME NEW C \in SUBSET Chan, SetClosed(C) PROVE Cause(c)
    <3>1. PICK ch \in NotYetClosed(C) : c \in Elems(rpcCallbacks[ch])
      BY <2>6 DEF SetClosed, Settled
    <3>2. ch \in Chan /\ ch \in C /\ ~closed[ch]
      BY DEF NotYetClosed
    <3>3. owner[c] = ch
      BY <3>1, <3>2 DEF HeldInv, PendingIsHeld, Outstanding
    <3> QED
      BY <2>6, <3>2, <3>3 DEF SetClosed
  <2>7. CASE Application
    BY <2>7, <2>1, <2>2, <2>3
       DEF Application, OpenChannel, Rpc, Close, CloseConnection, callVars
  <2>8. CASE Environment
    BY <2>8, <2>1 DEF Environment, Serve, ServeClosing, ServeError, Take, ServerCloses,
                      ServerSaysBye, SocketBreaks, callVars
  <2>9. CASE Client
    <3>1. \A n \in Number : slot[n] # None => {slot[n]} \in SUBSET Chan
      BY DEF ChanTypeOK
    <3>2. {slot[n] : n \in Number} \ {None} \in SUBSET Chan
      BY <3>1
    <3>3. CASE \E ch \in Chan : Step(ch) \/ StepRejected(ch) \/ Written(ch) \/ WriteFailed(ch)
      BY <3>3, <2>1, <2>4 DEF Step, StepRejected, Written, callVars
    <3>4. CASE \E n \in Number : \/ SkipFrame(n) \/ GotAnswer(n)
                                 \/ GotCloseOk(n) \/ ServerClosedChannel(n)
      BY <3>4, <3>1, <2>1, <2>5, <2>6
         DEF SkipFrame, GotAnswer, GotCloseOk, ServerClosedChannel
    <3>5. CASE ServerClosedConnection \/ ConnectionCloseOk \/ SocketClosed
      BY <3>5, <3>2, <2>1, <2>6
         DEF ServerClosedConnection, ConnectionCloseOk, SocketClosed, DropChannels
    <3> QED
      BY <2>9, <3>3, <3>4, <3>5 DEF Client
  <2> QED
    BY <2>7, <2>8, <2>9 DEF Next
<1> QED
  BY <1>1, TypeInvariance, HeldInvariance, PTL DEF Spec, RejectedForCause

\* The table and the ids of the objects agree, so that an object leaves the table
\* under its own number only.
SlotNumbered == \A n \in Number : slot[n] # None => number[slot[n]] = n
TableInv == TableIsLive /\ SlotNumbered

\* Closing the objects that leave the table keeps every other object attached.
LEMMA DropTable ==
    ASSUME TypeInv, TableInv, NEW C \in SUBSET Chan, SetClosed(C), UNCHANGED number,
           \A n \in Number : slot'[n] = slot[n] \/ (slot'[n] = None /\ (slot[n] # None => slot[n] \in C))
    PROVE  TableInv'
<1>1. \A ch \in Chan : closed'[ch] <=> (closed[ch] \/ ch \in C)
  BY DEF SetClosed, TypeInv, TypeOK, ChanTypeOK
<1>2. \A ch \in Chan : number[ch] # None => number[ch] \in Number
  BY DEF TypeInv, TypeOK, ChanTypeOK
<1>3. TableIsLive'
  BY <1>1, <1>2, NoneAssumption DEF TableInv, TableIsLive
<1>4. SlotNumbered'
  BY DEF TableInv, SlotNumbered
<1> QED
  BY <1>3, <1>4 DEF TableInv

\* The case of one object, the one under number n.
LEMMA DropEntry ==
    ASSUME TypeInv, TableInv, NEW n \in Number, slot[n] \in Chan, SetClosed({slot[n]}),
           UNCHANGED number, slot' = [slot EXCEPT ![n] = None]
    PROVE  TableInv'
<1> DEFINE C == {slot[n]}
<1>1. C \in SUBSET Chan /\ SetClosed(C)
  OBVIOUS
<1>2. slot[n] \in C
  OBVIOUS
<1> HIDE DEF C
<1>3. ASSUME NEW m \in Number
      PROVE  slot'[m] = slot[m] \/ (slot'[m] = None /\ (slot[m] # None => slot[m] \in C))
  <2>1. CASE m = n
    BY <1>2, <2>1 DEF TypeInv, TypeOK, ChanTypeOK
  <2>2. CASE m # n
    BY <2>2 DEF TypeInv, TypeOK, ChanTypeOK
  <2> QED
    BY <2>1, <2>2
<1> QED
  BY <1>1, <1>3, DropTable

\* Both hold in every reachable state.
THEOREM TableInvariance == Spec => []TableInv
<1>1. Init => TableInv
  BY DEF Init, TableInv, TableIsLive, SlotNumbered
<1>2. TypeInv /\ TableInv /\ [Next]_vars => TableInv'
  <2> SUFFICES ASSUME TypeInv, TableInv, [Next]_vars PROVE TableInv'
    OBVIOUS
  <2>1. ASSUME UNCHANGED chanVars PROVE TableInv'
    BY <2>1 DEF chanVars, TableInv, TableIsLive, SlotNumbered
  <2>2. ASSUME NEW c \in Call, NEW ch \in Chan, NEW n \in Number, OpenChannel(c, ch, n) PROVE TableInv'
    <3>1. /\ number[ch] = None /\ slot[n] = None /\ UNCHANGED closed
          /\ slot' = [slot EXCEPT ![n] = ch] /\ number' = [number EXCEPT ![ch] = n]
      BY <2>2 DEF OpenChannel
    <3>2. \A m \in Number : slot[m] # ch
      BY <3>1, NoneAssumption DEF TableInv, SlotNumbered
    <3> USE DEF TypeInv, TypeOK, ChanTypeOK
    <3>3. TableIsLive'
      BY <3>1, <3>2, NoneAssumption DEF TableInv, TableIsLive
    <3>4. SlotNumbered'
      BY <3>1, <3>2, NoneAssumption DEF TableInv, SlotNumbered
    <3> QED
      BY <3>3, <3>4 DEF TableInv
  <2>3. ASSUME NEW c \in Call, NEW ch \in Chan, Rpc(c, ch) PROVE TableInv'
    BY <2>3, <2>1 DEF Rpc, RejectClosed
  <2>4. ASSUME NEW c \in Call, NEW ch \in Chan, Close(c, ch) PROVE TableInv'
    <3>1. CASE RejectClosed(c)
      BY <3>1, <2>1 DEF RejectClosed
    <3>2. CASE closed' = [closed EXCEPT ![ch] = TRUE] /\ UNCHANGED <<slot, number>>
      BY <3>2 DEF TableInv, TableIsLive, SlotNumbered, TypeInv, TypeOK, ChanTypeOK
    <3> QED
      BY <2>4, <3>1, <3>2 DEF Close
  <2>5. CASE CloseConnection
    BY <2>5, <2>1 DEF CloseConnection
  <2>6. ASSUME NEW ch \in Chan, Step(ch) \/ StepRejected(ch) \/ Written(ch) \/ WriteFailed(ch)
        PROVE  TableInv'
    BY <2>6, <2>1 DEF Step, StepRejected, Written, WriteFailed
  <2>7. ASSUME NEW n \in Number, SkipFrame(n) \/ GotAnswer(n) PROVE TableInv'
    BY <2>7, <2>1 DEF SkipFrame, GotAnswer, Read, chanVars
  <2>8. \A n \in Number : slot[n] # None => slot[n] \in Chan
    BY DEF TypeInv, TypeOK, ChanTypeOK
  <2>9. ASSUME NEW n \in Number, GotCloseOk(n) PROVE TableInv'
    <3>1. slot[n] \in Chan /\ slot' = [slot EXCEPT ![n] = None] /\ UNCHANGED number
      BY <2>8, <2>9 DEF GotCloseOk, Read
    <3>2. CASE SetClosed({slot[n]})
      BY <3>1, <3>2, DropEntry
    <3>3. CASE closed[slot[n]] /\ UNCHANGED closed
      BY <3>1, <3>3, NoneAssumption DEF TableInv, TableIsLive, SlotNumbered, TypeInv, TypeOK, ChanTypeOK
    <3> QED
      BY <2>9, <3>2, <3>3 DEF GotCloseOk
  <2>10. ASSUME NEW n \in Number, ServerClosedChannel(n) PROVE TableInv'
    <3>1. slot[n] \in Chan /\ slot' = [slot EXCEPT ![n] = None] /\ UNCHANGED number
      BY <2>8, <2>10 DEF ServerClosedChannel, Read
    <3>2. SetClosed({slot[n]})
      BY <2>10 DEF ServerClosedChannel
    <3> QED
      BY <3>1, <3>2, DropEntry
  <2>11. CASE DropChannels /\ UNCHANGED number
    BY <2>8, <2>11, DropTable DEF DropChannels
  <2>12. CASE ServerClosedConnection \/ ConnectionCloseOk \/ SocketClosed
    <3>1. CASE SocketClosed /\ connClosed
      BY <3>1, <2>1 DEF SocketClosed, chanVars
    <3> QED
      BY <2>12, <2>11, <3>1 DEF ServerClosedConnection, ConnectionCloseOk, SocketClosed
  <2>13. CASE Environment
    BY <2>13, <2>1 DEF Environment, Serve, ServeClosing, ServeError, Take, ServerCloses,
                       ServerSaysBye, SocketBreaks
  <2>14. CASE UNCHANGED vars
    BY <2>14, <2>1 DEF vars
  <2> QED
    BY <2>2, <2>3, <2>4, <2>5, <2>6, <2>7, <2>9, <2>10, <2>12, <2>13, <2>14
       DEF Next, Client, Application
<1> QED
  BY <1>1, <1>2, TypeInvariance, PTL DEF Spec

\* An AMQPChannel outside the table of channels is closed: Channel.Close,
\* Channel.CloseOk and the loss of the connection mark it before they drop it.
THEOREM DetachedAreClosed == Spec => []TableIsLive
<1>1. TableInv => TableIsLive
  BY DEF TableInv
<1> QED
  BY <1>1, TableInvariance, PTL

----------------------------------------------------------------------------
(* ChannelRpc implements RpcOrder: every step of the channel maps to a step of *)
(* the abstract specification or to a stutter.                                 *)
\* How push and shift on either part act on callbacks \o queue.
LEMMA ConcatOuter ==
    ASSUME NEW S, NEW a \in Seq(S), NEW b \in Seq(S)
    PROVE  /\ \A e \in S : a \o Append(b, e) = Append(a \o b, e)
           /\ b # <<>> => Append(a, Head(b)) \o Tail(b) = a \o b
           /\ a # <<>> => Tail(a) \o b = Tail(a \o b) /\ Head(a \o b) = Head(a) /\ a \o b # <<>>
           /\ SubSeq(a \o b, Len(a) + 1, Len(a \o b)) = b
           /\ SubSeq(a \o b, 1, Len(a \o b)) = a \o b
           /\ <<>> \o b = b
<1>1. \A e \in S : a \o Append(b, e) = Append(a \o b, e)
  OBVIOUS
<1>2. b # <<>> => Append(a, Head(b)) \o Tail(b) = a \o b
  OBVIOUS
<1>3. a # <<>> => Tail(a) \o b = Tail(a \o b) /\ Head(a \o b) = Head(a) /\ a \o b # <<>>
  OBVIOUS
<1>4. SubSeq(a \o b, Len(a) + 1, Len(a \o b)) = b /\ SubSeq(a \o b, 1, Len(a \o b)) = a \o b
  OBVIOUS
<1>5. <<>> \o b = b
  OBVIOUS
<1> QED
  BY <1>1, <1>2, <1>3, <1>4, <1>5

\* Popping the last callback removes that element from callbacks \o queue.
LEMMA WithoutLastOfFirst ==
    ASSUME NEW S, NEW a \in Seq(S), NEW b \in Seq(S), a # <<>>
    PROVE  /\ SubSeq(a, 1, Len(a) - 1) \o b = Order!Without(a \o b, Len(a))
           /\ (a \o b)[Len(a)] = a[Len(a)] /\ Len(a) \in DOMAIN (a \o b)
<1>1. SubSeq(a \o b, 1, Len(a) - 1) = SubSeq(a, 1, Len(a) - 1)
  OBVIOUS
<1>2. SubSeq(a \o b, Len(a) + 1, Len(a \o b)) = b
  OBVIOUS
<1>3. (a \o b)[Len(a)] = a[Len(a)] /\ Len(a) \in DOMAIN (a \o b)
  OBVIOUS
<1> QED
  BY <1>1, <1>2, <1>3 DEF Order!Without

\* Dropping the head of the queue removes that element from callbacks \o queue.
LEMMA WithoutFirstOfLast ==
    ASSUME NEW S, NEW a \in Seq(S), NEW b \in Seq(S), b # <<>>
    PROVE  /\ a \o Tail(b) = Order!Without(a \o b, Len(a) + 1)
           /\ (a \o b)[Len(a) + 1] = Head(b) /\ Len(a) + 1 \in DOMAIN (a \o b)
<1>1. SubSeq(a \o b, 1, Len(a)) = a
  OBVIOUS
<1>2. SubSeq(a \o b, (Len(a) + 1) + 1, Len(a \o b)) = Tail(b)
  OBVIOUS
<1>3. (a \o b)[Len(a) + 1] = Head(b) /\ Len(a) + 1 \in DOMAIN (a \o b) /\ (Len(a) + 1) - 1 = Len(a)
  OBVIOUS
<1> QED
  BY <1>1, <1>2, <1>3 DEF Order!Without

\* sendRpc issues a call.
LEMMA SendRpcIssues ==
    ASSUME TypeInv, NEW c \in Call, NEW ch \in Chan, NEW k, promise[c] = "none", SendRpc(c, ch, k)
    PROVE  Order!Next
<1>1. /\ rpcQueue' = [rpcQueue EXCEPT ![ch] = Append(@, c)]
      /\ promise' = [promise EXCEPT ![c] = "pending"] /\ UNCHANGED rpcCallbacks
  BY DEF SendRpc
<1>2. rpcCallbacks[ch] \o Append(rpcQueue[ch], c) = Append(outstanding[ch], c)
  BY ConcatOuter DEF outstanding, TypeInv, TypeOK, RpcTypeOK
<1>3. outstanding' = [outstanding EXCEPT ![ch] = Append(@, c)]
  BY <1>1, <1>2 DEF outstanding, TypeInv, TypeOK, RpcTypeOK
<1> QED
  BY <1>1, <1>3 DEF Order!Next, Order!Issue

\* A step without a socket fails one outstanding call.
LEMMA StepRejectedFails ==
    ASSUME TypeInv, HeldInv, NEW ch \in Chan, StepRejected(ch)
    PROVE  Order!Next
<1> USE DEF TypeInv, TypeOK, RpcTypeOK, CallTypeOK
<1> DEFINE c == Head(rpcQueue[ch])
           i == Len(rpcCallbacks[ch]) + 1
<1>1. /\ rpcQueue[ch] # <<>> /\ rpcQueue' = [rpcQueue EXCEPT ![ch] = Tail(@)]
      /\ promise' = Settled({c}, "rejected") /\ UNCHANGED rpcCallbacks
  BY DEF StepRejected
<1>2. c \in Call /\ promise[c] = "pending"
  BY <1>1, TailElems DEF HeldInv, HeldOnce, PendingIsHeld, Outstanding
<1>3. /\ rpcCallbacks[ch] \o Tail(rpcQueue[ch]) = Order!Without(outstanding[ch], i)
      /\ outstanding[ch][i] = c /\ i \in DOMAIN outstanding[ch]
  BY <1>1, WithoutFirstOfLast DEF outstanding
<1>4. outstanding' = [outstanding EXCEPT ![ch] = Order!Without(@, i)]
  BY <1>1, <1>3 DEF outstanding
<1>5. promise' = [promise EXCEPT ![c] = "rejected"]
  BY <1>1, <1>2 DEF Settled
<1> QED
  BY <1>2, <1>3, <1>4, <1>5 DEF Order!Next, Order!Fail

\* A failed write fails one outstanding call, or none.
LEMMA WriteFailedFails ==
    ASSUME TypeInv, HeldInv, NEW ch \in Chan, WriteFailed(ch)
    PROVE  Order!Next \/ UNCHANGED Order!vars
<1> USE DEF TypeInv, TypeOK, RpcTypeOK, CallTypeOK
<1> DEFINE s == rpcCallbacks[ch]
           c == s[Len(s)]
<1>1. UNCHANGED rpcQueue
  BY DEF WriteFailed, Victim
<1>2. CASE s = <<>>
  <2>1. promise[sending[ch]] # "pending"
    BY <1>2 DEF WriteFailed, Victim, HeldInv, WritingIsLast, PendingIsHeld, Outstanding, Elems
  <2>2. UNCHANGED <<promise, rpcCallbacks>>
    BY <1>2, <2>1 DEF WriteFailed, Victim, Settled
  <2> QED
    BY <1>1, <2>2 DEF Order!vars, outstanding
<1>3. CASE s # <<>>
  <2>1. /\ rpcCallbacks' = [rpcCallbacks EXCEPT ![ch] = SubSeq(@, 1, Len(@) - 1)]
        /\ promise' = Settled({c}, "rejected")
    BY <1>3 DEF WriteFailed, Victim
  <2>2. c \in Call /\ promise[c] = "pending"
    BY <1>3, FrontElems DEF HeldInv, HeldOnce, PendingIsHeld, Outstanding
  <2>3. /\ SubSeq(s, 1, Len(s) - 1) \o rpcQueue[ch] = Order!Without(outstanding[ch], Len(s))
        /\ outstanding[ch][Len(s)] = c /\ Len(s) \in DOMAIN outstanding[ch]
    BY <1>3, WithoutLastOfFirst DEF outstanding
  <2>4. outstanding' = [outstanding EXCEPT ![ch] = Order!Without(@, Len(s))]
    BY <1>1, <2>1, <2>3 DEF outstanding
  <2>5. promise' = [promise EXCEPT ![c] = "rejected"]
    BY <2>1, <2>2 DEF Settled
  <2> QED
    BY <2>2, <2>3, <2>4, <2>5 DEF Order!Next, Order!Fail
<1> QED
  BY <1>2, <1>3

\* resolveRPC fulfils the oldest outstanding call, or none.
LEMMA ResolveRPCFulfils ==
    ASSUME TypeInv, HeldInv, NEW ch \in Chan, NEW f, ResolveRPC(ch, f), UNCHANGED rpcQueue
    PROVE  Order!Next \/ UNCHANGED Order!vars
<1> USE DEF TypeInv, TypeOK, RpcTypeOK, CallTypeOK
<1> DEFINE s == rpcCallbacks[ch]
           c == Head(s)
<1>1. CASE s = <<>>
  BY <1>1 DEF ResolveRPC, Order!vars, outstanding
<1>2. CASE s # <<>>
  <2>1. /\ rpcCallbacks' = [rpcCallbacks EXCEPT ![ch] = Tail(@)]
        /\ promise' = Settled({c}, "resolved")
    BY <1>2 DEF ResolveRPC
  <2>2. c \in Call /\ promise[c] = "pending"
    BY <1>2, TailElems DEF HeldInv, HeldOnce, PendingIsHeld, Outstanding
  <2>3. /\ Tail(s) \o rpcQueue[ch] = Tail(outstanding[ch])
        /\ Head(outstanding[ch]) = c /\ outstanding[ch] # <<>>
    BY <1>2, ConcatOuter DEF outstanding
  <2>4. outstanding' = [outstanding EXCEPT ![ch] = Tail(@)]
    BY <2>1, <2>3 DEF outstanding
  <2>5. promise' = [promise EXCEPT ![c] = "resolved"]
    BY <2>1, <2>2 DEF Settled
  <2> QED
    BY <2>2, <2>3, <2>4, <2>5 DEF Order!Next, Order!Fulfil
<1> QED
  BY <1>1, <1>2

\* setClosed abandons, on every channel it closes, the calls with callbacks: a run of
\* the oldest outstanding ones.
LEMMA SetClosedAbandons ==
    ASSUME TypeInv, HeldInv, NEW C \in SUBSET Chan, SetClosed(C), UNCHANGED rpcQueue
    PROVE  Order!Next
<1> USE DEF TypeInv, TypeOK, RpcTypeOK, CallTypeOK
<1> DEFINE n == [ch \in Chan |-> IF ch \in NotYetClosed(C) THEN Len(rpcCallbacks[ch]) ELSE 0]
           Dropped == UNION {Elems(rpcCallbacks[ch]) : ch \in NotYetClosed(C)}
<1>1. /\ rpcCallbacks' = [ch \in Chan |-> IF ch \in NotYetClosed(C) THEN <<>> ELSE rpcCallbacks[ch]]
      /\ promise' = Settled(Dropped, "rejected")
  BY DEF SetClosed
<1>2. \A ch \in Chan : /\ Len(outstanding[ch]) = Len(rpcCallbacks[ch]) + Len(rpcQueue[ch])
                       /\ Len(outstanding[ch]) \in Nat
                       /\ \A i \in 1 .. Len(rpcCallbacks[ch]) : outstanding[ch][i] = rpcCallbacks[ch][i]
  BY DEF outstanding
<1>3. n \in Order!Cuts /\ \A ch \in Chan : n[ch] <= Len(outstanding[ch])
  <2>1. ASSUME NEW ch \in Chan PROVE n[ch] \in 0 .. Len(outstanding[ch])
    BY <1>2 DEF NotYetClosed
  <2>2. \A ch \in Chan : n[ch] <= Len(outstanding[ch])
    BY <2>1, <1>2
  <2>3. ASSUME NEW ch \in Chan PROVE n[ch] \in UNION {0 .. Len(outstanding[x]) : x \in Chan}
    <3>1. n[ch] \in 0 .. Len(outstanding[ch])
      BY <2>1
    <3> HIDE DEF n
    <3> QED
      BY <3>1
  <2> QED
    BY <2>2, <2>3 DEF Order!Cuts
<1>4. Order!Lost(n) = Dropped
  <2>1. ASSUME NEW ch \in Chan
        PROVE  {outstanding[ch][i] : i \in 1 .. n[ch]}
                 = IF ch \in NotYetClosed(C) THEN Elems(rpcCallbacks[ch]) ELSE {}
    <3>1. CASE ch \in NotYetClosed(C)
      <4>1. n[ch] = Len(rpcCallbacks[ch]) /\ DOMAIN rpcCallbacks[ch] = 1 .. Len(rpcCallbacks[ch])
        BY <3>1
      <4>2. \A i \in DOMAIN rpcCallbacks[ch] : outstanding[ch][i] = rpcCallbacks[ch][i]
        BY <4>1, <1>2
      <4> HIDE DEF n
      <4>3. {outstanding[ch][i] : i \in 1 .. n[ch]} = {rpcCallbacks[ch][i] : i \in DOMAIN rpcCallbacks[ch]}
        <5> DEFINE D == DOMAIN rpcCallbacks[ch]
        <5>1. 1 .. n[ch] = D
          BY <4>1
        <5>2. {outstanding[ch][i] : i \in D} = {rpcCallbacks[ch][i] : i \in D}
          BY <4>2, Zenon
        <5> QED
          BY <5>1, <5>2
      <4> QED
        BY <3>1, <4>3 DEF Elems
    <3>2. CASE ch \notin NotYetClosed(C)
      BY <3>2
    <3> QED
      BY <3>1, <3>2
  <2>2. NotYetClosed(C) \subseteq Chan
    BY DEF NotYetClosed
  <2> HIDE DEF n
  <2>3. ASSUME NEW c \in Order!Lost(n) PROVE c \in Dropped
    <3>1. PICK ch \in Chan : c \in {outstanding[ch][i] : i \in 1 .. n[ch]}
      BY <2>3 DEF Order!Lost
    <3> QED
      BY <3>1, <2>1
  <2>4. ASSUME NEW c \in Dropped PROVE c \in Order!Lost(n)
    <3>1. PICK ch \in NotYetClosed(C) : c \in Elems(rpcCallbacks[ch])
      BY <2>4
    <3>2. c \in {outstanding[ch][i] : i \in 1 .. n[ch]}
      BY <3>1, <2>1, <2>2
    <3> QED
      BY <3>1, <3>2, <2>2 DEF Order!Lost
  <2> QED
    BY <2>3, <2>4
<1>5. \A c \in Dropped : promise[c] = "pending"
  BY DEF HeldInv, PendingIsHeld, Outstanding, NotYetClosed
<1>6. promise' = [c \in Call |-> IF c \in Order!Lost(n) THEN "rejected" ELSE promise[c]]
  BY <1>1, <1>4, <1>5 DEF Settled
<1>7. outstanding' = [ch \in Chan |-> SubSeq(outstanding[ch], n[ch] + 1, Len(outstanding[ch]))]
  <2>1. ASSUME NEW ch \in Chan
        PROVE  rpcCallbacks'[ch] \o rpcQueue[ch] = SubSeq(outstanding[ch], n[ch] + 1, Len(outstanding[ch]))
    <3>1. CASE ch \in NotYetClosed(C)
      BY <1>1, <3>1, ConcatOuter DEF outstanding
    <3>2. CASE ch \notin NotYetClosed(C)
      BY <1>1, <3>2, ConcatOuter DEF outstanding
    <3> QED
      BY <3>1, <3>2
  <2> QED
    BY <2>1 DEF outstanding
<1> QED
  BY <1>3, <1>6, <1>7 DEF Order!Next, Order!Abandon

\* The channel implements RpcOrder, for any number of calls, channels and numbers:
\* the oldest outstanding call of a channel is the only one an answer can fulfil.
THEOREM ImplementsOrder == Spec => OrderSpec
<1>1. Init => Order!Init
  BY DEF Init, Order!Init, outstanding
<1>2. TypeInv /\ HeldInv /\ [Next]_vars => [Order!Next]_Order!vars
  <2> SUFFICES ASSUME TypeInv, HeldInv, [Next]_vars PROVE Order!Next \/ UNCHANGED Order!vars
    OBVIOUS
  <2> USE DEF connVars, chanVars, wireVars
  <2>0. ASSUME UNCHANGED <<rpcQueue, rpcCallbacks, promise>> PROVE UNCHANGED Order!vars
    BY <2>0 DEF Order!vars, outstanding
  <2>1. ASSUME NEW c \in Call, NEW ch \in Chan, NEW n \in Number, OpenChannel(c, ch, n) PROVE Order!Next
    BY <2>1, SendRpcIssues DEF OpenChannel
  <2>2. ASSUME NEW c \in Call, RejectClosed(c), promise[c] = "none" PROVE Order!Next
    BY <2>2 DEF RejectClosed, rpcVars, outstanding, Order!Next, Order!Refuse
  <2>3. ASSUME NEW c \in Call, NEW ch \in Chan, Rpc(c, ch) \/ Close(c, ch) PROVE Order!Next
    BY <2>3, <2>2, SendRpcIssues DEF Rpc, Close
  <2>4. CASE CloseConnection
    BY <2>4, <2>0 DEF CloseConnection, rpcVars, callVars
  <2>5. ASSUME NEW ch \in Chan, Step(ch) PROVE UNCHANGED Order!vars
    <3>1. /\ rpcQueue[ch] # <<>> /\ rpcQueue' = [rpcQueue EXCEPT ![ch] = Tail(@)]
          /\ rpcCallbacks' = [rpcCallbacks EXCEPT ![ch] = Append(@, Head(rpcQueue[ch]))]
          /\ UNCHANGED promise
      BY <2>5 DEF Step, callVars
    <3>2. Append(rpcCallbacks[ch], Head(rpcQueue[ch])) \o Tail(rpcQueue[ch])
            = rpcCallbacks[ch] \o rpcQueue[ch]
      BY <3>1, ConcatOuter DEF TypeInv, TypeOK, RpcTypeOK
    <3>3. outstanding' = outstanding
      BY <3>1, <3>2 DEF outstanding, TypeInv, TypeOK, RpcTypeOK
    <3> QED
      BY <3>1, <3>3 DEF Order!vars
  <2>6. ASSUME NEW ch \in Chan, StepRejected(ch) \/ WriteFailed(ch)
        PROVE  Order!Next \/ UNCHANGED Order!vars
    BY <2>6, StepRejectedFails, WriteFailedFails
  <2>7. ASSUME NEW ch \in Chan, Written(ch) PROVE UNCHANGED Order!vars
    BY <2>7, <2>0 DEF Written, callVars
  <2>8. ASSUME NEW n \in Number, SkipFrame(n) PROVE UNCHANGED Order!vars
    BY <2>8, <2>0 DEF SkipFrame, Read
  <2>9. ASSUME NEW n \in Number, slot[n] # None PROVE slot[n] \in Chan
    BY <2>9 DEF TypeInv, TypeOK, ChanTypeOK
  <2>10. ASSUME NEW n \in Number, GotAnswer(n) PROVE Order!Next \/ UNCHANGED Order!vars
    BY <2>9, <2>10, ResolveRPCFulfils DEF GotAnswer, Read
  <2>11. ASSUME NEW n \in Number, GotCloseOk(n) PROVE Order!Next \/ UNCHANGED Order!vars
    BY <2>9, <2>11, ResolveRPCFulfils, SetClosedAbandons DEF GotCloseOk, Read
  <2>12. ASSUME NEW n \in Number, ServerClosedChannel(n) PROVE Order!Next
    BY <2>9, <2>12, SetClosedAbandons DEF ServerClosedChannel, Read
  <2>13. CASE ServerClosedConnection \/ ConnectionCloseOk \/ SocketClosed
    <3>1. {slot[n] : n \in Number} \ {None} \in SUBSET Chan
      BY <2>9
    <3>2. CASE SocketClosed /\ connClosed
      BY <3>2, <2>0 DEF SocketClosed
    <3>3. CASE DropChannels /\ UNCHANGED rpcQueue
      BY <3>1, <3>3, SetClosedAbandons DEF DropChannels
    <3> QED
      BY <2>13, <3>2, <3>3 DEF ServerClosedConnection, ConnectionCloseOk, SocketClosed
  <2>14. ASSUME NEW n \in Number, Serve(n) \/ ServeClosing(n) \/ ServeError(n) \/ ServerCloses(n)
         PROVE  UNCHANGED Order!vars
    BY <2>14, <2>0 DEF Serve, ServeClosing, ServeError, ServerCloses, Take, rpcVars, callVars
  <2>15. CASE ServerSaysBye \/ SocketBreaks
    BY <2>15, <2>0 DEF ServerSaysBye, SocketBreaks, rpcVars, callVars
  <2>16. CASE UNCHANGED vars
    BY <2>16, <2>0 DEF vars, rpcVars, callVars
  <2> QED
    BY <2>1, <2>3, <2>4, <2>5, <2>6, <2>7, <2>8, <2>10, <2>11, <2>12, <2>13, <2>14, <2>15, <2>16
       DEF Next, Client, Application, Environment
<1> QED
  BY <1>1, <1>2, TypeInvariance, HeldInvariance, PTL DEF Spec, OrderSpec, Order!Spec

----------------------------------------------------------------------------
(* Answers are their calls'.  Nothing on the wire says whose answer a frame is, so this
   is about positions.  On a number that no frame of a replaced object crosses, the
   callbacks of the object in the table are, in order, the calls of the answers on the
   way to the client and of the requests on the way to the server; and between a channel
   exception and the client's close-ok, the requests under way are those the server will
   drop. *)


\* The callbacks that an answer on number n finds
Callbacks(n) == IF slot[n] = None THEN <<>> ELSE rpcCallbacks[slot[n]]

\* The broker still takes frames.
Live == bye \in {"none", "asked"}

\* A close is the last call of its object, which is marked closed before the close
\* is written.
CloseIsLast ==
    \A ch \in Chan :
        /\ \A i \in 1 .. Len(rpcQueue[ch]) : kind[rpcQueue[ch][i]] = "close" =>
                i = Len(rpcQueue[ch]) /\ closed[ch]
        /\ \A i \in 1 .. Len(rpcCallbacks[ch]) : kind[rpcCallbacks[ch][i]] = "close" =>
                i = Len(rpcCallbacks[ch]) /\ rpcQueue[ch] = <<>> /\ closed[ch]

\* A call that waits, or was fulfilled, belongs to an object that has its number.
CallsOwned ==
    \A c \in Call : promise[c] \in {"pending", "resolved"} =>
        owner[c] \in Chan /\ number[owner[c]] \in Number

\* Frame i to the client answers the i-th callbacks.
Answers(n, i) ==
    /\ i \in 1 .. Len(Callbacks(n)) /\ toClient[n][i].call = Callbacks(n)[i]
    /\ toClient[n][i].method \in {"Ok", "CloseOk"}

\* The number is in step: what is on the wire is what the callbacks wait for.
InStep(n) ==
    /\ server[n] # "closing"
    /\ slot[n] = None => server[n] = "closed"
    /\ \A i \in 1 .. Len(toClient[n]) :
          /\ Answers(n, i)
          /\ toClient[n][i].method = "CloseOk" =>
                kind[toClient[n][i].call] = "close" /\ server[n] = "closed"
    /\ Live => /\ Len(Callbacks(n)) = Len(toClient[n]) + Len(toServer[n])
               /\ \A j \in 1 .. Len(toServer[n]) :
                     toServer[n][j] = Request(Callbacks(n)[Len(toClient[n]) + j])

\* The server has sent Channel.Close, frame k to the client: what is behind it, or on the
\* way to the server, belongs to callbacks that no answer before the Close will take.
ToldToClose(n) ==
    /\ server[n] = "closing" /\ slot[n] # None
    /\ \E k \in 1 .. Len(toClient[n]) :
          /\ toClient[n][k] = CloseMethod
          /\ \A i \in 1 .. k - 1 : Answers(n, i) /\ toClient[n][i].method = "Ok"
          /\ \A i \in k + 1 .. Len(toClient[n]) :
                /\ kind[toClient[n][i].call] = "close"
                /\ \E j \in k .. Len(Callbacks(n)) : Callbacks(n)[j] = toClient[n][i].call
          /\ \A i \in 1 .. Len(toServer[n]) :
                /\ toServer[n][i].method = "Request"
                /\ \E j \in k .. Len(Callbacks(n)) : Callbacks(n)[j] = toServer[n][i].call

\* A request that the server will drop: no close.
Dropped(c) == c \in Call /\ promise[c] # "none" /\ kind[c] # "close"

\* The client has answered with close-ok, frame k to the server: what is before it will be
\* dropped, what is behind it is for a new object, and nothing is on the way back.
Draining(n) ==
    /\ server[n] = "closing" /\ toClient[n] = <<>>
    /\ \E k \in 1 .. Len(toServer[n]) :
          /\ toServer[n][k] = CloseOk(None)
          /\ \A j \in 1 .. k - 1 :
                toServer[n][j].method = "Request" /\ Dropped(toServer[n][j].call)
          /\ Len(Callbacks(n)) = Len(toServer[n]) - k
          /\ \A j \in k + 1 .. Len(toServer[n]) : toServer[n][j] = Request(Callbacks(n)[j - k])

Sound(n) == InStep(n) \/ ToldToClose(n) \/ Draining(n)
WireInv == sock = "up" => \A n \in Number \ crossed : Sound(n)

AnswerInv == CloseIsLast /\ CallsOwned /\ WireInv /\ AnswerIsOwn

----------------------------------------------------------------------------
\* The elements of a sequence after push and after shift.
LEMMA AppendAt ==
    ASSUME NEW S, NEW s \in Seq(S), NEW e \in S, NEW t, t = Append(s, e)
    PROVE  /\ t \in Seq(S) /\ Len(t) = Len(s) + 1 /\ Len(s) \in Nat
           /\ \A i \in 1 .. Len(s) : t[i] = s[i]
           /\ t[Len(s) + 1] = e
  OBVIOUS

LEMMA TailAt ==
    ASSUME NEW S, NEW s \in Seq(S), s # <<>>, NEW t, t = Tail(s)
    PROVE  /\ t \in Seq(S) /\ Len(t) = Len(s) - 1 /\ Len(s) \in Nat \ {0}
           /\ \A i \in 1 .. Len(t) : t[i] = s[i + 1]
           /\ Head(s) = s[1]
  OBVIOUS

LEMMA EmptyLen == Len(<<>>) = 0
  OBVIOUS

LEMMA EmptyAt ==
    ASSUME NEW S, NEW s \in Seq(S), Len(s) = 0
    PROVE  s = <<>>
  OBVIOUS

LEMMA MoreThanOne ==
    ASSUME NEW m \in Nat, NEW k \in 1 .. m, m # 1, k = 1
    PROVE  k + 1 \in k + 1 .. m
  OBVIOUS

\* What is on the wire of a number and what waits for it are sequences.
LEMMA WireTypes ==
    ASSUME TypeInv, NEW n \in Number
    PROVE  /\ toClient[n] \in Seq(Frame) /\ toServer[n] \in Seq(Frame)
           /\ Callbacks(n) \in Seq(Call)
           /\ slot[n] # None => slot[n] \in Chan
  BY DEF TypeInv, TypeOK, WireTypeOK, ChanTypeOK, RpcTypeOK, Callbacks

\* Callbacks in the list belong to pending calls of the object in the table.
LEMMA WaitingCall ==
    ASSUME TypeInv, HeldInv, NEW n \in Number, NEW i \in 1 .. Len(Callbacks(n))
    PROVE  /\ Callbacks(n)[i] \in Call /\ slot[n] \in Chan
           /\ promise[Callbacks(n)[i]] = "pending" /\ owner[Callbacks(n)[i]] = slot[n]
<1>1. slot[n] \in Chan /\ Callbacks(n) = rpcCallbacks[slot[n]]
  <2>1. slot[n] # None
    BY DEF Callbacks
  <2> QED
    BY <2>1, WireTypes DEF Callbacks
<1>2. Callbacks(n) \in Seq(Call)
  BY WireTypes
<1>3. Callbacks(n)[i] \in Elems(rpcCallbacks[slot[n]])
  BY <1>1, <1>2 DEF Elems
<1>4. Callbacks(n)[i] \in Outstanding(slot[n])
  BY <1>1, <1>3 DEF HeldInv, PendingIsHeld
<1> QED
  BY <1>1, <1>4 DEF Outstanding

\* A number is sound after a step that leaves its wire and its callbacks alone.
LEMMA SoundStable ==
    ASSUME TypeInv, HeldInv, NEW n \in Number, Sound(n),
           toClient'[n] = toClient[n], toServer'[n] = toServer[n], server'[n] = server[n],
           Callbacks(n)' = Callbacks(n), slot'[n] = None => slot[n] = None, Live' => Live,
           \A c \in Call : promise[c] # "none" => promise'[c] # "none" /\ kind'[c] = kind[c]
    PROVE  Sound(n)'
<1> DEFINE tc == toClient[n]
           ts == toServer[n]
           cb == Callbacks(n)
<1>1. tc \in Seq(Frame) /\ ts \in Seq(Frame) /\ cb \in Seq(Call)
  BY WireTypes
<1>2. \A i \in 1 .. Len(cb) : cb[i] \in Call /\ kind'[cb[i]] = kind[cb[i]]
  <2> SUFFICES ASSUME NEW i \in 1 .. Len(cb) PROVE cb[i] \in Call /\ kind'[cb[i]] = kind[cb[i]]
    OBVIOUS
  <2> QED
    BY WaitingCall
<1>3. CASE InStep(n)
  <2>1. \A i \in 1 .. Len(tc) : Answers(n, i) /\ Answers(n, i)' /\ kind'[tc[i].call] = kind[tc[i].call]
    BY <1>2, <1>3 DEF InStep, Answers
  <2>2. InStep(n)'
    BY <1>3, <2>1 DEF InStep
  <2> QED
    BY <2>2 DEF Sound
<1>4. CASE ToldToClose(n)
  <2>1. PICK k \in 1 .. Len(tc) :
          /\ tc[k] = CloseMethod
          /\ \A i \in 1 .. k - 1 : Answers(n, i) /\ tc[i].method = "Ok"
          /\ \A i \in k + 1 .. Len(tc) :
                kind[tc[i].call] = "close" /\ \E j \in k .. Len(cb) : cb[j] = tc[i].call
          /\ \A i \in 1 .. Len(ts) :
                ts[i].method = "Request" /\ \E j \in k .. Len(cb) : cb[j] = ts[i].call
    BY <1>4 DEF ToldToClose
  <2>2. \A i \in 1 .. k - 1 : Answers(n, i)'
    BY <2>1 DEF Answers
  <2>3. \A i \in k + 1 .. Len(tc) : kind'[tc[i].call] = "close"
    <3>1. k \in Nat /\ Len(cb) \in Nat /\ k >= 1
      BY <1>1
    <3>2. \A j \in k .. Len(cb) : j \in 1 .. Len(cb)
      BY <3>1
    <3> QED
      BY <1>2, <2>1, <3>2
  <2>4. /\ server'[n] = "closing" /\ slot'[n] # None /\ k \in 1 .. Len(toClient'[n])
        /\ toClient'[n][k] = CloseMethod
    BY <1>4, <2>1 DEF ToldToClose
  <2>5. \A i \in k + 1 .. Len(toClient'[n]) :
           /\ kind'[toClient'[n][i].call] = "close"
           /\ \E j \in k .. Len(Callbacks(n)') : Callbacks(n)'[j] = toClient'[n][i].call
    BY <2>1, <2>3
  <2>6. \A i \in 1 .. Len(toServer'[n]) :
           /\ toServer'[n][i].method = "Request"
           /\ \E j \in k .. Len(Callbacks(n)') : Callbacks(n)'[j] = toServer'[n][i].call
    BY <2>1
  <2>7. \A i \in 1 .. k - 1 : Answers(n, i)' /\ toClient'[n][i].method = "Ok"
    BY <2>1, <2>2
  <2> HIDE DEF tc, ts, cb
  <2>8. CloseMethod' = CloseMethod
    BY DEF CloseMethod
  <2>9. ToldToClose(n)'
    BY <2>4, <2>5, <2>6, <2>7, <2>8 DEF ToldToClose
  <2> QED
    BY <2>9 DEF Sound
<1>5. CASE Draining(n)
  <2>1. PICK k \in 1 .. Len(ts) :
          /\ ts[k] = CloseOk(None)
          /\ \A j \in 1 .. k - 1 : ts[j].method = "Request" /\ Dropped(ts[j].call)
          /\ Len(cb) = Len(ts) - k
          /\ \A j \in k + 1 .. Len(ts) : ts[j] = Request(cb[j - k])
    BY <1>5 DEF Draining
  <2>2. \A j \in 1 .. k - 1 : Dropped(ts[j].call)'
    BY <2>1 DEF Dropped
  <2>3. Draining(n)'
    BY <1>5, <2>1, <2>2 DEF Draining, CloseOk, Request
  <2> QED
    BY <2>3 DEF Sound
<1> QED
  BY <1>3, <1>4, <1>5 DEF Sound

----------------------------------------------------------------------------
(* Calls and their owners *)

\* A step that issues no call and gives no object a new number keeps owners.
LEMMA OwnedStable ==
    ASSUME TypeInv, CallsOwned, UNCHANGED <<owner, number>>,
           \A c \in Call : promise'[c] \in {"pending", "resolved"} =>
                               promise[c] \in {"pending", "resolved"}
    PROVE  CallsOwned'
  BY DEF CallsOwned

\* sendRpc: the new call belongs to an object with a number.
LEMMA SendRpcOwned ==
    ASSUME TypeInv, CallsOwned, NEW c \in Call, NEW ch \in Chan, NEW k, SendRpc(c, ch, k),
           number'[ch] \in Number,
           \A x \in Chan : number[x] \in Number => number'[x] = number[x]
    PROVE  CallsOwned'
<1> SUFFICES ASSUME NEW d \in Call, promise'[d] \in {"pending", "resolved"}
             PROVE  owner'[d] \in Chan /\ number'[owner'[d]] \in Number
  BY DEF CallsOwned
<1> USE DEF TypeInv, TypeOK, CallTypeOK, SendRpc
<1>1. CASE d = c
  BY <1>1
<1>2. CASE d # c
  BY <1>2 DEF CallsOwned
<1> QED
  BY <1>1, <1>2

\* What sets a promise never turns an unissued or rejected call into a waiting one.
LEMMA SettledOwned ==
    ASSUME TypeInv, NEW C, NEW outcome \in {"resolved", "rejected"},
           promise' = Settled(C, outcome)
    PROVE  \A c \in Call : /\ promise'[c] \in {"pending", "resolved"} =>
                                  promise[c] \in {"pending", "resolved"}
                           /\ promise[c] # "none" => promise'[c] # "none"
                           /\ promise'[c] = "resolved" =>
                                  promise[c] = "resolved" \/ (outcome = "resolved" /\ c \in C)
  BY DEF Settled, TypeInv, TypeOK, CallTypeOK

\* A step that fulfils no call keeps the answers of those fulfilled before.
LEMMA OwnStable ==
    ASSUME TypeInv, AnswerIsOwn, CallsOwned, crossed \subseteq crossed',
           \A c \in Call : promise'[c] = "resolved" =>
               promise[c] = "resolved" /\ answer'[c] = answer[c] /\ owner'[c] = owner[c],
           \A x \in Chan : number[x] \in Number => number'[x] = number[x]
    PROVE  AnswerIsOwn'
<1> SUFFICES ASSUME NEW c \in Call, promise'[c] = "resolved", number'[owner'[c]] \notin crossed'
             PROVE  answer'[c] = c
  BY DEF AnswerIsOwn
<1>1. promise[c] = "resolved" /\ owner'[c] = owner[c] /\ number'[owner[c]] = number[owner[c]]
  BY DEF CallsOwned
<1> QED
  BY <1>1 DEF AnswerIsOwn

----------------------------------------------------------------------------
(* A close is the last call *)

\* A step that changes no queue and opens no object.
LEMMA LastStable ==
    ASSUME TypeInv, HeldInv, CloseIsLast, UNCHANGED <<rpcQueue, rpcCallbacks>>,
           \A x \in Chan : closed[x] => closed'[x],
           \A c \in Call : promise[c] # "none" => kind'[c] = kind[c]
    PROVE  CloseIsLast'
<1> SUFFICES ASSUME NEW x \in Chan
             PROVE  /\ \A i \in 1 .. Len(rpcQueue[x]) : kind'[rpcQueue[x][i]] = kind[rpcQueue[x][i]]
                    /\ \A i \in 1 .. Len(rpcCallbacks[x]) :
                          kind'[rpcCallbacks[x][i]] = kind[rpcCallbacks[x][i]]
  BY DEF CloseIsLast
<1>1. rpcQueue[x] \in Seq(Call) /\ rpcCallbacks[x] \in Seq(Call)
  BY DEF TypeInv, TypeOK, RpcTypeOK
<1>2. \A c \in Elems(rpcQueue[x]) \cup Elems(rpcCallbacks[x]) : c \in Call /\ promise[c] # "none"
  BY DEF HeldInv, PendingIsHeld, Outstanding
<1> QED
  BY <1>1, <1>2 DEF Elems

\* sendRpc appends to the chain of an object that has no close in it.
LEMMA SendRpcLast ==
    ASSUME TypeInv, HeldInv, CloseIsLast, NEW c \in Call, NEW ch \in Chan, NEW k,
           promise[c] = "none", SendRpc(c, ch, k),
           ~closed[ch] \/ (rpcQueue[ch] = <<>> /\ rpcCallbacks[ch] = <<>>),
           k = "close" => closed'[ch],
           \A x \in Chan : closed[x] => closed'[x]
    PROVE  CloseIsLast'
<1> DEFINE q == rpcQueue[ch]
<1>1. /\ rpcQueue'[ch] = Append(q, c) /\ \A x \in Chan \ {ch} : rpcQueue'[x] = rpcQueue[x]
      /\ rpcCallbacks' = rpcCallbacks
      /\ kind'[c] = k /\ \A d \in Call \ {c} : kind'[d] = kind[d]
  BY DEF SendRpc, TypeInv, TypeOK, RpcTypeOK, CallTypeOK
<1>2. \A x \in Chan : rpcQueue[x] \in Seq(Call) /\ rpcCallbacks[x] \in Seq(Call)
  BY DEF TypeInv, TypeOK, RpcTypeOK
<1>3. \A x \in Chan : \A d \in Elems(rpcQueue[x]) \cup Elems(rpcCallbacks[x]) :
          d \in Call /\ d # c /\ kind'[d] = kind[d]
  BY <1>1 DEF HeldInv, PendingIsHeld, Outstanding
<1>4. \A x \in Chan : /\ \A i \in 1 .. Len(rpcQueue[x]) : kind'[rpcQueue[x][i]] = kind[rpcQueue[x][i]]
                      /\ \A i \in 1 .. Len(rpcCallbacks[x]) :
                            kind'[rpcCallbacks[x][i]] = kind[rpcCallbacks[x][i]]
  BY <1>2, <1>3 DEF Elems
<1>5. /\ \A i \in 1 .. Len(q) : kind[q[i]] # "close"
      /\ \A i \in 1 .. Len(rpcCallbacks[ch]) : kind[rpcCallbacks[ch][i]] # "close"
  <2>1. CASE ~closed[ch]
    BY <2>1 DEF CloseIsLast
  <2>2. CASE q = <<>> /\ rpcCallbacks[ch] = <<>>
    BY <2>2, EmptyLen
  <2> QED
    BY <2>1, <2>2
<1>6. ASSUME NEW i \in 1 .. Len(rpcQueue'[ch]), kind'[rpcQueue'[ch][i]] = "close"
      PROVE  i = Len(rpcQueue'[ch]) /\ closed'[ch]
  <2>1. /\ Len(rpcQueue'[ch]) = Len(q) + 1 /\ Len(q) \in Nat
        /\ \A j \in 1 .. Len(q) : rpcQueue'[ch][j] = q[j]
        /\ rpcQueue'[ch][Len(q) + 1] = c
    BY <1>1, <1>2, AppendAt
  <2>2. i \notin 1 .. Len(q)
    BY <1>4, <1>5, <1>6, <2>1
  <2>3. i = Len(q) + 1
    BY <2>1, <2>2
  <2> QED
    BY <1>1, <1>6, <2>1, <2>3
<1>7. \A i \in 1 .. Len(rpcCallbacks'[ch]) : kind'[rpcCallbacks'[ch][i]] # "close"
  BY <1>1, <1>4, <1>5
<1>8. ASSUME NEW x \in Chan \ {ch}
      PROVE  /\ \A i \in 1 .. Len(rpcQueue'[x]) : kind'[rpcQueue'[x][i]] = "close" =>
                      i = Len(rpcQueue'[x]) /\ closed'[x]
             /\ \A i \in 1 .. Len(rpcCallbacks'[x]) : kind'[rpcCallbacks'[x][i]] = "close" =>
                      i = Len(rpcCallbacks'[x]) /\ rpcQueue'[x] = <<>> /\ closed'[x]
  BY <1>1, <1>4 DEF CloseIsLast
<1> QED
  BY <1>6, <1>7, <1>8 DEF CloseIsLast

\* The step of the chain moves the first call behind callbacks that are no close.
LEMMA StepLast ==
    ASSUME TypeInv, CloseIsLast, NEW ch \in Chan, Step(ch)
    PROVE  CloseIsLast'
<1> DEFINE q == rpcQueue[ch]
           b == rpcCallbacks[ch]
           c == Head(q)
<1>1. /\ q # <<>> /\ rpcQueue'[ch] = Tail(q) /\ rpcCallbacks'[ch] = Append(b, c)
      /\ \A x \in Chan \ {ch} : rpcQueue'[x] = rpcQueue[x] /\ rpcCallbacks'[x] = rpcCallbacks[x]
      /\ UNCHANGED <<kind, closed>>
  BY DEF Step, TypeInv, TypeOK, RpcTypeOK, callVars, chanVars
<1>2. q \in Seq(Call) /\ b \in Seq(Call) /\ c \in Call
  BY <1>1 DEF TypeInv, TypeOK, RpcTypeOK
<1>3. /\ Len(Tail(q)) = Len(q) - 1 /\ Len(q) \in Nat \ {0}
      /\ \A i \in 1 .. Len(Tail(q)) : Tail(q)[i] = q[i + 1]
      /\ c = q[1]
  BY <1>1, <1>2, TailAt
<1>4. /\ Len(Append(b, c)) = Len(b) + 1 /\ Len(b) \in Nat
      /\ \A i \in 1 .. Len(b) : Append(b, c)[i] = b[i]
      /\ Append(b, c)[Len(b) + 1] = c
  BY <1>2, AppendAt
<1>5. \A i \in 1 .. Len(b) : kind[b[i]] # "close"
  BY <1>1 DEF CloseIsLast
<1>6. \A i \in 1 .. Len(q) : kind[q[i]] = "close" => i = Len(q) /\ closed[ch]
  BY DEF CloseIsLast
<1>7. \A i \in 1 .. Len(Tail(q)) : kind[Tail(q)[i]] = "close" => i = Len(Tail(q)) /\ closed[ch]
  BY <1>3, <1>6
<1>8. ASSUME NEW i \in 1 .. Len(Append(b, c)), kind[Append(b, c)[i]] = "close"
      PROVE  i = Len(Append(b, c)) /\ Tail(q) = <<>> /\ closed[ch]
  <2>1. i = Len(b) + 1
    BY <1>4, <1>5, <1>8
  <2>2. kind[q[1]] = "close"
    BY <1>3, <1>4, <1>8, <2>1
  <2>3. 1 \in 1 .. Len(q)
    BY <1>3
  <2>4. Len(q) = 1 /\ closed[ch]
    BY <1>6, <2>2, <2>3
  <2>5. Tail(q) = <<>>
    <3>1. Tail(q) \in Seq(Call) /\ Len(Tail(q)) = 0
      BY <1>1, <1>2, <1>3, <2>4
    <3> QED
      BY <3>1, EmptyAt
  <2> QED
    BY <1>4, <2>1, <2>4, <2>5
<1> HIDE DEF q, b, c
<1>9. \A i \in 1 .. Len(rpcQueue'[ch]) : kind'[rpcQueue'[ch][i]] = "close" =>
          i = Len(rpcQueue'[ch]) /\ closed'[ch]
  BY <1>1, <1>7
<1>10. \A i \in 1 .. Len(rpcCallbacks'[ch]) : kind'[rpcCallbacks'[ch][i]] = "close" =>
          i = Len(rpcCallbacks'[ch]) /\ rpcQueue'[ch] = <<>> /\ closed'[ch]
  BY <1>1, <1>8
<1>11. \A x \in Chan \ {ch} : /\ rpcQueue'[x] = rpcQueue[x] /\ rpcCallbacks'[x] = rpcCallbacks[x]
  BY <1>1
<1>12. UNCHANGED <<kind, closed>>
  BY <1>1
<1> QED
  BY <1>9, <1>10, <1>11, <1>12, SMTT(30) DEF CloseIsLast

\* shift and pop leave a close where it is, at the end.
LEMMA ShorterLast ==
    ASSUME TypeInv, CloseIsLast, NEW ch \in Chan,
           UNCHANGED <<kind, closed>>,
           \A x \in Chan \ {ch} : rpcQueue'[x] = rpcQueue[x] /\ rpcCallbacks'[x] = rpcCallbacks[x],
           \/ /\ rpcQueue'[ch] = rpcQueue[ch] /\ rpcCallbacks[ch] # <<>>
              /\ \/ rpcCallbacks'[ch] = Tail(rpcCallbacks[ch])
                 \/ rpcCallbacks'[ch] = SubSeq(rpcCallbacks[ch], 1, Len(rpcCallbacks[ch]) - 1)
           \/ /\ rpcCallbacks'[ch] = rpcCallbacks[ch] /\ rpcQueue[ch] # <<>>
              /\ rpcQueue'[ch] = Tail(rpcQueue[ch])
    PROVE  CloseIsLast'
<1> DEFINE q == rpcQueue[ch]
           b == rpcCallbacks[ch]
           Last(r, s) ==
              /\ \A i \in 1 .. Len(r) : kind[r[i]] = "close" => i = Len(r) /\ closed[ch]
              /\ \A i \in 1 .. Len(s) : kind[s[i]] = "close" => i = Len(s) /\ r = <<>> /\ closed[ch]
<1>1. q \in Seq(Call) /\ b \in Seq(Call) /\ Len(q) \in Nat /\ Len(b) \in Nat
  BY DEF TypeInv, TypeOK, RpcTypeOK
<1>2. Last(q, b)
  BY DEF CloseIsLast
<1>3. b # <<>> => Last(q, Tail(b))
  <2> SUFFICES ASSUME b # <<>> PROVE Last(q, Tail(b))
    OBVIOUS
  <2> DEFINE t == Tail(b)
  <2>1. Len(t) = Len(b) - 1 /\ \A i \in 1 .. Len(t) : t[i] = b[i + 1]
    BY <1>1, TailAt
  <2> HIDE DEF t
  <2>2. Last(q, t)
    BY <1>1, <1>2, <2>1
  <2> QED
    BY <2>2 DEF t
<1>4. b # <<>> => Last(q, SubSeq(b, 1, Len(b) - 1))
  <2> SUFFICES ASSUME b # <<>> PROVE Last(q, SubSeq(b, 1, Len(b) - 1))
    OBVIOUS
  <2> DEFINE t == SubSeq(b, 1, Len(b) - 1)
  <2>1. Len(t) = Len(b) - 1 /\ \A i \in 1 .. Len(b) - 1 : t[i] = b[i]
    BY <1>1
  <2> HIDE DEF t
  <2>2. \A i \in 1 .. Len(t) : kind[t[i]] # "close"
    BY <1>1, <1>2, <2>1
  <2> QED
    BY <1>2, <2>2 DEF t
<1>5. q # <<>> => Last(Tail(q), b)
  <2> SUFFICES ASSUME q # <<>> PROVE Last(Tail(q), b)
    OBVIOUS
  <2> DEFINE t == Tail(q)
  <2>1. Len(t) = Len(q) - 1 /\ \A i \in 1 .. Len(t) : t[i] = q[i + 1]
    BY <1>1, TailAt
  <2>2. \A i \in 1 .. Len(b) : kind[b[i]] # "close"
    BY <1>2
  <2> HIDE DEF t
  <2>3. Last(t, b)
    BY <1>1, <1>2, <2>1, <2>2
  <2> QED
    BY <2>3 DEF t
<1> HIDE DEF Last
<1>6. Last(rpcQueue'[ch], rpcCallbacks'[ch])
  BY <1>3, <1>4, <1>5
<1>7. ASSUME NEW x \in Chan \ {ch}
      PROVE  /\ \A i \in 1 .. Len(rpcQueue'[x]) : kind'[rpcQueue'[x][i]] = "close" =>
                      i = Len(rpcQueue'[x]) /\ closed'[x]
             /\ \A i \in 1 .. Len(rpcCallbacks'[x]) : kind'[rpcCallbacks'[x][i]] = "close" =>
                      i = Len(rpcCallbacks'[x]) /\ rpcQueue'[x] = <<>> /\ closed'[x]
  BY DEF CloseIsLast
<1> QED
  BY <1>6, <1>7 DEF CloseIsLast, Last

\* setClosed clears callbacks and closes objects.
LEMMA SetClosedLast ==
    ASSUME TypeInv, CloseIsLast, NEW C, SetClosed(C), UNCHANGED <<rpcQueue, kind>>
    PROVE  CloseIsLast'
<1>1. \A x \in Chan : /\ closed[x] => closed'[x]
                      /\ rpcCallbacks'[x] = <<>> \/ rpcCallbacks'[x] = rpcCallbacks[x]
  BY DEF SetClosed
<1>2. Len(<<>>) = 0
  OBVIOUS
<1> QED
  BY <1>1, <1>2 DEF CloseIsLast

----------------------------------------------------------------------------
(* The wire of one number *)

\* The step of the chain: callbacks and request are pushed together.
LEMMA PushSound ==
    ASSUME TypeInv, NEW n \in Number, NEW c \in Call, Sound(n), slot[n] # None,
           toClient'[n] = toClient[n], toServer'[n] = Append(toServer[n], Request(c)),
           Callbacks(n)' = Append(Callbacks(n), c),
           UNCHANGED <<server, slot, bye, kind, promise>>
    PROVE  Sound(n)'
<1> DEFINE tc == toClient[n]
           ts == toServer[n]
           cb == Callbacks(n)
           ts1 == toServer'[n]
           cb1 == Callbacks(n)'
<1>1. tc \in Seq(Frame) /\ ts \in Seq(Frame) /\ cb \in Seq(Call) /\ Request(c) \in Frame
  BY WireTypes, FrameTypes
<1>2. /\ Len(ts1) = Len(ts) + 1 /\ Len(ts) \in Nat
      /\ \A i \in 1 .. Len(ts) : ts1[i] = ts[i]
      /\ ts1[Len(ts) + 1] = Request(c)
  BY <1>1, AppendAt
<1>3. /\ Len(cb1) = Len(cb) + 1 /\ Len(cb) \in Nat
      /\ \A i \in 1 .. Len(cb) : cb1[i] = cb[i]
      /\ cb1[Len(cb) + 1] = c
  BY <1>1, AppendAt
<1>4. /\ toClient'[n] = tc /\ Len(tc) \in Nat /\ Live' = Live
      /\ UNCHANGED <<slot, server, kind, promise>>
  BY <1>1 DEF Live
<1>5. \A f : Request(f)' = Request(f) /\ CloseOk(f)' = CloseOk(f) /\ CloseMethod' = CloseMethod
  BY DEF Request, CloseOk, CloseMethod
<1> HIDE DEF ts1, cb1
<1>6. \A i \in 1 .. Len(tc) : Answers(n, i) => Answers(n, i)'
  BY <1>2, <1>3, <1>4 DEF Answers, cb1
<1>7. CASE InStep(n)
  <2>1. \A i \in 1 .. Len(tc) : /\ Answers(n, i)'
                                /\ tc[i].method = "CloseOk" =>
                                      kind[tc[i].call] = "close" /\ server[n] = "closed"
    BY <1>6, <1>7 DEF InStep
  <2>2. ASSUME Live PROVE /\ Len(cb1) = Len(tc) + Len(ts1)
                          /\ \A j \in 1 .. Len(ts1) : ts1[j] = Request(cb1[Len(tc) + j])
    <3>1. Len(cb) = Len(tc) + Len(ts) /\ \A j \in 1 .. Len(ts) : ts[j] = Request(cb[Len(tc) + j])
      BY <1>7, <2>2 DEF InStep
    <3> HIDE DEF tc, ts, cb
    <3>2. \A j \in 1 .. Len(ts) : Len(tc) + j \in 1 .. Len(cb)
      BY <1>2, <1>3, <1>4, <3>1
    <3>3. \A j \in 1 .. Len(ts) : ts1[j] = Request(cb1[Len(tc) + j])
      BY <1>2, <1>3, <3>1, <3>2
    <3>4. ts1[Len(ts) + 1] = Request(cb1[Len(tc) + (Len(ts) + 1)])
      BY <1>2, <1>3, <1>4, <3>1
    <3>5. \A j \in 1 .. Len(ts1) : j \in 1 .. Len(ts) \/ j = Len(ts) + 1
      BY <1>2
    <3>6. Len(cb1) = Len(tc) + Len(ts1)
      BY <1>2, <1>3, <1>4, <3>1
    <3>7. ASSUME NEW j \in 1 .. Len(ts1) PROVE ts1[j] = Request(cb1[Len(tc) + j])
      BY <3>3, <3>4, <3>5
    <3> QED
      BY <3>6, <3>7
  <2>3. InStep(n)'
    BY <1>4, <1>5, <1>7, <2>1, <2>2 DEF InStep, cb1, ts1
  <2> QED
    BY <2>3 DEF Sound
<1>8. CASE ToldToClose(n)
  <2>1. PICK k \in 1 .. Len(tc) :
          /\ tc[k] = CloseMethod
          /\ \A i \in 1 .. k - 1 : Answers(n, i) /\ tc[i].method = "Ok"
          /\ \A i \in k + 1 .. Len(tc) :
                kind[tc[i].call] = "close" /\ \E j \in k .. Len(cb) : cb[j] = tc[i].call
          /\ \A i \in 1 .. Len(ts) :
                ts[i].method = "Request" /\ \E j \in k .. Len(cb) : cb[j] = ts[i].call
    BY <1>8 DEF ToldToClose
  <2> HIDE DEF tc, ts, cb
  <2>2. k \in Nat /\ k >= 1 /\ k <= Len(tc)
    BY <1>4, <2>1
  <2>3. \A x : (\E j \in k .. Len(cb) : cb[j] = x) => \E j \in k .. Len(cb1) : cb1[j] = x
    <3>1. \A j \in k .. Len(cb) : j \in k .. Len(cb1) /\ cb1[j] = cb[j]
      BY <1>3, <2>2
    <3> QED
      BY <3>1
  <2>4. \A i \in 1 .. k - 1 : Answers(n, i)'
    BY <1>4, <1>6, <2>1, <2>2
  <2>5. k <= Len(cb) + 1
    <3>1. CASE k = 1
      BY <3>1, <1>3
    <3>2. CASE k # 1
      <4>1. Answers(n, k - 1)
        BY <3>2, <2>1, <2>2
      <4> QED
        BY <4>1, <2>2, <1>3 DEF Answers, cb
    <3> QED
      BY <3>1, <3>2
  <2>6. Len(cb) + 1 \in k .. Len(cb1)
    BY <1>3, <2>2, <2>5
  <2>7. ASSUME NEW i \in 1 .. Len(ts1)
        PROVE  ts1[i].method = "Request" /\ \E j \in k .. Len(cb1) : cb1[j] = ts1[i].call
    <3>1. CASE i \in 1 .. Len(ts)
      <4>1. ts1[i] = ts[i]
        BY <3>1, <1>2
      <4>2. ts[i].method = "Request" /\ \E j \in k .. Len(cb) : cb[j] = ts[i].call
        BY <3>1, <2>1
      <4> QED
        BY <4>1, <4>2, <2>3
    <3>2. CASE i = Len(ts) + 1
      BY <3>2, <1>2, <1>3, <2>6 DEF Request
    <3> QED
      BY <3>1, <3>2, <1>2
  <2>8. \A i \in k + 1 .. Len(tc) :
           kind[tc[i].call] = "close" /\ \E j \in k .. Len(cb1) : cb1[j] = tc[i].call
    BY <2>1, <2>3
  <2>9. /\ server'[n] = "closing" /\ slot'[n] # None
    BY <1>4, <1>8 DEF ToldToClose
  <2>10. toClient'[n] = tc /\ Callbacks(n)' = cb1 /\ toServer'[n] = ts1
    BY <1>4 DEF cb1, ts1
  <2>11. k \in 1 .. Len(toClient'[n]) /\ toClient'[n][k] = CloseMethod
    BY <2>1, <2>10
  <2>12. \A i \in 1 .. k - 1 : Answers(n, i)' /\ toClient'[n][i].method = "Ok"
    BY <2>1, <2>4, <2>10
  <2>13. \A i \in k + 1 .. Len(toClient'[n]) :
            /\ kind'[toClient'[n][i].call] = "close"
            /\ \E j \in k .. Len(Callbacks(n)') : Callbacks(n)'[j] = toClient'[n][i].call
    BY <1>4, <2>8, <2>10
  <2>14. \A i \in 1 .. Len(toServer'[n]) :
            /\ toServer'[n][i].method = "Request"
            /\ \E j \in k .. Len(Callbacks(n)') : Callbacks(n)'[j] = toServer'[n][i].call
    BY <2>7, <2>10
  <2>15. ToldToClose(n)'
    BY <2>9, <2>11, <2>12, <2>13, <2>14 DEF ToldToClose
  <2> QED
    BY <2>15 DEF Sound
<1>9. CASE Draining(n)
  <2>1. PICK k \in 1 .. Len(ts) :
          /\ ts[k] = CloseOk(None)
          /\ \A j \in 1 .. k - 1 : ts[j].method = "Request" /\ Dropped(ts[j].call)
          /\ Len(cb) = Len(ts) - k
          /\ \A j \in k + 1 .. Len(ts) : ts[j] = Request(cb[j - k])
    BY <1>9 DEF Draining
  <2> HIDE DEF tc, ts, cb
  <2>2. k \in Nat /\ k >= 1 /\ k \in 1 .. Len(ts1) /\ ts1[k] = CloseOk(None)
    BY <1>2, <2>1
  <2>3. \A j \in 1 .. k - 1 : /\ ts1[j].method = "Request" /\ ts1[j].call \in Call
                               /\ promise'[ts1[j].call] # "none" /\ kind'[ts1[j].call] # "close"
    <3>1. \A j \in 1 .. k - 1 : j \in 1 .. Len(ts)
      <4>1. Len(ts) \in Nat
        BY <1>2
      <4>2. k \in Nat /\ k <= Len(ts)
        BY <4>1
      <4> QED
        BY <4>1, <4>2
    <3>2. \A d : Dropped(d) => d \in Call /\ promise'[d] # "none" /\ kind'[d] # "close"
      BY <1>4 DEF Dropped
    <3> QED
      BY <1>2, <2>1, <3>1, <3>2
  <2>4. Len(cb1) = Len(ts1) - k
    BY <1>2, <1>3, <2>1, <2>2
  <2>5. ASSUME NEW j \in k + 1 .. Len(ts1) PROVE ts1[j] = Request(cb1[j - k])
    <3>1. CASE j \in k + 1 .. Len(ts)
      <4>1. j - k \in 1 .. Len(cb) /\ j \in 1 .. Len(ts)
        BY <3>1, <1>2, <1>3, <2>1, <2>2
      <4> QED
        BY <3>1, <4>1, <1>2, <1>3, <2>1
    <3>2. CASE j = Len(ts) + 1
      <4>1. j - k = Len(cb) + 1
        BY <3>2, <1>2, <2>1, <2>2
      <4> QED
        BY <3>2, <4>1, <1>2, <1>3
    <3>3. j \in k + 1 .. Len(ts) \/ j = Len(ts) + 1
      <4>1. Len(ts) \in Nat /\ Len(ts1) = Len(ts) + 1
        BY <1>2
      <4>2. k \in Nat
        BY <4>1
      <4> QED
        BY <4>1, <4>2
    <3> QED
      BY <3>1, <3>2, <3>3
  <2>6. Draining(n)'
    <3>1. server'[n] = "closing" /\ toClient'[n] = <<>>
      BY <1>4, <1>9 DEF Draining, tc
    <3> QED
      BY <1>5, <2>2, <2>3, <2>4, <2>5, <3>1 DEF Draining, Dropped, cb1, ts1
  <2> QED
    BY <2>6 DEF Sound
<1> QED
  BY <1>7, <1>8, <1>9 DEF Sound

\* What each number's phase says of the first frame to the client.
LEMMA FirstAnswer ==
    ASSUME TypeInv, NEW n \in Number, Sound(n), toClient[n] # <<>>
    PROVE  /\ slot[n] \in Chan /\ ~Draining(n)
           /\ toClient[n][1].method \in {"Ok", "CloseOk"} =>
                 /\ Answers(n, 1)
                 /\ ToldToClose(n) => toClient[n][1].method = "Ok"
           /\ toClient[n][1].method = "Close" => ToldToClose(n)
<1>1. toClient[n] \in Seq(Frame) /\ 1 \in 1 .. Len(toClient[n])
  BY WireTypes
<1>2. ~Draining(n)
  BY DEF Draining
<1>3. CASE InStep(n)
  <2>1. Answers(n, 1)
    BY <1>1, <1>3 DEF InStep
  <2>2. slot[n] # None
    BY <2>1 DEF Answers, Callbacks
  <2>3. server[n] # "closing"
    BY <1>3 DEF InStep
  <2>4. ~ToldToClose(n)
    BY <2>3 DEF ToldToClose
  <2> QED
    BY <1>2, <2>1, <2>2, <2>4, WireTypes DEF Answers
<1>4. CASE ToldToClose(n)
  <2>1. PICK k \in 1 .. Len(toClient[n]) :
          /\ toClient[n][k] = CloseMethod
          /\ \A i \in 1 .. k - 1 : Answers(n, i) /\ toClient[n][i].method = "Ok"
    BY <1>4 DEF ToldToClose
  <2>2. slot[n] \in Chan
    BY <1>4, WireTypes DEF ToldToClose
  <2>3. k = 1 => toClient[n][1].method = "Close"
    BY <2>1 DEF CloseMethod
  <2>4. k # 1 => Answers(n, 1) /\ toClient[n][1].method = "Ok"
    <3>1. k # 1 => 1 \in 1 .. k - 1
      BY <1>1
    <3> QED
      BY <2>1, <3>1
  <2> QED
    BY <1>2, <1>4, <2>2, <2>3, <2>4
<1> QED
  BY <1>2, <1>3, <1>4 DEF Sound

\* resolveRPC on an answer: frame and callbacks are shifted together.
LEMMA ShiftSound ==
    ASSUME TypeInv, NEW n \in Number, Sound(n), toClient[n] # <<>>,
           toClient[n][1].method = "Ok", Callbacks(n) # <<>>,
           toClient'[n] = Tail(toClient[n]), Callbacks(n)' = Tail(Callbacks(n)),
           UNCHANGED <<toServer, server, slot, bye, kind>>
    PROVE  Sound(n)'
<1> DEFINE tc == toClient[n]
           ts == toServer[n]
           cb == Callbacks(n)
           tc1 == toClient'[n]
           cb1 == Callbacks(n)'
<1>1. tc \in Seq(Frame) /\ ts \in Seq(Frame) /\ cb \in Seq(Call)
  BY WireTypes
<1>2. /\ Len(tc1) = Len(tc) - 1 /\ Len(tc) \in Nat \ {0}
      /\ \A i \in 1 .. Len(tc1) : tc1[i] = tc[i + 1]
  BY <1>1, TailAt
<1>3. /\ Len(cb1) = Len(cb) - 1 /\ Len(cb) \in Nat \ {0}
      /\ \A i \in 1 .. Len(cb1) : cb1[i] = cb[i + 1]
  BY <1>1, TailAt
<1>4. /\ toServer'[n] = ts /\ Len(ts) \in Nat /\ Live' = Live
      /\ UNCHANGED <<slot, server, kind>>
  BY <1>1 DEF Live
<1>5. \A f : Request(f)' = Request(f) /\ CloseMethod' = CloseMethod
  BY DEF Request, CloseMethod
<1>6. ASSUME NEW i \in 1 .. Len(tc1), Answers(n, i + 1)
      PROVE  /\ i \in 1 .. Len(cb1) /\ tc1[i].call = cb1[i]
             /\ tc1[i].method \in {"Ok", "CloseOk"}
  <2>1. i + 1 \in 1 .. Len(cb) /\ tc[i + 1].call = cb[i + 1] /\ tc[i + 1].method \in {"Ok", "CloseOk"}
    BY <1>6 DEF Answers
  <2> HIDE DEF tc, cb, tc1, cb1
  <2>2. i \in 1 .. Len(cb1)
    BY <1>3, <2>1
  <2> QED
    BY <1>2, <1>3, <2>1, <2>2
<1>7. CASE InStep(n)
  <2> HIDE DEF tc1, cb1
  <2>1. ASSUME NEW i \in 1 .. Len(tc1)
        PROVE  /\ i \in 1 .. Len(cb1) /\ tc1[i].call = cb1[i] /\ tc1[i].method \in {"Ok", "CloseOk"}
               /\ tc1[i].method = "CloseOk" => kind[tc1[i].call] = "close" /\ server[n] = "closed"
    <3>1. i + 1 \in 1 .. Len(tc) /\ tc1[i] = tc[i + 1]
      BY <1>2
    <3>2. Answers(n, i + 1) /\ (tc[i + 1].method = "CloseOk" =>
                                   kind[tc[i + 1].call] = "close" /\ server[n] = "closed")
      BY <3>1, <1>7 DEF InStep
    <3> QED
      BY <3>1, <3>2, <1>6
  <2>2. ASSUME Live PROVE /\ Len(cb1) = Len(tc1) + Len(ts)
                          /\ \A j \in 1 .. Len(ts) : ts[j] = Request(cb1[Len(tc1) + j])
    <3>1. Len(cb) = Len(tc) + Len(ts) /\ \A j \in 1 .. Len(ts) : ts[j] = Request(cb[Len(tc) + j])
      BY <1>7, <2>2 DEF InStep
    <3> HIDE DEF tc, ts, cb
    <3>2. Len(cb1) = Len(tc1) + Len(ts)
      BY <1>2, <1>3, <1>4, <3>1
    <3>3. ASSUME NEW j \in 1 .. Len(ts) PROVE ts[j] = Request(cb1[Len(tc1) + j])
      <4>1. Len(tc1) + j \in 1 .. Len(cb1) /\ (Len(tc1) + j) + 1 = Len(tc) + j
        BY <1>2, <1>3, <1>4, <3>2
      <4>2. cb1[Len(tc1) + j] = cb[Len(tc) + j]
        BY <1>3, <4>1
      <4> QED
        BY <3>1, <4>2
    <3> QED
      BY <3>2, <3>3
  <2>3. InStep(n)'
    <3>1. server'[n] # "closing" /\ (slot'[n] = None => server'[n] = "closed")
      BY <1>4, <1>7 DEF InStep
    <3>2. \A i \in 1 .. Len(toClient'[n]) :
             /\ Answers(n, i)'
             /\ toClient'[n][i].method = "CloseOk" =>
                   kind'[toClient'[n][i].call] = "close" /\ server'[n] = "closed"
      BY <1>4, <2>1 DEF Answers, cb1, tc1
    <3>3. Live' => /\ Len(Callbacks(n)') = Len(toClient'[n]) + Len(toServer'[n])
                   /\ \A j \in 1 .. Len(toServer'[n]) :
                         toServer'[n][j] = Request(Callbacks(n)'[Len(toClient'[n]) + j])
      BY <1>4, <2>2 DEF cb1, tc1
    <3> QED
      BY <3>1, <3>2, <3>3 DEF InStep, Request
  <2> QED
    BY <2>3 DEF Sound
<1>8. CASE ToldToClose(n)
  <2>1. PICK k \in 1 .. Len(tc) :
          /\ tc[k] = CloseMethod
          /\ \A i \in 1 .. k - 1 : Answers(n, i) /\ tc[i].method = "Ok"
          /\ \A i \in k + 1 .. Len(tc) :
                kind[tc[i].call] = "close" /\ \E j \in k .. Len(cb) : cb[j] = tc[i].call
          /\ \A i \in 1 .. Len(ts) :
                ts[i].method = "Request" /\ \E j \in k .. Len(cb) : cb[j] = ts[i].call
    BY <1>8 DEF ToldToClose
  <2> HIDE DEF tc, ts, cb, tc1, cb1
  <2> DEFINE l == k - 1
  <2>2. k \in Nat /\ k > 1 /\ l \in 1 .. Len(tc1) /\ l \in Nat /\ k = l + 1
    <3>1. tc[1].method = "Ok"
      BY DEF tc
    <3>2. k # 1
      BY <2>1, <3>1 DEF CloseMethod
    <3> QED
      BY <3>2, <1>2, <2>1
  <2> HIDE DEF l
  <2>3. \A x : (\E j \in k .. Len(cb) : cb[j] = x) => \E j \in l .. Len(cb1) : cb1[j] = x
    <3> SUFFICES ASSUME NEW j \in k .. Len(cb)
                 PROVE  j - 1 \in l .. Len(cb1) /\ cb1[j - 1] = cb[j]
      OBVIOUS
    <3>1. j - 1 \in l .. Len(cb1) /\ j - 1 \in 1 .. Len(cb1) /\ (j - 1) + 1 = j
      BY <1>3, <2>2
    <3> QED
      BY <3>1, <1>3
  <2>4. tc1[l] = CloseMethod
    BY <1>2, <2>1, <2>2
  <2>5. ASSUME NEW i \in 1 .. l - 1
        PROVE  /\ i \in 1 .. Len(cb1) /\ tc1[i].call = cb1[i] /\ tc1[i].method = "Ok"
    <3>1. i + 1 \in 1 .. k - 1 /\ i \in 1 .. Len(tc1)
      BY <1>2, <2>2
    <3>2. Answers(n, i + 1) /\ tc[i + 1].method = "Ok" /\ tc1[i] = tc[i + 1]
      BY <3>1, <1>2, <2>1
    <3> QED
      BY <3>1, <3>2, <1>6
  <2>6. ASSUME NEW i \in l + 1 .. Len(tc1)
        PROVE  kind[tc1[i].call] = "close" /\ \E j \in l .. Len(cb1) : cb1[j] = tc1[i].call
    <3>1. i + 1 \in k + 1 .. Len(tc) /\ i \in 1 .. Len(tc1)
      BY <1>2, <2>2
    <3>2. tc1[i] = tc[i + 1]
      BY <3>1, <1>2
    <3>3. kind[tc[i + 1].call] = "close" /\ \E j \in k .. Len(cb) : cb[j] = tc[i + 1].call
      BY <3>1, <2>1
    <3>4. \E j \in l .. Len(cb1) : cb1[j] = tc[i + 1].call
      BY <3>3, <2>3
    <3> QED
      BY <3>2, <3>3, <3>4
  <2>7. \A i \in 1 .. Len(ts) :
           ts[i].method = "Request" /\ \E j \in l .. Len(cb1) : cb1[j] = ts[i].call
    BY <2>1, <2>3
  <2>8. server'[n] = "closing" /\ slot'[n] # None
    BY <1>4, <1>8 DEF ToldToClose
  <2>9. ToldToClose(n)'
    <3>1. l \in 1 .. Len(toClient'[n]) /\ toClient'[n][l] = CloseMethod
      BY <2>2, <2>4 DEF tc1
    <3>2. \A i \in 1 .. l - 1 : Answers(n, i)' /\ toClient'[n][i].method = "Ok"
      BY <2>5 DEF Answers, cb1, tc1
    <3>3. \A i \in l + 1 .. Len(toClient'[n]) :
             /\ kind'[toClient'[n][i].call] = "close"
             /\ \E j \in l .. Len(Callbacks(n)') : Callbacks(n)'[j] = toClient'[n][i].call
      BY <1>4, <2>6 DEF cb1, tc1
    <3>4. \A i \in 1 .. Len(toServer'[n]) :
             /\ toServer'[n][i].method = "Request"
             /\ \E j \in l .. Len(Callbacks(n)') : Callbacks(n)'[j] = toServer'[n][i].call
      BY <1>4, <2>7 DEF cb1
    <3> QED
      BY <1>5, <2>8, <3>1, <3>2, <3>3, <3>4 DEF ToldToClose
  <2> QED
    BY <2>9 DEF Sound
<1> QED
  BY <1>7, <1>8, FirstAnswer DEF Sound

\* close-ok: it answers the last callbacks of an object that asked to be closed, and
\* nothing of the object is left when the entry is free.
LEMMA CloseOkSound ==
    ASSUME TypeInv, HeldInv, CloseIsLast, NEW n \in Number, Sound(n), toClient[n] # <<>>,
           toClient[n][1].method = "CloseOk"
    PROVE  /\ closed[slot[n]] /\ Answers(n, 1)
           /\ (/\ toClient'[n] = Tail(toClient[n]) /\ slot'[n] = None
               /\ UNCHANGED <<toServer, server, bye>>) => Sound(n)'
<1> DEFINE tc == toClient[n]
           ts == toServer[n]
           cb == Callbacks(n)
<1>1. tc \in Seq(Frame) /\ ts \in Seq(Frame) /\ cb \in Seq(Call)
  BY WireTypes
<1>2. Answers(n, 1) /\ InStep(n) /\ slot[n] \in Chan
  BY FirstAnswer DEF Sound
<1>3. kind[cb[1]] = "close" /\ server[n] = "closed" /\ 1 \in 1 .. Len(cb)
  BY <1>1, <1>2 DEF InStep, Answers
<1>4. cb = rpcCallbacks[slot[n]]
  BY <1>2, NoneAssumption DEF Callbacks
<1>5. Len(cb) = 1 /\ closed[slot[n]]
  BY <1>2, <1>3, <1>4 DEF CloseIsLast
<1>6. Len(tc) = 1
  <2>1. \A i \in 1 .. Len(tc) : i \in 1 .. Len(cb)
    BY <1>2 DEF InStep, Answers
  <2> QED
    BY <1>1, <1>5, <2>1
<1>7. Live => Len(ts) = 0
  BY <1>1, <1>2, <1>5, <1>6 DEF InStep
<1>8. ASSUME toClient'[n] = Tail(tc), slot'[n] = None, UNCHANGED <<toServer, server, bye>>
      PROVE  Sound(n)'
  <2>1. Tail(tc) = <<>>
    <3>1. Tail(tc) \in Seq(Frame) /\ Len(Tail(tc)) = 0
      BY <1>1, <1>6
    <3> QED
      BY <3>1, EmptyAt
  <2>2. Len(toClient'[n]) = 0 /\ Callbacks(n)' = <<>> /\ Len(Callbacks(n)') = 0
    BY <1>8, <2>1, EmptyLen DEF Callbacks
  <2>3. InStep(n)'
    <3>1. Live' => Len(toServer'[n]) = 0
      BY <1>7, <1>8 DEF Live
    <3>2. server'[n] = "closed"
      BY <1>3, <1>8
    <3> QED
      BY <2>2, <3>1, <3>2 DEF InStep
  <2> QED
    BY <2>3 DEF Sound
<1> QED
  BY <1>2, <1>5, <1>8

\* Channel.Close: unless a close of the object itself is under way, what is left on the
\* way to the server are requests it will drop, then the client's close-ok.
LEMMA CloseSound ==
    ASSUME TypeInv, HeldInv, NEW n \in Number, Sound(n), toClient[n] # <<>>,
           toClient[n][1].method = "Close",
           \A c \in Elems(rpcCallbacks[slot[n]]) : kind[c] # "close",
           toClient'[n] = Tail(toClient[n]), slot'[n] = None,
           toServer'[n] = Append(toServer[n], CloseOk(None)), UNCHANGED <<server, kind>>,
           \A c \in Call : promise[c] # "none" => promise'[c] # "none"
    PROVE  Sound(n)'
<1> DEFINE tc == toClient[n]
           ts == toServer[n]
           cb == Callbacks(n)
           ts1 == toServer'[n]
<1>1. tc \in Seq(Frame) /\ ts \in Seq(Frame) /\ cb \in Seq(Call) /\ CloseOk(None) \in Frame
  BY WireTypes, FrameTypes
<1>2. /\ Len(ts1) = Len(ts) + 1 /\ Len(ts) \in Nat
      /\ \A i \in 1 .. Len(ts) : ts1[i] = ts[i]
      /\ ts1[Len(ts) + 1] = CloseOk(None)
  BY <1>1, AppendAt
<1>3. ToldToClose(n) /\ slot[n] \in Chan
  BY FirstAnswer
<1>4. cb = rpcCallbacks[slot[n]]
  BY <1>3, NoneAssumption DEF Callbacks
<1>5. \A j \in 1 .. Len(cb) : cb[j] \in Call /\ promise[cb[j]] = "pending" /\ kind[cb[j]] # "close"
  <2> SUFFICES ASSUME NEW j \in 1 .. Len(cb)
               PROVE  cb[j] \in Call /\ promise[cb[j]] = "pending" /\ kind[cb[j]] # "close"
    OBVIOUS
  <2>1. cb[j] \in Elems(rpcCallbacks[slot[n]])
    BY <1>1, <1>4 DEF Elems
  <2> QED
    BY <2>1, WaitingCall
<1>6. PICK k \in 1 .. Len(tc) :
          /\ tc[k] = CloseMethod
          /\ \A i \in 1 .. k - 1 : Answers(n, i) /\ tc[i].method = "Ok"
          /\ \A i \in k + 1 .. Len(tc) :
                kind[tc[i].call] = "close" /\ \E j \in k .. Len(cb) : cb[j] = tc[i].call
          /\ \A i \in 1 .. Len(ts) :
                ts[i].method = "Request" /\ \E j \in k .. Len(cb) : cb[j] = ts[i].call
  BY <1>3 DEF ToldToClose
<1>7. Len(tc) \in Nat /\ Len(cb) \in Nat
  BY <1>1
<1>8. /\ server'[n] = "closing" /\ Callbacks(n)' = <<>>
      /\ UNCHANGED kind /\ toClient'[n] = Tail(tc)
  BY <1>3 DEF ToldToClose, Callbacks
<1> HIDE DEF tc, ts, cb, ts1
<1>9. k = 1
  <2>1. k # 1 => 1 \in 1 .. k - 1
    BY <1>6, <1>7
  <2>2. tc[1].method = "Close"
    BY DEF tc
  <2> QED
    BY <1>6, <2>1, <2>2
<1>10. Len(tc) = 1
  <2>1. ASSUME Len(tc) # 1 PROVE FALSE
    <3>1. k + 1 \in k + 1 .. Len(tc)
      BY <1>7, <1>9, <2>1, MoreThanOne
    <3>2. PICK j \in k .. Len(cb) : cb[j] = tc[k + 1].call
      BY <1>6, <3>1
    <3>3. kind[cb[j]] = "close" /\ j \in 1 .. Len(cb)
      BY <1>6, <1>9, <3>1, <3>2
    <3> QED
      BY <1>5, <3>3
  <2> QED
    BY <2>1
<1>11. toClient'[n] = <<>>
  <2>1. Tail(tc) \in Seq(Frame) /\ Len(Tail(tc)) = 0
    BY <1>1, <1>10 DEF tc
  <2> QED
    BY <1>8, <2>1, EmptyAt
<1>12. ASSUME NEW i \in 1 .. Len(ts)
       PROVE  /\ ts[i].method = "Request" /\ ts[i].call \in Call
              /\ promise'[ts[i].call] # "none" /\ kind'[ts[i].call] # "close"
  <2>1. PICK j \in k .. Len(cb) : cb[j] = ts[i].call
    BY <1>6
  <2>2. j \in 1 .. Len(cb)
    BY <1>9, <2>1
  <2>3. cb[j] \in Call /\ promise[cb[j]] # "none" /\ kind'[cb[j]] # "close"
    BY <1>5, <1>8, <2>2
  <2> QED
    BY <1>6, <2>1, <2>3
<1>13. /\ Len(ts1) \in 1 .. Len(ts1) /\ ts1[Len(ts1)] = CloseOk(None)
       /\ Len(Callbacks(n)') = Len(ts1) - Len(ts1)
       /\ \A j \in Len(ts1) + 1 .. Len(ts1) : FALSE
  <2>1. Len(ts1) \in Nat \ {0}
    BY <1>2
  <2> QED
    BY <1>2, <1>8, <2>1, EmptyLen
<1>14. \A j \in 1 .. Len(ts1) - 1 : /\ ts1[j].method = "Request" /\ ts1[j].call \in Call
                                    /\ promise'[ts1[j].call] # "none" /\ kind'[ts1[j].call] # "close"
  BY <1>2, <1>12
<1>15. \E k1 \in 1 .. Len(ts1) :
          /\ ts1[k1] = CloseOk(None)
          /\ \A j \in 1 .. k1 - 1 : /\ ts1[j].method = "Request" /\ ts1[j].call \in Call
                                    /\ promise'[ts1[j].call] # "none" /\ kind'[ts1[j].call] # "close"
          /\ Len(Callbacks(n)') = Len(ts1) - k1
          /\ \A j \in k1 + 1 .. Len(ts1) : ts1[j] = Request(Callbacks(n)'[j - k1])
  <2> Len(ts1) \in 1 .. Len(ts1)
    BY <1>13
  <2> WITNESS Len(ts1) \in 1 .. Len(ts1)
  <2> QED
    BY <1>13, <1>14
<1>16. Draining(n)'
  BY <1>8, <1>11, <1>15 DEF Draining, Dropped, CloseOk, Request, ts1
<1> QED
  BY <1>16 DEF Sound

\* The broker answers a request of a channel in step.
LEMMA ServeSound ==
    ASSUME TypeInv, HeldInv, CloseIsLast, NEW n \in Number, Sound(n), Serve(n)
    PROVE  Sound(n)'
<1> DEFINE tc == toClient[n]
           ts == toServer[n]
           cb == Callbacks(n)
           c == Head(ts).call
           tc1 == toClient'[n]
           ts1 == toServer'[n]
<1>1. tc \in Seq(Frame) /\ ts \in Seq(Frame) /\ cb \in Seq(Call) /\ ts # <<>>
  BY WireTypes DEF Serve, Take
<1>2. Live /\ Live' /\ UNCHANGED <<slot, kind, promise, rpcCallbacks>> /\ ts1 = Tail(ts)
  BY DEF Serve, Take, Live, chanVars, rpcVars, callVars, TypeInv, TypeOK, WireTypeOK
<1>3. Callbacks(n)' = cb
  BY <1>2 DEF Callbacks
<1>4. InStep(n)
  <2>1. server[n] # "closing"
    BY DEF Serve
  <2> QED
    BY <2>1 DEF Sound, ToldToClose, Draining
<1>5. /\ Len(tc) \in Nat /\ Len(ts) \in Nat \ {0} /\ Len(cb) \in Nat
      /\ Head(ts) = ts[1]
  BY <1>1
<1>6. /\ Len(cb) = Len(tc) + Len(ts)
       /\ \A j \in 1 .. Len(ts) : ts[j] = Request(cb[Len(tc) + j])
  BY <1>2, <1>4 DEF InStep
<1> HIDE DEF tc, ts, cb
<1>7. /\ c = cb[Len(tc) + 1] /\ c \in Call /\ slot[n] \in Chan
      /\ Len(tc) + 1 \in 1 .. Len(cb)
  <2>1. 1 \in 1 .. Len(ts) /\ Len(tc) + 1 \in 1 .. Len(cb)
    BY <1>5, <1>6
  <2>2. ts[1].call = cb[Len(tc) + 1]
    <3>1. ts[1] = Request(cb[Len(tc) + 1])
      BY <1>6, <2>1
    <3> QED
      BY <3>1 DEF Request
  <2>3. cb[Len(tc) + 1] \in Call /\ slot[n] \in Chan
    BY <2>1, WaitingCall DEF cb
  <2> QED
    BY <1>5, <2>1, <2>2, <2>3
<1>8. PICK f \in Frame :
          /\ f.call = c /\ tc1 = Append(tc, f) /\ f.method \in {"Ok", "CloseOk"}
          /\ f.method = "CloseOk" => kind[c] = "close" /\ server'[n] = "closed"
          /\ server'[n] \in {"open", "closed"}
          /\ server'[n] = "open" => kind[c] # "close"
  <2> USE DEF TypeInv, TypeOK, WireTypeOK, tc
  <2>1. CASE kind[c] = "close" /\ server' = [server EXCEPT ![n] = "closed"] /\ Reply(n, CloseOk(c))
    <3> CloseOk(c) \in Frame
      BY <1>7, FrameTypes
    <3> WITNESS CloseOk(c) \in Frame
    <3> QED
      BY <2>1 DEF CloseOk, Reply
  <2>2. CASE kind[c] = "open" /\ server' = [server EXCEPT ![n] = "open"] /\ Reply(n, Ok(c))
    <3> Ok(c) \in Frame
      BY <1>7, FrameTypes
    <3> WITNESS Ok(c) \in Frame
    <3> QED
      BY <2>2 DEF Ok, Reply
  <2>3. CASE kind[c] = "rpc" /\ server[n] = "open" /\ UNCHANGED server /\ Reply(n, Ok(c))
    <3> Ok(c) \in Frame
      BY <1>7, FrameTypes
    <3> WITNESS Ok(c) \in Frame
    <3> QED
      BY <2>3 DEF Ok, Reply
  <2> QED
    BY <2>1, <2>2, <2>3 DEF Serve, ts
<1>9. /\ Len(tc1) = Len(tc) + 1 /\ \A i \in 1 .. Len(tc) : tc1[i] = tc[i]
      /\ tc1[Len(tc) + 1] = f
  BY <1>1, <1>8, AppendAt
<1>10. /\ Len(ts1) = Len(ts) - 1 /\ \A i \in 1 .. Len(ts1) : ts1[i] = ts[i + 1]
  BY <1>1, <1>2, TailAt
<1>11. cb = rpcCallbacks[slot[n]]
  BY <1>7, NoneAssumption DEF Callbacks, cb
<1>12. \A i \in 1 .. Len(cb) : kind[cb[i]] = "close" => i = Len(cb)
  BY <1>7, <1>11 DEF CloseIsLast
<1> HIDE DEF tc1, ts1, c
<1>13. ASSUME NEW i \in 1 .. Len(tc)
       PROVE  /\ i \in 1 .. Len(cb) /\ tc[i].call = cb[i] /\ tc[i].method = "Ok"
  <2>1. Answers(n, i) /\ (tc[i].method = "CloseOk" => kind[tc[i].call] = "close")
    BY <1>4 DEF InStep, tc
  <2>2. i \in 1 .. Len(cb) /\ tc[i].call = cb[i] /\ tc[i].method \in {"Ok", "CloseOk"}
    BY <2>1 DEF Answers, tc, cb
  <2>3. i # Len(cb)
    BY <1>5, <1>6
  <2> QED
    BY <1>12, <2>1, <2>2, <2>3
<1>14. ASSUME NEW i \in 1 .. Len(tc1)
       PROVE  /\ i \in 1 .. Len(cb) /\ tc1[i].call = cb[i] /\ tc1[i].method \in {"Ok", "CloseOk"}
              /\ tc1[i].method = "CloseOk" => kind[tc1[i].call] = "close" /\ server'[n] = "closed"
  <2>1. CASE i \in 1 .. Len(tc)
    BY <2>1, <1>9, <1>13
  <2>2. CASE i = Len(tc) + 1
    BY <2>2, <1>7, <1>8, <1>9
  <2> QED
    <3>1. i \in 1 .. Len(tc) \/ i = Len(tc) + 1
      BY <1>5, <1>9
    <3> QED
      BY <2>1, <2>2, <3>1
<1>15. ASSUME NEW j \in 1 .. Len(ts1) PROVE ts1[j] = Request(cb[Len(tc1) + j])
  <2>1. j + 1 \in 1 .. Len(ts) /\ Len(tc) + (j + 1) = Len(tc1) + j
    BY <1>5, <1>9, <1>10
  <2> QED
    BY <1>10, <1>6, <2>1
<1>16. Len(cb) = Len(tc1) + Len(ts1)
  BY <1>5, <1>9, <1>10, <1>6
<1>17. InStep(n)'
  <2>1. server'[n] # "closing" /\ slot'[n] # None
    BY <1>2, <1>7, <1>8, NoneAssumption
  <2>2. \A i \in 1 .. Len(toClient'[n]) :
             /\ Answers(n, i)'
             /\ toClient'[n][i].method = "CloseOk" =>
                   kind'[toClient'[n][i].call] = "close" /\ server'[n] = "closed"
    BY <1>2, <1>3, <1>14 DEF Answers, tc1
  <2>3. /\ Len(Callbacks(n)') = Len(toClient'[n]) + Len(toServer'[n])
        /\ \A j \in 1 .. Len(toServer'[n]) :
              toServer'[n][j] = Request(Callbacks(n)'[Len(toClient'[n]) + j])
    BY <1>3, <1>15, <1>16 DEF tc1, ts1
  <2> QED
    BY <2>1, <2>2, <2>3 DEF InStep, Request
<1> QED
  BY <1>17 DEF Sound

\* The client's close-ok arrives: the number is in step with its new object, if any.
LEMMA DrainedSound ==
    ASSUME TypeInv, NEW n \in Number, Sound(n), server[n] = "closing", toServer[n] # <<>>,
           toServer[n][1].method = "CloseOk", toServer'[n] = Tail(toServer[n]),
           server'[n] = "closed", UNCHANGED <<toClient, slot, rpcCallbacks, kind>>
    PROVE  Sound(n)'
<1> DEFINE ts == toServer[n]
           cb == Callbacks(n)
           ts1 == toServer'[n]
<1>1. ts \in Seq(Frame) /\ cb \in Seq(Call)
  BY WireTypes
<1>2. /\ Len(ts1) = Len(ts) - 1 /\ Len(ts) \in Nat \ {0} /\ Len(cb) \in Nat
      /\ \A i \in 1 .. Len(ts1) : ts1[i] = ts[i + 1]
  BY <1>1, TailAt
<1>3. Callbacks(n)' = cb
  BY DEF Callbacks
<1> HIDE DEF ts, cb, ts1
<1>4. ~InStep(n)
  BY DEF InStep
<1>5. ~ToldToClose(n)
  BY <1>2 DEF ToldToClose, ts
<1>6. Draining(n)
  BY <1>4, <1>5 DEF Sound
<1>7. PICK k \in 1 .. Len(ts) :
          /\ \A j \in 1 .. k - 1 : ts[j].method = "Request"
          /\ Len(cb) = Len(ts) - k
          /\ \A j \in k + 1 .. Len(ts) : ts[j] = Request(cb[j - k])
  BY <1>6 DEF Draining, ts, cb
<1>8. k = 1
  <2>1. k # 1 => 1 \in 1 .. k - 1
    BY <1>2
  <2>2. ts[1].method = "CloseOk"
    BY DEF ts
  <2> QED
    BY <1>7, <2>1, <2>2
<1>9. toClient'[n] = <<>> /\ Len(toClient'[n]) = 0
  BY <1>6, EmptyLen DEF Draining
<1>10. Len(cb) = 0 + Len(ts1)
  BY <1>2, <1>7, <1>8
<1>11. ASSUME NEW j \in 1 .. Len(ts1) PROVE ts1[j] = Request(cb[0 + j])
  <2>1. j + 1 \in k + 1 .. Len(ts) /\ (j + 1) - k = 0 + j
    BY <1>2, <1>8
  <2> QED
    BY <1>2, <1>7, <2>1
<1>12. InStep(n)'
  BY <1>3, <1>9, <1>10, <1>11 DEF InStep, Request, ts1
<1> QED
  BY <1>12 DEF Sound

\* Having sent close, the server drops a request or answers a close: what it keeps on
\* the wire still belongs to callbacks behind the answers before the Close.
LEMMA DropSound ==
    ASSUME TypeInv, NEW n \in Number, Sound(n), server[n] = "closing", toServer[n] # <<>>,
           toServer[n][1].method = "Request", toServer'[n] = Tail(toServer[n]),
           UNCHANGED <<server, slot, rpcCallbacks, promise, kind>>,
           \/ toClient'[n] = toClient[n]
           \/ /\ kind[toServer[n][1].call] = "close"
              /\ toClient'[n] = Append(toClient[n], CloseOk(toServer[n][1].call))
    PROVE  Sound(n)'
<1> DEFINE tc == toClient[n]
           ts == toServer[n]
           cb == Callbacks(n)
           tc1 == toClient'[n]
           ts1 == toServer'[n]
<1>1. tc \in Seq(Frame) /\ ts \in Seq(Frame) /\ cb \in Seq(Call)
  BY WireTypes
<1>2. /\ Len(ts1) = Len(ts) - 1 /\ Len(ts) \in Nat \ {0} /\ Len(tc) \in Nat
      /\ \A i \in 1 .. Len(ts1) : ts1[i] = ts[i + 1]
  BY <1>1, TailAt
<1>3. Callbacks(n)' = cb /\ server'[n] = "closing" /\ UNCHANGED <<slot, kind, promise>>
  BY DEF Callbacks
<1>4. /\ ts[1].method = "Request" /\ 1 \in 1 .. Len(ts)
      /\ \/ tc1 = tc
         \/ kind[ts[1].call] = "close" /\ tc1 = Append(tc, CloseOk(ts[1].call))
  BY <1>2
<1> HIDE DEF tc, ts, cb, tc1, ts1
<1>5. ~InStep(n)
  BY DEF InStep
<1>6. CASE ToldToClose(n)
  <2>1. PICK k \in 1 .. Len(tc) :
          /\ tc[k] = CloseMethod
          /\ \A i \in 1 .. k - 1 : Answers(n, i) /\ tc[i].method = "Ok"
          /\ \A i \in k + 1 .. Len(tc) :
                kind[tc[i].call] = "close" /\ \E j \in k .. Len(cb) : cb[j] = tc[i].call
          /\ \A i \in 1 .. Len(ts) :
                ts[i].method = "Request" /\ \E j \in k .. Len(cb) : cb[j] = ts[i].call
    BY <1>6 DEF ToldToClose, tc, ts, cb
  <2>2. /\ Len(tc1) \in Nat /\ Len(tc) <= Len(tc1)
        /\ \A i \in 1 .. Len(tc) : tc1[i] = tc[i]
        /\ \A i \in 1 .. Len(tc1) : i \in 1 .. Len(tc) \/
              (kind[ts[1].call] = "close" /\ tc1[i].call = ts[1].call)
    <3>1. CASE tc1 = tc
      BY <3>1, <1>2
    <3>2. CASE kind[ts[1].call] = "close" /\ tc1 = Append(tc, CloseOk(ts[1].call))
      <4>1. ts[1] \in Frame
        BY <1>1, <1>4 DEF ts
      <4>2. CloseOk(ts[1].call) \in Frame /\ CloseOk(ts[1].call).call = ts[1].call
        BY <4>1 DEF Frame, CloseOk
      <4>3. /\ Len(tc1) = Len(tc) + 1 /\ \A i \in 1 .. Len(tc) : tc1[i] = tc[i]
            /\ tc1[Len(tc) + 1] = CloseOk(ts[1].call)
        BY <1>1, <3>2, <4>2, AppendAt DEF tc
      <4>4. \A i \in 1 .. Len(tc1) : i \in 1 .. Len(tc) \/ i = Len(tc) + 1
        <5>1. Len(tc1) = Len(tc) + 1 /\ Len(tc) \in Nat
          BY <1>2, <4>3
        <5> QED
          BY <5>1
      <4> QED
        BY <1>2, <3>2, <4>2, <4>3, <4>4
    <3> QED
      BY <3>1, <3>2, <1>4
  <2>3. k \in Nat /\ k >= 1 /\ k \in 1 .. Len(tc1) /\ tc1[k] = CloseMethod
    BY <1>2, <2>1, <2>2
  <2>4. ASSUME NEW i \in 1 .. k - 1
        PROVE  /\ i \in 1 .. Len(cb) /\ tc1[i].call = cb[i] /\ tc1[i].method = "Ok"
    <3>1. Answers(n, i) /\ tc[i].method = "Ok"
      BY <2>1
    <3>2. i \in 1 .. Len(tc)
      BY <1>2, <2>3, <2>1
    <3> QED
      BY <2>2, <3>1, <3>2 DEF Answers, tc, cb
  <2>5. ASSUME NEW i \in k + 1 .. Len(tc1)
        PROVE  kind[tc1[i].call] = "close" /\ \E j \in k .. Len(cb) : cb[j] = tc1[i].call
    <3>1. i \in 1 .. Len(tc1)
      BY <2>2, <2>3
    <3>2. CASE i \in 1 .. Len(tc)
      <4>1. i \in k + 1 .. Len(tc)
        BY <1>2, <2>3, <3>2
      <4>2. tc1[i] = tc[i]
        BY <2>2, <3>2
      <4> QED
        BY <2>1, <4>1, <4>2
    <3>3. CASE kind[ts[1].call] = "close" /\ tc1[i].call = ts[1].call
      BY <1>4, <2>1, <3>3
    <3> QED
      BY <2>2, <3>1, <3>2, <3>3
  <2>6. ASSUME NEW i \in 1 .. Len(ts1)
        PROVE  ts1[i].method = "Request" /\ \E j \in k .. Len(cb) : cb[j] = ts1[i].call
    <3>1. i + 1 \in 1 .. Len(ts) /\ ts1[i] = ts[i + 1]
      BY <1>2
    <3> QED
      BY <2>1, <3>1
  <2>7. ToldToClose(n)'
    <3>1. slot'[n] # None
      BY <1>3, <1>6 DEF ToldToClose
    <3>2. \A i \in 1 .. k - 1 : Answers(n, i)' /\ tc1[i].method = "Ok"
      BY <1>3, <2>4 DEF Answers, tc1
    <3>3. CloseMethod' = CloseMethod
      BY DEF CloseMethod
    <3> QED
      BY <1>3, <2>3, <2>5, <2>6, <3>1, <3>2, <3>3 DEF ToldToClose, tc1, ts1
  <2> QED
    BY <2>7 DEF Sound
<1>7. CASE Draining(n)
  <2>1. PICK k \in 1 .. Len(ts) :
          /\ ts[k] = CloseOk(None)
          /\ \A j \in 1 .. k - 1 : ts[j].method = "Request" /\ Dropped(ts[j].call)
          /\ Len(cb) = Len(ts) - k
          /\ \A j \in k + 1 .. Len(ts) : ts[j] = Request(cb[j - k])
    BY <1>7 DEF Draining, ts, cb
  <2> DEFINE l == k - 1
  <2>2. k \in Nat /\ k # 1 /\ l \in 1 .. Len(ts1) /\ l \in Nat /\ k = l + 1
    <3>1. k # 1
      BY <1>4, <2>1 DEF CloseOk
    <3> QED
      BY <3>1, <1>2, <2>1
  <2> HIDE DEF l
  <2>3. kind[ts[1].call] # "close"
    <3>1. 1 \in 1 .. k - 1
      BY <2>2
    <3> QED
      BY <2>1, <3>1 DEF Dropped
  <2>4. toClient'[n] = <<>>
    BY <1>4, <1>7, <2>3 DEF Draining, tc, tc1
  <2>5. ts1[l] = CloseOk(None)
    BY <1>2, <2>1, <2>2
  <2>6. ASSUME NEW j \in 1 .. l - 1 PROVE ts1[j].method = "Request" /\ Dropped(ts1[j].call)
    <3>1. j + 1 \in 1 .. k - 1 /\ j \in 1 .. Len(ts1)
      BY <1>2, <2>2
    <3> QED
      BY <1>2, <2>1, <3>1
  <2>7. Len(cb) = Len(ts1) - l
    BY <1>2, <2>1, <2>2
  <2>8. ASSUME NEW j \in l + 1 .. Len(ts1) PROVE ts1[j] = Request(cb[j - l])
    <3>1. j + 1 \in k + 1 .. Len(ts) /\ j \in 1 .. Len(ts1) /\ (j + 1) - k = j - l
      BY <1>2, <2>2
    <3> QED
      BY <1>2, <2>1, <3>1
  <2>9. Draining(n)'
    <3>1. \A j \in 1 .. l - 1 : /\ ts1[j].method = "Request" /\ ts1[j].call \in Call
                                /\ promise'[ts1[j].call] # "none" /\ kind'[ts1[j].call] # "close"
      BY <1>3, <2>6 DEF Dropped
    <3> QED
      BY <1>3, <2>2, <2>4, <2>5, <2>7, <2>8, <3>1 DEF Draining, Dropped, CloseOk, Request, ts1
  <2> QED
    BY <2>9 DEF Sound
<1> QED
  BY <1>5, <1>6, <1>7 DEF Sound

\* A channel exception: the server was open, so the number was in step.
LEMMA ExceptionSound ==
    ASSUME TypeInv, NEW n \in Number, Sound(n), ServerCloses(n)
    PROVE  Sound(n)'
<1> DEFINE tc == toClient[n]
           ts == toServer[n]
           cb == Callbacks(n)
           tc1 == toClient'[n]
           k == Len(tc) + 1
<1>1. tc \in Seq(Frame) /\ ts \in Seq(Frame) /\ cb \in Seq(Call) /\ CloseMethod \in Frame
  BY WireTypes, FrameTypes
<1>2. /\ tc1 = Append(tc, CloseMethod) /\ server[n] = "open" /\ server'[n] = "closing" /\ Live
      /\ UNCHANGED <<toServer, slot, kind>> /\ Callbacks(n)' = cb
  BY DEF ServerCloses, TypeInv, TypeOK, WireTypeOK, Live, chanVars, rpcVars, callVars, Callbacks
<1>3. /\ Len(tc1) = k /\ \A i \in 1 .. Len(tc) : tc1[i] = tc[i]
      /\ tc1[k] = CloseMethod
  BY <1>1, <1>2, AppendAt
<1>4. Len(tc) \in Nat /\ Len(ts) \in Nat /\ k \in Nat
  BY <1>1
<1>5. InStep(n)
  BY <1>2 DEF Sound, ToldToClose, Draining
<1>6. /\ Len(cb) = Len(tc) + Len(ts)
      /\ \A j \in 1 .. Len(ts) : ts[j] = Request(cb[Len(tc) + j])
  BY <1>2, <1>5 DEF InStep
<1>7. ASSUME NEW i \in 1 .. Len(tc) PROVE Answers(n, i) /\ tc[i].method = "Ok"
  BY <1>2, <1>5 DEF InStep, Answers
<1> HIDE DEF tc, ts, cb, tc1
<1>8. ASSUME NEW j \in 1 .. Len(ts)
      PROVE  ts[j].method = "Request" /\ \E i \in k .. Len(cb) : cb[i] = ts[j].call
  <2>1. Len(tc) + j \in k .. Len(cb)
    BY <1>4, <1>6
  <2>2. ts[j] = Request(cb[Len(tc) + j])
    BY <1>6
  <2> QED
    BY <2>1, <2>2 DEF Request
<1>9. ASSUME NEW i \in 1 .. k - 1 PROVE Answers(n, i)' /\ tc1[i].method = "Ok"
  <2>1. i \in 1 .. Len(tc)
    BY <1>4
  <2>2. tc1[i] = tc[i] /\ Answers(n, i) /\ tc[i].method = "Ok"
    BY <1>3, <1>7, <2>1
  <2> QED
    BY <1>2, <2>2 DEF Answers, tc, tc1, cb
<1>10. k \in 1 .. Len(tc1) /\ \A i \in k + 1 .. Len(tc1) : FALSE
  BY <1>3, <1>4
<1>11. slot'[n] # None
  BY <1>2, <1>5 DEF InStep
<1>12. CloseMethod' = CloseMethod
  BY DEF CloseMethod
<1> HIDE DEF k
<1>13. ToldToClose(n)'
  BY <1>2, <1>3, <1>8, <1>9, <1>10, <1>11, <1>12 DEF ToldToClose, tc1, ts
<1> QED
  BY <1>13 DEF Sound

\* A request the server does not expect ends the connection: it takes nothing more.
LEMMA ErrorSound ==
    ASSUME TypeInv, NEW n \in Number, Sound(n), server[n] # "closing", bye' = "Close",
           UNCHANGED <<toClient, server, slot, rpcCallbacks, kind>>
    PROVE  Sound(n)'
<1>1. InStep(n) /\ ~Live'
  BY DEF Sound, ToldToClose, Draining, Live
<1>2. Callbacks(n)' = Callbacks(n)
  BY DEF Callbacks
<1>3. \A i \in 1 .. Len(toClient[n]) : Answers(n, i) => Answers(n, i)'
  BY <1>2 DEF Answers
<1>4. InStep(n)'
  BY <1>1, <1>2, <1>3 DEF InStep
<1> QED
  BY <1>4 DEF Sound

----------------------------------------------------------------------------
(* The steps of the system *)

\* What the steps need of the state they start in
Inv == TypeInv /\ HeldInv /\ TableInv /\ AnswerInv

\* Objects in the table under two numbers are two objects.
LEMMA OtherNumber ==
    ASSUME TypeInv, TableInv, NEW n \in Number, NEW m \in Number, n # m, slot[n] # None
    PROVE  slot[m] # slot[n]
  BY DEF TableInv, SlotNumbered

\* Callbacks of an object without a number: none
LEMMA FreshObject ==
    ASSUME TypeInv, HeldInv, CallsOwned, NEW ch \in Chan, number[ch] = None
    PROVE  rpcCallbacks[ch] = <<>> /\ rpcQueue[ch] = <<>>
<1>1. \A c \in Call : ~(promise[c] = "pending" /\ owner[c] = ch)
  BY NoneAssumption DEF CallsOwned
<1>2. Elems(rpcQueue[ch]) \cup Elems(rpcCallbacks[ch]) = {}
  BY <1>1 DEF HeldInv, PendingIsHeld, Outstanding
<1>3. rpcQueue[ch] \in Seq(Call) /\ rpcCallbacks[ch] \in Seq(Call)
  BY DEF TypeInv, TypeOK, RpcTypeOK
<1>4. ASSUME NEW s \in Seq(Call), Elems(s) = {} PROVE s = <<>>
  <2>1. DOMAIN s = 1 .. Len(s) /\ Len(s) \in Nat
    OBVIOUS
  <2>2. 1 \notin DOMAIN s
    BY <1>4 DEF Elems
  <2> QED
    BY <2>1, <2>2, EmptyAt
<1> QED
  BY <1>2, <1>3, <1>4

\* A step that leaves callbacks, table and wire alone keeps every number sound.
LEMMA WireStable ==
    ASSUME Inv, UNCHANGED <<sock, slot, rpcCallbacks, toClient, toServer, server>>, Live' => Live,
           crossed \subseteq crossed',
           \A c \in Call : promise[c] # "none" => promise'[c] # "none" /\ kind'[c] = kind[c]
    PROVE  WireInv'
<1> SUFFICES ASSUME sock' = "up", NEW n \in Number \ crossed' PROVE Sound(n)'
  BY DEF WireInv
<1>1. Sound(n)
  BY DEF Inv, AnswerInv, WireInv
<1>2. Callbacks(n)' = Callbacks(n)
  BY DEF Callbacks
<1>3. TypeInv /\ HeldInv
  BY DEF Inv
<1> QED
  BY <1>1, <1>2, <1>3, SoundStable

\* A call of the application
LEMMA ApplicationAnswers ==
    ASSUME Inv, Application
    PROVE  AnswerInv'
<1> USE DEF Inv, AnswerInv, connVars, wireVars
<1>1. ASSUME NEW c \in Call, NEW ch \in Chan, NEW k, SendRpc(c, ch, k), promise[c] = "none"
      PROVE  \A d \in Call : /\ promise[d] # "none" =>
                                  /\ promise'[d] # "none" /\ kind'[d] = kind[d]
                                  /\ owner'[d] = owner[d]
                             /\ promise'[d] = "resolved" => promise[d] = "resolved"
  BY <1>1 DEF SendRpc, TypeInv, TypeOK, CallTypeOK
<1>2. ASSUME NEW c \in Call, NEW ch \in Chan, NEW n \in Number, OpenChannel(c, ch, n)
      PROVE  AnswerInv'
  <2>1. /\ promise[c] = "none" /\ number[ch] = None /\ slot[n] = None
        /\ slot' = [slot EXCEPT ![n] = ch] /\ number' = [number EXCEPT ![ch] = n]
        /\ SendRpc(c, ch, "open") /\ UNCHANGED closed
    BY <1>2 DEF OpenChannel
  <2>2. /\ \A x \in Chan : number[x] \in Number => number'[x] = number[x]
        /\ number'[ch] = n
    BY <2>1, NoneAssumption DEF TypeInv, TypeOK, ChanTypeOK
  <2>3. CallsOwned'
    BY <2>1, <2>2, SendRpcOwned
  <2>4. ~closed[ch] \/ (rpcCallbacks[ch] = <<>> /\ rpcQueue[ch] = <<>>)
    BY <2>1, FreshObject
  <2>5. CloseIsLast'
    BY <2>1, <2>4, SendRpcLast
  <2>6. UNCHANGED <<sock, bye, rpcCallbacks, toClient, toServer, server, crossed, answer>>
    BY <2>1 DEF SendRpc
  <2>7. AnswerIsOwn'
    BY <2>1, <2>2, <2>6, <1>1, OwnStable
  <2>8. WireInv'
    <3> SUFFICES ASSUME sock' = "up", NEW m \in Number \ crossed' PROVE Sound(m)'
      BY DEF WireInv
    <3>1. Sound(m)
      BY <2>6 DEF WireInv
    <3>2. CASE m # n
      <4>1. slot'[m] = slot[m] /\ Callbacks(m)' = Callbacks(m)
        BY <2>1, <2>6, <3>2 DEF Callbacks, TypeInv, TypeOK, ChanTypeOK
      <4> QED
        BY <2>1, <2>6, <3>1, <4>1, <1>1, SoundStable DEF Live
    <3>3. CASE m = n
      <4>1. slot'[n] = ch /\ ch # None
        BY <2>1, NoneAssumption DEF TypeInv, TypeOK, ChanTypeOK
      <4>2. Callbacks(n) = <<>> /\ Callbacks(n)' = <<>>
        BY <2>1, <2>6, <4>1, FreshObject DEF Callbacks
      <4> QED
        BY <2>1, <2>6, <3>1, <3>3, <4>1, <4>2, <1>1, SoundStable DEF Live
    <3> QED
      BY <3>2, <3>3
  <2> QED
    BY <2>3, <2>5, <2>7, <2>8
<1>3. ASSUME NEW c \in Call, RejectClosed(c), promise[c] = "none", UNCHANGED chanVars
      PROVE  AnswerInv'
  <2>1. /\ UNCHANGED <<sock, bye, slot, number, closed, rpcQueue, rpcCallbacks, toClient, toServer,
                       server, crossed, answer, owner, kind>>
        /\ promise' = [promise EXCEPT ![c] = "rejected"]
    BY <1>3 DEF RejectClosed, chanVars, rpcVars
  <2>2. \A d \in Call : /\ promise[d] # "none" => promise'[d] # "none"
                        /\ promise'[d] = "resolved" => promise[d] = "resolved"
                        /\ promise'[d] \in {"pending", "resolved"} =>
                              promise[d] \in {"pending", "resolved"}
    BY <2>1 DEF TypeInv, TypeOK, CallTypeOK
  <2>3. CallsOwned'
    BY <2>1, <2>2, OwnedStable
  <2>4. CloseIsLast'
    BY <2>1, LastStable
  <2>5. AnswerIsOwn'
    BY <2>1, <2>2, OwnStable
  <2>6. WireInv'
    BY <2>1, <2>2, WireStable DEF Live
  <2> QED
    BY <2>3, <2>4, <2>5, <2>6
<1>4. ASSUME NEW c \in Call, NEW ch \in Chan, NEW k, SendRpc(c, ch, k), promise[c] = "none",
             number[ch] # None, ~closed[ch], k = "close" => closed'[ch], UNCHANGED <<slot, number>>,
             \A x \in Chan : closed[x] => closed'[x]
      PROVE  AnswerInv'
  <2>1. UNCHANGED <<sock, bye, slot, number, rpcCallbacks, toClient, toServer, server, crossed, answer>>
    BY <1>4 DEF SendRpc
  <2>2. number'[ch] \in Number
    BY <1>4 DEF TypeInv, TypeOK, ChanTypeOK
  <2>3. CallsOwned'
    BY <1>4, <2>1, <2>2, SendRpcOwned
  <2>4. CloseIsLast'
    BY <1>4, SendRpcLast
  <2>5. AnswerIsOwn'
    BY <1>1, <1>4, <2>1, OwnStable
  <2>6. WireInv'
    BY <1>1, <1>4, <2>1, WireStable DEF Live
  <2> QED
    BY <2>3, <2>4, <2>5, <2>6
<1>5. ASSUME NEW c \in Call, NEW ch \in Chan, Rpc(c, ch) PROVE AnswerInv'
  <2>1. promise[c] = "none" /\ number[ch] # None
    BY <1>5 DEF Rpc
  <2>2. CASE closed[ch] /\ RejectClosed(c)
    BY <2>1, <2>2, <1>3 DEF RejectClosed
  <2>3. CASE ~closed[ch] /\ SendRpc(c, ch, "rpc") /\ UNCHANGED chanVars
    BY <2>1, <2>3, <1>4 DEF chanVars
  <2> QED
    BY <1>5, <2>2, <2>3 DEF Rpc
<1>6. ASSUME NEW c \in Call, NEW ch \in Chan, Close(c, ch) PROVE AnswerInv'
  <2>1. promise[c] = "none" /\ number[ch] # None
    BY <1>6 DEF Close
  <2>2. CASE closed[ch] /\ RejectClosed(c)
    BY <2>1, <2>2, <1>3 DEF RejectClosed
  <2>3. CASE /\ ~closed[ch] /\ closed' = [closed EXCEPT ![ch] = TRUE]
             /\ SendRpc(c, ch, "close") /\ UNCHANGED <<slot, number>>
    <3>1. closed'[ch] /\ \A x \in Chan : closed[x] => closed'[x]
      BY <2>3 DEF TypeInv, TypeOK, ChanTypeOK
    <3> QED
      BY <2>1, <2>3, <3>1, <1>4
  <2> QED
    BY <1>6, <2>2, <2>3 DEF Close
<1>7. CASE CloseConnection
  <2>1. UNCHANGED <<sock, slot, number, closed, rpcQueue, rpcCallbacks, toClient, toServer,
                    server, crossed, answer, owner, kind, promise>> /\ (Live' => Live)
    BY <1>7 DEF CloseConnection, chanVars, rpcVars, callVars, Live
  <2>2. CallsOwned'
    BY <2>1, OwnedStable
  <2>3. CloseIsLast'
    BY <2>1, LastStable
  <2>4. AnswerIsOwn'
    BY <2>1, OwnStable
  <2>5. WireInv'
    BY <2>1, WireStable
  <2> QED
    BY <2>2, <2>3, <2>4, <2>5
<1> QED
  BY <1>2, <1>5, <1>6, <1>7 DEF Application

\* The broker and the network
LEMMA EnvironmentAnswers ==
    ASSUME Inv, Environment
    PROVE  AnswerInv'
<1> USE DEF Inv, AnswerInv, connVars, chanVars, rpcVars, callVars, wireVars
<1>1. UNCHANGED <<slot, number, closed, rpcQueue, rpcCallbacks, owner, kind, promise, answer, crossed>>
  BY DEF Environment, Serve, ServeClosing, ServeError, ServerCloses, ServerSaysBye, SocketBreaks, Take
<1>2. CallsOwned' /\ CloseIsLast' /\ AnswerIsOwn'
  BY <1>1, OwnedStable, LastStable, OwnStable
<1>3. \A m \in Number : Callbacks(m)' = Callbacks(m)
  BY <1>1 DEF Callbacks
<1>4. ASSUME NEW n \in Number, Serve(n) \/ ServeClosing(n) \/ ServeError(n) \/ ServerCloses(n)
      PROVE  WireInv'
  <2> SUFFICES ASSUME sock' = "up", NEW m \in Number \ crossed' PROVE Sound(m)'
    BY DEF WireInv
  <2>1. Sound(m)
    BY <1>1, <1>4 DEF WireInv, Serve, ServeClosing, ServeError, ServerCloses, Take
  <2>2. Live' => Live
    BY <1>4 DEF Live, Serve, ServeClosing, ServeError, ServerCloses, Take
  <2>3. CASE m # n
    <3>1. toClient'[m] = toClient[m] /\ toServer'[m] = toServer[m] /\ server'[m] = server[m]
      BY <1>4, <2>3 DEF Serve, ServeClosing, ServeError, ServerCloses, Take, Reply,
                        TypeInv, TypeOK, WireTypeOK
    <3> QED
      BY <1>1, <1>3, <2>1, <2>2, <3>1, SoundStable
  <2>4. CASE m = n /\ Serve(n)
    BY <2>1, <2>4, ServeSound
  <2>5. CASE m = n /\ ServeClosing(n)
    <3>1. /\ server[n] = "closing" /\ toServer[n] # <<>>
          /\ toServer' = [toServer EXCEPT ![n] = Tail(@)]
      BY <2>5 DEF ServeClosing, Take
    <3>2. toServer'[n] = Tail(toServer[n]) /\ Head(toServer[n]) = toServer[n][1]
      BY <3>1 DEF TypeInv, TypeOK, WireTypeOK
    <3>3. CASE Take(n, "CloseOk") /\ server' = [server EXCEPT ![n] = "closed"] /\ UNCHANGED toClient
      <4>1. server'[n] = "closed" /\ toServer[n][1].method = "CloseOk"
        BY <3>2, <3>3 DEF Take, TypeInv, TypeOK, WireTypeOK
      <4> QED
        BY <1>1, <2>1, <2>5, <3>1, <3>2, <3>3, <4>1, DrainedSound
    <3>4. CASE /\ Take(n, "Request") /\ kind[Head(toServer[n]).call] = "close"
               /\ Reply(n, CloseOk(Head(toServer[n]).call)) /\ UNCHANGED server
      <4>1. /\ toServer[n][1].method = "Request" /\ kind[toServer[n][1].call] = "close"
            /\ toClient'[n] = Append(toClient[n], CloseOk(toServer[n][1].call))
        BY <3>2, <3>4 DEF Take, Reply, TypeInv, TypeOK, WireTypeOK
      <4> QED
        BY <1>1, <2>1, <2>5, <3>1, <3>2, <3>4, <4>1, DropSound
    <3>5. CASE Take(n, "Request") /\ UNCHANGED <<toClient, server>>
      <4>1. toServer[n][1].method = "Request"
        BY <3>2, <3>5 DEF Take
      <4> QED
        BY <1>1, <2>1, <2>5, <3>1, <3>2, <3>5, <4>1, DropSound
    <3> QED
      BY <2>5, <3>3, <3>4, <3>5 DEF ServeClosing
  <2>6. CASE m = n /\ ServeError(n)
    <3>1. server[n] # "closing" /\ bye' = "Close" /\ UNCHANGED <<toClient, server>>
      BY <2>6 DEF ServeError
    <3> QED
      BY <1>1, <2>1, <2>6, <3>1, ErrorSound
  <2>7. CASE m = n /\ ServerCloses(n)
    BY <2>1, <2>7, ExceptionSound
  <2> QED
    BY <1>4, <2>3, <2>4, <2>5, <2>6, <2>7
<1>5. CASE ServerSaysBye
  <2>1. UNCHANGED <<sock, toClient, toServer, server>> /\ (Live' => Live)
    BY <1>5 DEF ServerSaysBye, Live
  <2>2. WireInv'
    BY <1>1, <2>1, WireStable
  <2> QED
    BY <1>2, <2>2
<1>6. CASE SocketBreaks
  <2>1. sock' # "up"
    BY <1>6 DEF SocketBreaks
  <2>2. WireInv'
    BY <2>1 DEF WireInv
  <2> QED
    BY <1>2, <2>2
<1> QED
  BY <1>2, <1>4, <1>5, <1>6 DEF Environment

\* The promise chain
LEMMA ChainAnswers ==
    ASSUME Inv, NEW ch \in Chan, Step(ch) \/ StepRejected(ch) \/ Written(ch) \/ WriteFailed(ch)
    PROVE  AnswerInv'
<1> USE DEF Inv, AnswerInv
<1>1. UNCHANGED <<sock, bye, slot, number, closed, owner, kind, answer, toClient, server>>
  BY DEF Step, StepRejected, Written, WriteFailed, connVars, chanVars, callVars, wireVars
<1>2. /\ crossed \subseteq crossed' /\ ch # None
      /\ \A c \in Call : /\ promise'[c] \in {"pending", "resolved"} =>
                              promise[c] \in {"pending", "resolved"}
                         /\ promise[c] # "none" => promise'[c] # "none"
                         /\ promise'[c] = "resolved" => promise[c] = "resolved"
  <2>1. CASE Step(ch) \/ Written(ch)
    BY <2>1, NoneAssumption DEF Step, Written, callVars
  <2>2. CASE StepRejected(ch) \/ WriteFailed(ch)
    <3>1. PICK C : promise' = Settled(C, "rejected")
      BY <2>2 DEF StepRejected, WriteFailed
    <3> QED
      BY <2>2, <3>1, SettledOwned, NoneAssumption DEF StepRejected, WriteFailed
  <2> QED
    BY <2>1, <2>2
<1>3. CallsOwned' /\ AnswerIsOwn'
  BY <1>1, <1>2, OwnedStable, OwnStable
<1>4. CASE Step(ch)
  <2> DEFINE n == number[ch]
             c == Head(rpcQueue[ch])
  <2>1. CloseIsLast'
    BY <1>4, StepLast
  <2>2. /\ n \in Number /\ c \in Call
        /\ rpcCallbacks' = [rpcCallbacks EXCEPT ![ch] = Append(@, c)]
        /\ sock = "up" => toServer' = [toServer EXCEPT ![n] = Append(@, Request(c))]
        /\ crossed' = IF slot[n] = ch THEN crossed ELSE crossed \cup {n}
        /\ UNCHANGED promise
    BY <1>4 DEF Step, TypeInv, TypeOK, RpcTypeOK, Numbered, callVars
  <2>3. ASSUME sock' = "up", NEW m \in Number \ crossed' PROVE Sound(m)'
    <3>1. Sound(m) /\ sock = "up"
      BY <1>1, <1>2, <2>3 DEF WireInv
    <3>2. CASE m # n
      <4>1. slot[m] # ch
        BY <1>2, <2>2, <3>2 DEF TableInv, SlotNumbered
      <4>2. toServer'[m] = toServer[m]
        BY <2>2, <3>1, <3>2 DEF TypeInv, TypeOK, WireTypeOK
      <4>3. Callbacks(m)' = Callbacks(m)
        BY <1>1, <2>2, <4>1 DEF Callbacks, TypeInv, TypeOK, RpcTypeOK, ChanTypeOK
      <4> QED
        BY <1>1, <2>2, <3>1, <4>2, <4>3, SoundStable DEF Live
    <3>3. CASE m = n
      <4>1. slot[n] = ch /\ slot[n] # None
        BY <1>2, <2>2, <2>3, <3>3
      <4>2. /\ toServer'[n] = Append(toServer[n], Request(c))
            /\ Callbacks(n)' = Append(Callbacks(n), c)
        BY <1>1, <1>2, <2>2, <3>1, <4>1
           DEF Callbacks, TypeInv, TypeOK, RpcTypeOK, WireTypeOK
      <4> QED
        BY <1>1, <2>2, <3>1, <3>3, <4>1, <4>2, PushSound
    <3> QED
      BY <3>2, <3>3
  <2>4. WireInv'
    BY <2>3 DEF WireInv
  <2> QED
    BY <1>3, <2>1, <2>4
<1>5. CASE StepRejected(ch)
  <2>1. /\ rpcQueue[ch] # <<>> /\ rpcQueue' = [rpcQueue EXCEPT ![ch] = Tail(@)]
        /\ UNCHANGED rpcCallbacks /\ sock' # "up"
    BY <1>5 DEF StepRejected, connVars
  <2>2. CloseIsLast'
    BY <1>1, <2>1, ShorterLast DEF TypeInv, TypeOK, RpcTypeOK
  <2> QED
    BY <1>3, <2>1, <2>2 DEF WireInv
<1>6. CASE Written(ch)
  <2>1. UNCHANGED <<rpcQueue, rpcCallbacks, promise, toServer, crossed>>
    BY <1>6 DEF Written, callVars, wireVars
  <2>2. CloseIsLast'
    BY <1>1, <2>1, LastStable
  <2>3. WireInv'
    BY <1>1, <2>1, WireStable DEF Live
  <2> QED
    BY <1>3, <2>2, <2>3
<1>7. CASE WriteFailed(ch)
  <2>1. sock' # "up" /\ UNCHANGED rpcQueue
    BY <1>7 DEF WriteFailed, connVars
  <2>2. CASE rpcCallbacks[ch] = <<>>
    <3>1. UNCHANGED rpcCallbacks
      BY <1>7, <2>2 DEF WriteFailed
    <3>2. CloseIsLast'
      BY <1>1, <2>1, <3>1, LastStable
    <3> QED
      BY <1>3, <2>1, <3>2 DEF WireInv
  <2>3. CASE rpcCallbacks[ch] # <<>>
    <3>1. rpcCallbacks' = [rpcCallbacks EXCEPT ![ch] = SubSeq(@, 1, Len(@) - 1)]
      BY <1>7, <2>3 DEF WriteFailed
    <3>2. CloseIsLast'
      BY <1>1, <2>1, <2>3, <3>1, ShorterLast DEF TypeInv, TypeOK, RpcTypeOK
    <3> QED
      BY <1>3, <2>1, <3>2 DEF WireInv
  <2> QED
    BY <2>2, <2>3
<1> QED
  BY <1>4, <1>5, <1>6, <1>7

\* resolveRPC: on a number that nothing crosses, the answer is that of the first call.
LEMMA ResolveAnswers ==
    ASSUME Inv, NEW n \in Number, slot[n] \in Chan, NEW f, ResolveRPC(slot[n], f),
           UNCHANGED <<owner, number, crossed>>,
           n \notin crossed => Answers(n, 1) /\ f = toClient[n][1]
    PROVE  CallsOwned' /\ AnswerIsOwn'
<1> USE DEF Inv, AnswerInv
<1> DEFINE ch == slot[n]
           first == Head(rpcCallbacks[ch])
<1>1. CASE rpcCallbacks[ch] = <<>>
  <2>1. UNCHANGED <<promise, answer>>
    BY <1>1 DEF ResolveRPC
  <2> QED
    BY <2>1, OwnedStable, OwnStable
<1>2. CASE rpcCallbacks[ch] # <<>>
  <2>1. promise' = Settled({first}, "resolved") /\ answer' = [answer EXCEPT ![first] = f.call]
    BY <1>2 DEF ResolveRPC
  <2>2. CallsOwned'
    BY <2>1, SettledOwned, OwnedStable
  <2>3. first \in Call /\ first \in Elems(rpcCallbacks[ch]) /\ first = rpcCallbacks[ch][1]
    BY <1>2 DEF Elems, TypeInv, TypeOK, RpcTypeOK
  <2>4. owner[first] = ch /\ number[ch] = n
    BY <2>3, NoneAssumption DEF HeldInv, PendingIsHeld, Outstanding, TableInv, SlotNumbered
  <2> SUFFICES ASSUME NEW c \in Call, promise'[c] = "resolved", number[owner[c]] \notin crossed
               PROVE  answer'[c] = c
    BY <2>2 DEF AnswerIsOwn
  <2>5. CASE c = first
    <3>1. n \notin crossed
      BY <2>4, <2>5
    <3>2. f.call = Callbacks(n)[1]
      BY <3>1 DEF Answers
    <3>3. Callbacks(n) = rpcCallbacks[ch]
      BY NoneAssumption DEF Callbacks
    <3> QED
      BY <2>1, <2>3, <2>5, <3>2, <3>3 DEF TypeInv, TypeOK, CallTypeOK
  <2>6. CASE c # first
    <3>1. promise[c] = "resolved"
      BY <2>1, <2>6, SettledOwned
    <3>2. answer'[c] = answer[c]
      BY <2>1, <2>6 DEF TypeInv, TypeOK, CallTypeOK
    <3> QED
      BY <3>1, <3>2 DEF AnswerIsOwn
  <2> QED
    BY <2>5, <2>6
<1> QED
  BY <1>1, <1>2

\* Numbers other than the one a frame was read on
LEMMA OthersSound ==
    ASSUME Inv, NEW n \in Number, NEW m \in Number, m # n, Sound(m), slot[n] # None,
           toClient'[m] = toClient[m], toServer'[m] = toServer[m], UNCHANGED <<server, bye, kind>>,
           slot'[m] = slot[m],
           \A x \in Chan : x # slot[n] => rpcCallbacks'[x] = rpcCallbacks[x],
           \A c \in Call : promise[c] # "none" => promise'[c] # "none"
    PROVE  Sound(m)'
<1>1. TypeInv /\ HeldInv /\ TableInv
  BY DEF Inv
<1>2. slot[m] # slot[n]
  BY <1>1, OtherNumber
<1>3. Callbacks(m)' = Callbacks(m)
  BY <1>1, <1>2 DEF Callbacks, TypeInv, TypeOK, ChanTypeOK
<1> QED
  BY <1>1, <1>3, SoundStable DEF Live

\* A frame from the server
LEMMA FrameAnswers ==
    ASSUME Inv, NEW n \in Number,
           SkipFrame(n) \/ GotAnswer(n) \/ GotCloseOk(n) \/ ServerClosedChannel(n)
    PROVE  AnswerInv'
<1> USE DEF Inv, AnswerInv
<1> DEFINE ch == slot[n]
           f == Head(toClient[n])
<1>1. /\ sock = "up" /\ toClient[n] # <<>> /\ toClient' = [toClient EXCEPT ![n] = Tail(@)]
      /\ UNCHANGED <<bye, number, rpcQueue, owner, kind, server>>
      /\ crossed \subseteq crossed'
  BY DEF SkipFrame, GotAnswer, GotCloseOk, ServerClosedChannel, Read
<1>2. /\ f = toClient[n][1] /\ toClient'[n] = Tail(toClient[n])
      /\ \A m \in Number : m # n => toClient'[m] = toClient[m]
  BY <1>1 DEF TypeInv, TypeOK, WireTypeOK
<1>3. \A m \in Number \ crossed' : Sound(m)
  BY <1>1 DEF WireInv
<1>4. CASE SkipFrame(n)
  <2>1. UNCHANGED <<slot, closed, rpcCallbacks, promise, answer, toServer, crossed>> /\ slot[n] = None
    BY <1>4 DEF SkipFrame
  <2>2. CallsOwned' /\ CloseIsLast' /\ AnswerIsOwn'
    BY <1>1, <2>1, OwnedStable, LastStable, OwnStable
  <2>3. ASSUME NEW m \in Number \ crossed' PROVE Sound(m)'
    <3>1. Sound(m) /\ Callbacks(m)' = Callbacks(m)
      BY <1>3, <2>1 DEF Callbacks
    <3>2. m # n
      <4>1. m = n => slot[n] \in Chan
        BY <1>1, <3>1, FirstAnswer
      <4> QED
        BY <2>1, <4>1, NoneAssumption
    <3> QED
      BY <1>1, <1>2, <2>1, <3>1, <3>2, SoundStable DEF Live
  <2> QED
    BY <2>2, <2>3 DEF WireInv
<1>5. ASSUME ResolveRPC(ch, f), ch # None, UNCHANGED <<closed, toServer, crossed>>,
             \/ f.method = "Ok" /\ UNCHANGED slot
             \/ f.method = "CloseOk" /\ slot' = [slot EXCEPT ![n] = None]
      PROVE  AnswerInv'
  <2>1. ch \in Chan
    BY <1>5, WireTypes
  <2>2. n \notin crossed => Sound(n) /\ Answers(n, 1)
    <3> SUFFICES ASSUME n \notin crossed PROVE Sound(n) /\ Answers(n, 1)
      OBVIOUS
    <3>1. Sound(n)
      BY <1>3, <1>5
    <3>2. toClient[n][1].method \in {"Ok", "CloseOk"}
      BY <1>2, <1>5
    <3> QED
      BY <1>1, <3>1, <3>2, FirstAnswer
  <2>3. CallsOwned' /\ AnswerIsOwn'
    BY <1>1, <1>2, <1>5, <2>1, <2>2, ResolveAnswers
  <2>4. CloseIsLast'
    <3>1. CASE rpcCallbacks[ch] = <<>>
      <4>1. UNCHANGED rpcCallbacks
        BY <1>5, <3>1 DEF ResolveRPC
      <4> QED
        BY <1>1, <1>5, <4>1, LastStable
    <3>2. CASE rpcCallbacks[ch] # <<>>
      <4>1. /\ rpcCallbacks'[ch] = Tail(rpcCallbacks[ch])
            /\ \A x \in Chan \ {ch} : rpcCallbacks'[x] = rpcCallbacks[x]
        BY <1>5, <2>1, <3>2 DEF ResolveRPC, TypeInv, TypeOK, RpcTypeOK
      <4> QED
        BY <1>1, <1>5, <2>1, <3>2, <4>1, ShorterLast
    <3> QED
      BY <3>1, <3>2
  <2>5. /\ \A x \in Chan : x # ch => rpcCallbacks'[x] = rpcCallbacks[x]
        /\ \A c \in Call : promise[c] # "none" => promise'[c] # "none"
    <3>1. CASE rpcCallbacks[ch] = <<>>
      BY <1>5, <3>1 DEF ResolveRPC
    <3>2. CASE rpcCallbacks[ch] # <<>>
      <4>1. /\ rpcCallbacks' = [rpcCallbacks EXCEPT ![ch] = Tail(@)]
            /\ promise' = Settled({Head(rpcCallbacks[ch])}, "resolved")
        BY <1>5, <3>2 DEF ResolveRPC
      <4> QED
        BY <4>1, SettledOwned DEF TypeInv, TypeOK, RpcTypeOK
    <3> QED
      BY <3>1, <3>2
  <2>6. ASSUME NEW m \in Number \ crossed' PROVE Sound(m)'
    <3>1. Sound(m)
      BY <1>3
    <3>2. CASE m # n
      <4>1. slot'[m] = slot[m]
        BY <1>5, <3>2 DEF TypeInv, TypeOK, ChanTypeOK
      <4> QED
        BY <1>1, <1>2, <1>5, <2>5, <3>1, <3>2, <4>1, OthersSound
    <3>3. CASE m = n /\ f.method = "Ok" /\ UNCHANGED slot
      <4>1. 1 \in 1 .. Len(Callbacks(n)) /\ Callbacks(n) = rpcCallbacks[ch]
        BY <1>5, <2>2, <3>3 DEF Answers, Callbacks
      <4>2. rpcCallbacks[ch] # <<>>
        BY <4>1, EmptyLen
      <4>3. rpcCallbacks'[ch] = Tail(rpcCallbacks[ch])
        BY <1>5, <2>1, <4>2 DEF ResolveRPC, TypeInv, TypeOK, RpcTypeOK
      <4>4. Callbacks(n)' = Tail(Callbacks(n))
        BY <1>5, <3>3, <4>1, <4>3 DEF Callbacks
      <4> QED
        BY <1>1, <1>2, <1>5, <3>1, <3>3, <4>1, <4>2, <4>4, ShiftSound
    <3>4. CASE m = n /\ f.method = "CloseOk" /\ slot' = [slot EXCEPT ![n] = None]
      <4>1. slot'[n] = None
        BY <3>4 DEF TypeInv, TypeOK, ChanTypeOK
      <4> QED
        BY <1>1, <1>2, <1>5, <3>1, <3>4, <4>1, CloseOkSound
    <3> QED
      BY <1>5, <3>2, <3>3, <3>4
  <2> QED
    BY <2>3, <2>4, <2>6 DEF WireInv
<1>6. CASE GotAnswer(n)
  BY <1>5, <1>6 DEF GotAnswer
<1>7. ASSUME SetClosed({ch}), ch # None, slot' = [slot EXCEPT ![n] = None], UNCHANGED answer,
             n \notin crossed' => Sound(n)',
             \A m \in Number : m # n => toServer'[m] = toServer[m]
      PROVE  AnswerInv'
  <2>1. promise' = Settled(UNION {Elems(rpcCallbacks[x]) : x \in NotYetClosed({ch})}, "rejected")
    BY <1>7 DEF SetClosed
  <2>2. \A c \in Call : /\ promise'[c] \in {"pending", "resolved"} =>
                              promise[c] \in {"pending", "resolved"}
                        /\ promise[c] # "none" => promise'[c] # "none"
                        /\ promise'[c] = "resolved" => promise[c] = "resolved"
    BY <2>1, SettledOwned
  <2>3. CallsOwned' /\ AnswerIsOwn'
    BY <1>1, <1>7, <2>2, OwnedStable, OwnStable
  <2>4. CloseIsLast'
    BY <1>1, <1>7, SetClosedLast
  <2>5. ASSUME NEW m \in Number \ crossed', m # n PROVE Sound(m)'
    <3>1. slot'[m] = slot[m]
      BY <1>7, <2>5 DEF TypeInv, TypeOK, ChanTypeOK
    <3>2. \A x \in Chan : x # ch => rpcCallbacks'[x] = rpcCallbacks[x]
      BY <1>7 DEF SetClosed, NotYetClosed
    <3> QED
      BY <1>1, <1>2, <1>3, <1>7, <2>2, <2>5, <3>1, <3>2, OthersSound
  <2> QED
    BY <1>7, <2>3, <2>4, <2>5 DEF WireInv
<1>8. CASE GotCloseOk(n)
  <2>1. /\ ch # None /\ f.method = "CloseOk" /\ slot' = [slot EXCEPT ![n] = None]
        /\ UNCHANGED <<toServer, crossed>>
    BY <1>8 DEF GotCloseOk
  <2>2. CASE closed[ch] /\ ResolveRPC(ch, f) /\ UNCHANGED closed
    BY <1>5, <2>1, <2>2
  <2>3. CASE ~closed[ch] /\ SetClosed({ch}) /\ UNCHANGED answer
    <3>1. n \in crossed
      <4>1. n \notin crossed => Sound(n)
        BY <1>3, <2>1
      <4>2. Sound(n) => closed[ch]
        BY <1>1, <1>2, <2>1, CloseOkSound
      <4> QED
        BY <2>3, <4>1, <4>2
    <3> QED
      BY <1>7, <2>1, <2>3, <3>1
  <2> QED
    BY <1>8, <2>2, <2>3 DEF GotCloseOk
<1>9. CASE ServerClosedChannel(n)
  <2>1. /\ ch # None /\ f.method = "Close" /\ SetClosed({ch}) /\ slot' = [slot EXCEPT ![n] = None]
        /\ toServer' = [toServer EXCEPT ![n] = Append(@, CloseOk(None))] /\ UNCHANGED answer
        /\ crossed' = IF \E c \in Elems(rpcCallbacks[ch]) : kind[c] = "close"
                      THEN crossed \cup {n} ELSE crossed
    BY <1>9 DEF ServerClosedChannel
  <2>2. /\ slot'[n] = None /\ toServer'[n] = Append(toServer[n], CloseOk(None))
        /\ \A m \in Number : m # n => toServer'[m] = toServer[m]
    BY <2>1 DEF TypeInv, TypeOK, ChanTypeOK, WireTypeOK
  <2>3. ASSUME n \notin crossed' PROVE Sound(n)'
    <3>1. Sound(n) /\ \A c \in Elems(rpcCallbacks[ch]) : kind[c] # "close"
      BY <1>3, <2>1, <2>3
    <3>2. promise' = Settled(UNION {Elems(rpcCallbacks[x]) : x \in NotYetClosed({ch})}, "rejected")
      BY <2>1 DEF SetClosed
    <3>3. \A c \in Call : promise[c] # "none" => promise'[c] # "none"
      BY <3>2, SettledOwned
    <3> QED
      BY <1>1, <1>2, <2>1, <2>2, <3>1, <3>3, CloseSound
  <2> QED
    BY <1>7, <2>1, <2>2, <2>3
<1> QED
  BY <1>4, <1>6, <1>8, <1>9

\* The end of the connection takes the socket away, and the wire with it.
LEMMA DropAnswers ==
    ASSUME Inv, ServerClosedConnection \/ ConnectionCloseOk \/ SocketClosed
    PROVE  AnswerInv'
<1> USE DEF Inv, AnswerInv
<1>1. sock' # "up" /\ UNCHANGED <<number, rpcQueue, owner, kind, answer, crossed>>
  BY DEF ServerClosedConnection, ConnectionCloseOk, SocketClosed, wireVars
<1>2. CASE UNCHANGED <<slot, closed, rpcCallbacks, promise>>
  <2>1. CallsOwned' /\ CloseIsLast' /\ AnswerIsOwn'
    BY <1>1, <1>2, OwnedStable, LastStable, OwnStable
  <2> QED
    BY <1>1, <2>1 DEF WireInv
<1>3. CASE DropChannels
  <2>1. PICK C : SetClosed(C)
    BY <1>3 DEF DropChannels
  <2>2. PICK D : promise' = Settled(D, "rejected")
    BY <2>1 DEF SetClosed
  <2>3. CallsOwned' /\ AnswerIsOwn'
    BY <1>1, <2>2, SettledOwned, OwnedStable, OwnStable
  <2>4. CloseIsLast'
    BY <1>1, <2>1, SetClosedLast
  <2> QED
    BY <1>1, <2>3, <2>4 DEF WireInv
<1> QED
  BY <1>2, <1>3 DEF ServerClosedConnection, ConnectionCloseOk, SocketClosed

\* The inductive invariant holds in every reachable state.
THEOREM AnswerInvariance == Spec => []AnswerInv
<1>1. Init => AnswerInv
  <2> SUFFICES ASSUME Init PROVE AnswerInv
    OBVIOUS
  <2>1. CloseIsLast /\ CallsOwned /\ AnswerIsOwn
    BY EmptyLen DEF Init, CloseIsLast, CallsOwned, AnswerIsOwn
  <2>2. ASSUME NEW n \in Number PROVE InStep(n)
    <3>1. /\ slot[n] = None /\ toClient[n] = <<>> /\ toServer[n] = <<>> /\ server[n] = "closed"
      BY DEF Init
    <3>2. Len(toClient[n]) = 0 /\ Len(toServer[n]) = 0 /\ Len(Callbacks(n)) = 0
      BY <3>1, EmptyLen DEF Callbacks
    <3> QED
      BY <3>1, <3>2 DEF InStep
  <2> QED
    BY <2>1, <2>2 DEF AnswerInv, WireInv, Sound
<1>2. TypeInv /\ HeldInv /\ TableInv /\ AnswerInv /\ [Next]_vars => AnswerInv'
  <2> SUFFICES ASSUME Inv, [Next]_vars PROVE AnswerInv'
    BY DEF Inv
  <2>1. CASE Client
    BY <2>1, ChainAnswers, FrameAnswers, DropAnswers DEF Client
  <2>2. CASE UNCHANGED vars
    <3>1. UNCHANGED <<sock, bye, slot, number, closed, rpcQueue, rpcCallbacks, owner, kind, promise,
                      answer, toClient, toServer, server, crossed>>
      BY <2>2 DEF vars, connVars, chanVars, rpcVars, callVars, wireVars
    <3>2. TypeInv /\ HeldInv /\ CallsOwned /\ CloseIsLast /\ AnswerIsOwn
      BY DEF Inv, AnswerInv
    <3>3. CallsOwned' /\ CloseIsLast' /\ AnswerIsOwn'
      BY <3>1, <3>2, OwnedStable, LastStable, OwnStable
    <3>4. WireInv'
      BY <3>1, WireStable DEF Live
    <3> QED
      BY <3>3, <3>4 DEF AnswerInv
  <2> QED
    BY <2>1, <2>2, ApplicationAnswers, EnvironmentAnswers DEF Next
<1> QED
  BY <1>1, <1>2, TypeInvariance, HeldInvariance, TableInvariance, PTL DEF Spec

\* resolveRPC matches answers to calls by their position, and for any number of calls,
\* channels and numbers the position is right on every number that no frame of a replaced
\* object crosses, whatever the server closes, drops or refuses in between.
THEOREM AnswersAreOwn == Spec => []AnswerIsOwn
<1>1. AnswerInv => AnswerIsOwn
  BY DEF AnswerInv
<1> QED
  BY <1>1, AnswerInvariance, PTL

----------------------------------------------------------------------------
(* A call that waits has something to come (NeverStuck).  On a number that the broker does
   not close there are as many answers and requests under way as callbacks that wait, at
   least; more, when an object that lost the number has sent one.  The broker's Close empties
   the callbacks when it is read, and the client's close-ok has, from then on, a request
   behind it for all that waits.  The exception is a Close that was skipped for want of an
   object, which no close-ok answers. *)

\* How the socket, the closing of the connection and the parser go together.
EndsInv ==
    /\ sock = "gone" => connClosed
    /\ bye \in {"asked", "CloseOk"} => connClosed
    /\ sock # "up" => ~parsing
    /\ parsing => \E n \in Number : toClient[n] # <<>>

\* A call has a method as long as somebody waits for it.
KindInv ==
    \A c \in Call : /\ promise[c] = "pending" => kind[c] # "none"
                    /\ kind[c] # "none" => promise[c] # "none"

\* What the broker is sent: close-oks, and requests of calls with a method
Asked(s, kinds) ==
    \A i \in DOMAIN s :
        \/ s[i].method = "CloseOk"
        \/ s[i].method = "Request" /\ s[i].call \in Call /\ kinds[s[i].call] # "none"

Lacks(s, method) == \A i \in DOMAIN s : s[i].method # method
OnlyAt(s, method, k) ==
    /\ k \in DOMAIN s /\ s[k].method = method
    /\ \A i \in DOMAIN s : s[i].method = method => i = k

\* The client is sent no request.
Traffic(n) == Lacks(toClient[n], "Request") /\ Asked(toServer[n], kind)
TrafficInv == \A n \in Number : Traffic(n)

\* The broker does not close the number: what waits has an answer or a request under way.
Enough(n) ==
    /\ server[n] # "closing" /\ Lacks(toClient[n], "Close") /\ Lacks(toServer[n], "CloseOk")
    /\ Live => Len(Callbacks(n)) <= Len(toClient[n]) + Len(toServer[n])
\* Its Close is under way.
Closing(n) ==
    /\ server[n] = "closing" /\ Lacks(toServer[n], "CloseOk")
    /\ \E k \in 1 .. Len(toClient[n]) : OnlyAt(toClient[n], "Close", k)
\* The client's close-ok is under way, with a request behind it for all that waits.
Answered(n) ==
    /\ server[n] = "closing" /\ Lacks(toClient[n], "Close")
    /\ \E k \in 1 .. Len(toServer[n]) :
          /\ OnlyAt(toServer[n], "CloseOk", k)
          /\ Len(Callbacks(n)) <= Len(toServer[n]) - k
Phase(n) == Enough(n) \/ Closing(n) \/ Answered(n) \/ CloseForgotten(n)
PhaseInv == sock = "up" => \A n \in Number : Phase(n)

DueInv == EndsInv /\ KindInv /\ TrafficInv /\ PhaseInv

----------------------------------------------------------------------------
(* A call that waits has something to come. *)

\* Nothing is in the empty sequence.
LEMMA EmptyElems == Elems(<<>>) = {}
  BY DEF Elems

\* The head of a sequence is its first element.
LEMMA FirstIn ==
    ASSUME NEW S, NEW s \in Seq(S), s # <<>>
    PROVE  1 \in DOMAIN s /\ Head(s) = s[1]
  OBVIOUS

\* With nothing due the connection is up and at rest.
LEMMA AtRest ==
    ASSUME TypeInv, DueInv, ~connClosed, ~SomethingIsDue
    PROVE  /\ sock = "up" /\ ~parsing /\ Drained /\ bye = "none"
           /\ \A ch \in Chan : sending[ch] = None
           /\ \A n \in Number : toClient[n] = <<>>
<1> USE DEF TypeInv, TypeOK, ConnTypeOK, DueInv, EndsInv
<1>1. sock \in {"up", "broken"} /\ bye \in {"none", "Close"}
  OBVIOUS
<1>2. ASSUME NEW n \in Number, toClient[n] # <<>>, sock = "up", parsing \/ Drained
      PROVE  FALSE
  <2>1. Head(toClient[n]).method # "Request"
    BY <1>2, FirstIn DEF WireTypeOK, TrafficInv, Traffic, Lacks
  <2> QED
    BY <1>2, <2>1 DEF SomethingIsDue, FrameIsDue
<1>3. ~parsing
  BY <1>1, <1>2
<1>4. Drained
  BY <1>3 DEF SomethingIsDue, ChainIsDue
<1>5. sock = "up" /\ \A ch \in Chan : sending[ch] = None
  BY <1>1, <1>3, <1>4 DEF SomethingIsDue, EventIsDue, NextEvent
<1>6. bye = "none"
  BY <1>1, <1>4, <1>5 DEF SomethingIsDue, FrameIsDue
<1> QED
  BY <1>2, <1>3, <1>4, <1>5, <1>6

\* The call's number has no answer and no request under way, so nothing waits on it, unless
\* the broker keeps closing it; and then a frame of a replaced object crossed it.
LEMMA DueImpliesNeverStuck ==
    ASSUME Inv, DueInv
    PROVE  NeverStuck
<1> USE DEF Inv
<1> SUFFICES ASSUME NEW c \in Call, promise[c] = "pending",
                    slot[number[owner[c]]] = owner[c], ~connClosed, ~SomethingIsDue
             PROVE  number[owner[c]] \in crossed /\ CloseForgotten(number[owner[c]])
  BY DEF NeverStuck
<1> DEFINE ch == owner[c]
           n == number[owner[c]]
<1>1. ch \in Chan /\ n \in Number
  BY DEF AnswerInv, CallsOwned
<1>2. /\ sock = "up" /\ Drained /\ bye = "none" /\ sending[ch] = None
      /\ toClient[n] = <<>>
  BY <1>1, AtRest
<1>3. toServer[n] \in Seq(Frame) /\ rpcCallbacks[ch] \in Seq(Call) /\ ch # None
  BY <1>1, NoneAssumption DEF TypeInv, TypeOK, WireTypeOK, RpcTypeOK
<1>4. rpcQueue[ch] = <<>>
  BY <1>1, <1>2 DEF Drained
<1>5. Callbacks(n) = rpcCallbacks[ch]
  BY <1>3 DEF Callbacks
<1>6. c \in Elems(rpcCallbacks[ch])
  BY <1>1, <1>4, EmptyElems DEF HeldInv, PendingIsHeld, Outstanding
<1>7. Len(Callbacks(n)) # 0 /\ Len(Callbacks(n)) \in Nat
  BY <1>3, <1>5, <1>6, EmptyElems, EmptyAt
<1>8. toServer[n] # <<>> => server[n] # "closing" /\ Head(toServer[n]).method = "CloseOk"
  BY <1>1, <1>2, <1>3, FirstIn DEF SomethingIsDue, AnswerIsDue, DueInv, TrafficInv, Traffic, Asked
<1>9. ~Enough(n)
  <2> SUFFICES ASSUME Enough(n) PROVE FALSE
    OBVIOUS
  <2>1. toServer[n] = <<>>
    BY <1>3, <1>8, FirstIn DEF Enough, Lacks
  <2> QED
    BY <2>1, <1>2, <1>7, EmptyLen DEF Enough, Live
<1>10. ~Closing(n)
  BY <1>2, EmptyLen DEF Closing
<1>11. ~Answered(n)
  <2> SUFFICES ASSUME Answered(n) PROVE FALSE
    OBVIOUS
  <2>1. toServer[n] = <<>>
    BY <1>8 DEF Answered
  <2> QED
    BY <2>1, EmptyLen DEF Answered
<1>12. CloseForgotten(n)
  BY <1>1, <1>2, <1>9, <1>10, <1>11 DEF DueInv, PhaseInv, Phase
<1>13. ~Sound(n)
  <2>1. ~InStep(n)
    BY <1>12 DEF CloseForgotten, InStep
  <2>2. ~ToldToClose(n)
    BY <1>2, EmptyLen DEF ToldToClose
  <2>3. ~Draining(n)
    <3> SUFFICES ASSUME NEW k \in 1 .. Len(toServer[n]), toServer[n][k] = CloseOk(None) PROVE FALSE
      BY DEF Draining
    <3>1. k \in DOMAIN toServer[n] /\ toServer[n][k].method = "CloseOk"
      BY <1>3 DEF CloseOk
    <3> QED
      BY <3>1, <1>12 DEF CloseForgotten
  <2> QED
    BY <2>1, <2>2, <2>3 DEF Sound
<1> QED
  BY <1>1, <1>2, <1>12, <1>13 DEF AnswerInv, WireInv

----------------------------------------------------------------------------
(* The socket, the connection's end and the parser *)

\* What was added to is not empty.
LEMMA AppendNotEmpty ==
    ASSUME NEW S, NEW s \in Seq(S), NEW e \in S
    PROVE  Append(s, e) # <<>>
<1>1. Len(Append(s, e)) = Len(s) + 1 /\ Len(s) \in Nat
  OBVIOUS
<1> QED
  BY <1>1, EmptyLen

\* The broker's frames only add to what the client may read.
LEMMA ReplyLeavesFrames ==
    ASSUME TypeInv, NEW n \in Number, NEW f \in Frame,
           toClient' = [toClient EXCEPT ![n] = Append(@, f)]
    PROVE  \A m \in Number : toClient[m] # <<>> => toClient'[m] # <<>>
<1>1. toClient \in [Number -> Seq(Frame)]
  BY DEF TypeInv, TypeOK, WireTypeOK
<1>2. toClient'[n] # <<>>
  BY <1>1, AppendNotEmpty
<1> QED
  BY <1>1, <1>2

\* A call that is taken for an answer is a call.
LEMMA ServedCall ==
    ASSUME TypeInv, NEW n \in Number, toServer[n] # <<>>
    PROVE  Head(toServer[n]) \in Frame /\ Head(toServer[n]).call \in Call \cup {None}
<1>1. Head(toServer[n]) \in Frame
  BY DEF TypeInv, TypeOK, WireTypeOK
<1> QED
  BY <1>1 DEF Frame

\* The answers of the broker and the close-ok are frames of their methods.
LEMMA AnswerFrames ==
    ASSUME NEW c \in Call \cup {None}
    PROVE  /\ Ok(c) \in Frame /\ CloseOk(c) \in Frame /\ CloseMethod \in Frame
           /\ Ok(c).method = "Ok" /\ CloseOk(c).method = "CloseOk"
           /\ CloseMethod.method = "Close"
  BY DEF Frame, Ok, CloseOk, CloseMethod

\* Every step keeps the socket, the flag of the connection and the parser together.
LEMMA EndsStep ==
    ASSUME TypeInv, EndsInv, [Next]_vars
    PROVE  EndsInv'
<1> USE DEF TypeInv, TypeOK, ConnTypeOK, EndsInv
<1>1. ASSUME UNCHANGED <<connClosed, bye, sock, parsing>>,
             \A m \in Number : toClient[m] # <<>> => toClient'[m] # <<>>
      PROVE  EndsInv'
  BY <1>1
<1>2. ASSUME UNCHANGED <<connClosed, bye, sock, parsing, toClient>> PROVE EndsInv'
  BY <1>2
<1>3. ASSUME NEW n \in Number, Read(n) PROVE EndsInv'
  <2>1. /\ UNCHANGED <<connClosed, bye, sock>> /\ sock = "up"
        /\ parsing' \in {FALSE, \E m \in Number : toClient'[m] # <<>>}
    BY <1>3 DEF Read
  <2>2. parsing' => \E m \in Number : toClient'[m] # <<>>
    BY <2>1
  <2> QED
    BY <2>1, <2>2
<1>4. ASSUME NEW n \in Number, Serve(n) \/ ServeClosing(n) PROVE EndsInv'
  <2>1. toServer[n] # <<>> /\ UNCHANGED <<connClosed, bye, sock, parsing>>
    BY <1>4 DEF Serve, ServeClosing, Take
  <2>2. Head(toServer[n]).call \in Call \cup {None}
    BY <2>1, ServedCall
  <2>3. \A m \in Number : toClient[m] # <<>> => toClient'[m] # <<>>
    <3>1. CASE UNCHANGED toClient
      BY <3>1
    <3>2. CASE toClient' = [toClient EXCEPT ![n] = Append(@, Ok(Head(toServer[n]).call))]
      BY <3>2, <2>2, AnswerFrames, ReplyLeavesFrames
    <3>3. CASE toClient' = [toClient EXCEPT ![n] = Append(@, CloseOk(Head(toServer[n]).call))]
      BY <3>3, <2>2, AnswerFrames, ReplyLeavesFrames
    <3> QED
      BY <1>4, <3>1, <3>2, <3>3 DEF Serve, ServeClosing, Reply
  <2> QED
    BY <2>1, <2>3, <1>1
<1>5. ASSUME NEW n \in Number, ServerCloses(n) PROVE EndsInv'
  <2>1. UNCHANGED <<connClosed, bye, sock, parsing>>
    BY <1>5 DEF ServerCloses, connVars
  <2>2. \A m \in Number : toClient[m] # <<>> => toClient'[m] # <<>>
    BY <1>5, AnswerFrames, ReplyLeavesFrames DEF ServerCloses
  <2> QED
    BY <2>1, <2>2, <1>1
<1>6. ASSUME NEW n \in Number, ServeError(n) PROVE EndsInv'
  BY <1>6 DEF ServeError, Take
<1>7. ASSUME NEW ch \in Chan, Step(ch) \/ StepRejected(ch) \/ Written(ch) \/ WriteFailed(ch)
      PROVE  EndsInv'
  <2>1. UNCHANGED <<connClosed, bye, sock, parsing, toClient>>
    BY <1>7 DEF Step, StepRejected, Written, WriteFailed, connVars, wireVars
  <2> QED
    BY <2>1, <1>2
<1>8. CASE Application
  <2>1. ASSUME NEW c \in Call, NEW ch \in Chan,
               (\E n \in Number : OpenChannel(c, ch, n)) \/ Rpc(c, ch) \/ Close(c, ch)
        PROVE  EndsInv'
    <3>1. UNCHANGED <<connClosed, bye, sock, parsing, toClient>>
      BY <2>1 DEF OpenChannel, Rpc, Close, SendRpc, RejectClosed, connVars, wireVars
    <3> QED
      BY <3>1, <1>2
  <2>2. CASE CloseConnection
    BY <2>2 DEF CloseConnection, wireVars
  <2> QED
    BY <1>8, <2>1, <2>2 DEF Application
<1>9. CASE ServerClosedConnection \/ ConnectionCloseOk
  BY <1>9 DEF ServerClosedConnection, ConnectionCloseOk
<1>10. CASE SocketClosed
  BY <1>10 DEF SocketClosed, NextEvent
<1>11. CASE ServerSaysBye
  <2>1. UNCHANGED <<connClosed, sock, parsing, toClient>>
    BY <1>11 DEF ServerSaysBye, wireVars
  <2>2. bye' \in {"asked", "CloseOk"} => bye = "asked"
    BY <1>11 DEF ServerSaysBye
  <2> QED
    BY <2>1, <2>2
<1>12. CASE SocketBreaks
  BY <1>12 DEF SocketBreaks
<1>13. CASE UNCHANGED vars
  BY <1>13, <1>2 DEF vars, connVars, wireVars
<1>14. CASE Client
  <2>1. ASSUME NEW n \in Number,
               SkipFrame(n) \/ GotAnswer(n) \/ GotCloseOk(n) \/ ServerClosedChannel(n)
        PROVE  EndsInv'
    BY <2>1, <1>3 DEF SkipFrame, GotAnswer, GotCloseOk, ServerClosedChannel
  <2> QED
    BY <1>14, <2>1, <1>7, <1>9, <1>10 DEF Client
<1>15. CASE Environment
  BY <1>15, <1>4, <1>5, <1>6, <1>11, <1>12 DEF Environment
<1> QED
  BY <1>8, <1>13, <1>14, <1>15 DEF Next

----------------------------------------------------------------------------
(* The methods of the calls *)

\* The methods known stay known.
KindsStay == \A c \in Call : kind[c] # "none" => kind'[c] # "none"

\* Nobody begins to wait, and who waits no more was told.
LEMMA KindStable ==
    ASSUME KindInv, UNCHANGED kind,
           \A c \in Call : /\ promise'[c] = "pending" => promise[c] = "pending"
                           /\ promise[c] # "none" => promise'[c] # "none"
    PROVE  KindInv' /\ KindsStay
  BY DEF KindInv, KindsStay

\* Settling promises (resolveRPC, setClosed, a failed write) leaves the methods known.
LEMMA SettledKind ==
    ASSUME TypeInv, KindInv, UNCHANGED kind, NEW C, NEW outcome \in {"resolved", "rejected"},
           promise' = Settled(C, outcome)
    PROVE  KindInv' /\ KindsStay
<1>1. \A c \in Call : /\ promise'[c] = "pending" => promise[c] = "pending"
                      /\ promise[c] # "none" => promise'[c] # "none"
  BY DEF Settled
<1> QED
  BY <1>1, KindStable

\* A call that begins to wait has its method.
LEMMA SendRpcKind ==
    ASSUME TypeInv, KindInv, NEW c \in Call, NEW ch \in Chan, NEW k \in {"open", "rpc", "close"},
           SendRpc(c, ch, k)
    PROVE  KindInv' /\ KindsStay
<1>1. /\ kind' = [kind EXCEPT ![c] = k] /\ promise' = [promise EXCEPT ![c] = "pending"]
      /\ kind \in [Call -> {"none", "open", "rpc", "close"}]
      /\ promise \in [Call -> {"none", "pending", "resolved", "rejected"}]
  BY DEF SendRpc, TypeInv, TypeOK, CallTypeOK
<1>2. kind'[c] # "none" /\ promise'[c] = "pending"
  BY <1>1
<1>3. \A d \in Call : d # c => kind'[d] = kind[d] /\ promise'[d] = promise[d]
  BY <1>1
<1> QED
  BY <1>2, <1>3 DEF KindInv, KindsStay

\* A call that is rejected at once needs none.
LEMMA RejectClosedKind ==
    ASSUME TypeInv, KindInv, NEW c \in Call, RejectClosed(c)
    PROVE  KindInv' /\ KindsStay
<1>1. /\ promise' = [promise EXCEPT ![c] = "rejected"] /\ UNCHANGED kind
      /\ promise \in [Call -> {"none", "pending", "resolved", "rejected"}]
  BY DEF RejectClosed, TypeInv, TypeOK, CallTypeOK
<1>2. \A d \in Call : /\ promise'[d] = "pending" => promise[d] = "pending"
                      /\ promise[d] # "none" => promise'[d] # "none"
  BY <1>1
<1> QED
  BY <1>1, <1>2, KindStable

\* Every step leaves a waiting call its method.
LEMMA KindStep ==
    ASSUME TypeInv, KindInv, [Next]_vars
    PROVE  KindInv' /\ KindsStay
<1>1. ASSUME UNCHANGED <<kind, promise>> PROVE KindInv' /\ KindsStay
  BY <1>1, KindStable
<1>2. CASE Application
  <2>1. ASSUME NEW c \in Call, NEW ch \in Chan,
               (\E n \in Number : OpenChannel(c, ch, n)) \/ Rpc(c, ch) \/ Close(c, ch)
        PROVE  KindInv' /\ KindsStay
    BY <2>1, SendRpcKind, RejectClosedKind DEF OpenChannel, Rpc, Close
  <2>2. CASE CloseConnection
    BY <2>2, <1>1 DEF CloseConnection, callVars
  <2> QED
    BY <1>2, <2>1, <2>2 DEF Application
<1>3. CASE Environment
  <2>1. UNCHANGED <<kind, promise>>
    BY <1>3 DEF Environment, Serve, ServeClosing, ServeError, ServerCloses, ServerSaysBye,
                SocketBreaks, Take, callVars
  <2> QED
    BY <2>1, <1>1
<1>4. ASSUME NEW ch \in Chan, Step(ch) \/ Written(ch) PROVE KindInv' /\ KindsStay
  BY <1>4, <1>1 DEF Step, Written, callVars
<1>5. ASSUME NEW ch \in Chan, StepRejected(ch) \/ WriteFailed(ch) PROVE KindInv' /\ KindsStay
  BY <1>5, SettledKind DEF StepRejected, WriteFailed
<1>6. ASSUME NEW C, SetClosed(C), UNCHANGED kind PROVE KindInv' /\ KindsStay
  BY <1>6, SettledKind DEF SetClosed
<1>7. ASSUME NEW ch \in Chan, NEW f, ResolveRPC(ch, f), UNCHANGED kind PROVE KindInv' /\ KindsStay
  BY <1>7, <1>1, SettledKind DEF ResolveRPC
<1>8. ASSUME NEW n \in Number,
             SkipFrame(n) \/ GotAnswer(n) \/ GotCloseOk(n) \/ ServerClosedChannel(n)
      PROVE  KindInv' /\ KindsStay
  <2>1. UNCHANGED kind /\ (slot[n] # None => slot[n] \in Chan)
    BY <1>8, WireTypes DEF SkipFrame, GotAnswer, GotCloseOk, ServerClosedChannel, Read
  <2>2. CASE SkipFrame(n)
    BY <2>1, <2>2, <1>1 DEF SkipFrame
  <2>3. CASE GotAnswer(n)
    BY <2>1, <2>3, <1>7 DEF GotAnswer
  <2>4. CASE GotCloseOk(n)
    BY <2>1, <2>4, <1>6, <1>7 DEF GotCloseOk
  <2>5. CASE ServerClosedChannel(n)
    BY <2>1, <2>5, <1>6 DEF ServerClosedChannel
  <2> QED
    BY <1>8, <2>2, <2>3, <2>4, <2>5
<1>9. CASE ServerClosedConnection \/ ConnectionCloseOk \/ SocketClosed
  <2>1. UNCHANGED kind
    BY <1>9 DEF ServerClosedConnection, ConnectionCloseOk, SocketClosed
  <2>2. DropChannels \/ UNCHANGED promise
    BY <1>9 DEF ServerClosedConnection, ConnectionCloseOk, SocketClosed
  <2> QED
    BY <2>1, <2>2, <1>1, <1>6 DEF DropChannels
<1>10. CASE UNCHANGED vars
  BY <1>10, <1>1 DEF vars, callVars
<1> QED
  BY <1>2, <1>3, <1>4, <1>5, <1>8, <1>9, <1>10 DEF Next, Client

----------------------------------------------------------------------------
(* Frames of one method in a queue of the wire *)

\* Adding a frame of another method, the queue still lacks this one.
LEMMA AppendLacks ==
    ASSUME NEW s \in Seq(Frame), NEW f \in Frame, NEW m, Lacks(s, m), f.method # m
    PROVE  Lacks(Append(s, f), m)
<1> DEFINE t == Append(s, f)
<1>1. /\ t \in Seq(Frame) /\ Len(t) = Len(s) + 1 /\ Len(s) \in Nat
      /\ \A i \in 1 .. Len(s) : t[i] = s[i]
      /\ t[Len(s) + 1] = f
  BY AppendAt
<1> HIDE DEF t
<1>2. ASSUME NEW i \in DOMAIN t PROVE t[i].method # m
  <2>1. i \in 1 .. Len(s) \/ i = Len(s) + 1
    BY <1>1
  <2> QED
    BY <1>1, <2>1 DEF Lacks
<1>3. Lacks(t, m)
  BY <1>2 DEF Lacks
<1> QED
  BY <1>3 DEF t

\* So it does when a frame is taken.
LEMMA TailLacks ==
    ASSUME NEW s \in Seq(Frame), s # <<>>, NEW m, Lacks(s, m)
    PROVE  Lacks(Tail(s), m)
<1> DEFINE t == Tail(s)
<1>1. /\ t \in Seq(Frame) /\ Len(t) = Len(s) - 1 /\ Len(s) \in Nat \ {0}
      /\ \A i \in 1 .. Len(t) : t[i] = s[i + 1]
  BY TailAt
<1> HIDE DEF t
<1>2. ASSUME NEW i \in DOMAIN t PROVE t[i].method # m
  <2>1. i \in 1 .. Len(t) /\ i + 1 \in DOMAIN s
    BY <1>1
  <2> QED
    BY <1>1, <2>1 DEF Lacks
<1>3. Lacks(t, m)
  BY <1>2 DEF Lacks
<1> QED
  BY <1>3 DEF t

\* The first frame of a method is put at the end.
LEMMA AppendFirst ==
    ASSUME NEW s \in Seq(Frame), NEW f \in Frame, Lacks(s, f.method)
    PROVE  /\ OnlyAt(Append(s, f), f.method, Len(s) + 1)
           /\ Len(Append(s, f)) = Len(s) + 1 /\ Len(s) \in Nat
<1> DEFINE t == Append(s, f)
<1>1. /\ t \in Seq(Frame) /\ Len(t) = Len(s) + 1 /\ Len(s) \in Nat
      /\ \A i \in 1 .. Len(s) : t[i] = s[i]
      /\ t[Len(s) + 1] = f
  BY AppendAt
<1> HIDE DEF t
<1>2. ASSUME NEW i \in DOMAIN t, i # Len(s) + 1 PROVE t[i].method # f.method
  <2>1. i \in 1 .. Len(s)
    BY <1>1, <1>2
  <2> QED
    BY <1>1, <2>1 DEF Lacks
<1>3. OnlyAt(t, f.method, Len(s) + 1)
  <2>1. Len(s) + 1 \in DOMAIN t
    BY <1>1
  <2> QED
    BY <1>1, <1>2, <2>1 DEF OnlyAt
<1> QED
  BY <1>1, <1>3 DEF t

\* Other frames put behind it leave it in its place.
LEMMA AppendOnly ==
    ASSUME NEW s \in Seq(Frame), NEW f \in Frame, NEW m, NEW k, OnlyAt(s, m, k), f.method # m
    PROVE  OnlyAt(Append(s, f), m, k)
<1> DEFINE t == Append(s, f)
<1>1. /\ t \in Seq(Frame) /\ Len(t) = Len(s) + 1 /\ Len(s) \in Nat
      /\ \A i \in 1 .. Len(s) : t[i] = s[i]
      /\ t[Len(s) + 1] = f
  BY AppendAt
<1> HIDE DEF t
<1>2. k \in 1 .. Len(s) /\ k \in DOMAIN t /\ t[k].method = m
  BY <1>1 DEF OnlyAt
<1>3. ASSUME NEW i \in DOMAIN t, t[i].method = m PROVE i = k
  <2>1. i \in 1 .. Len(s)
    <3>1. i \in 1 .. Len(s) \/ i = Len(s) + 1
      BY <1>1
    <3> QED
      BY <3>1, <1>1, <1>3
  <2> QED
    BY <1>1, <1>3, <2>1 DEF OnlyAt
<1>4. OnlyAt(t, m, k)
  BY <1>2, <1>3 DEF OnlyAt
<1> QED
  BY <1>4 DEF t

\* A frame taken from the front moves it up, or was the one.
LEMMA TailOnly ==
    ASSUME NEW s \in Seq(Frame), NEW m, NEW k, OnlyAt(s, m, k)
    PROVE  /\ k \in 1 .. Len(s) /\ Len(Tail(s)) = Len(s) - 1 /\ Len(s) \in Nat \ {0}
           /\ Head(s).method = m => k = 1 /\ Lacks(Tail(s), m)
           /\ Head(s).method # m => k - 1 \in 1 .. Len(Tail(s)) /\ OnlyAt(Tail(s), m, k - 1)
<1> DEFINE t == Tail(s)
<1>1. k \in 1 .. Len(s) /\ s # <<>>
  BY EmptyLen DEF OnlyAt
<1>2. /\ t \in Seq(Frame) /\ Len(t) = Len(s) - 1 /\ Len(s) \in Nat \ {0}
      /\ \A i \in 1 .. Len(t) : t[i] = s[i + 1]
      /\ Head(s) = s[1]
  BY <1>1, TailAt
<1> HIDE DEF t
<1>3. 1 \in DOMAIN s /\ DOMAIN s = 1 .. Len(s) /\ DOMAIN t = 1 .. Len(t)
  BY <1>2
<1>4. ASSUME Head(s).method = m PROVE k = 1 /\ Lacks(t, m)
  <2>1. k = 1
    BY <1>2, <1>3, <1>4 DEF OnlyAt
  <2>2. ASSUME NEW i \in DOMAIN t PROVE t[i].method # m
    <3>1. i + 1 \in DOMAIN s /\ i + 1 # 1 /\ t[i] = s[i + 1]
      BY <1>2, <1>3
    <3> QED
      BY <3>1, <2>1 DEF OnlyAt
  <2> QED
    BY <2>1, <2>2 DEF Lacks
<1>5. ASSUME Head(s).method # m PROVE k - 1 \in 1 .. Len(t) /\ OnlyAt(t, m, k - 1)
  <2>1. k # 1
    BY <1>2, <1>5 DEF OnlyAt
  <2>2. k - 1 \in 1 .. Len(t) /\ (k - 1) + 1 = k
    BY <1>1, <1>2, <2>1
  <2>3. t[k - 1].method = m
    BY <1>2, <2>2 DEF OnlyAt
  <2>4. ASSUME NEW i \in DOMAIN t, t[i].method = m PROVE i = k - 1
    <3>1. i \in 1 .. Len(t) /\ i + 1 \in DOMAIN s /\ t[i] = s[i + 1]
      BY <1>2, <1>3
    <3>2. i + 1 = k
      BY <3>1, <2>4 DEF OnlyAt
    <3> QED
      BY <3>1, <3>2, <1>2
  <2> QED
    BY <1>3, <2>2, <2>3, <2>4 DEF OnlyAt
<1> QED
  BY <1>1, <1>2, <1>4, <1>5 DEF t

----------------------------------------------------------------------------
(* What is on the wire *)

\* A queue of requests with methods stays one as long as the methods stay known.
LEMMA AskedStays ==
    ASSUME NEW s \in Seq(Frame), NEW K, NEW L, Asked(s, K),
           \A c \in Call : K[c] # "none" => L[c] # "none"
    PROVE  Asked(s, L)
  BY DEF Asked

\* A frame is taken by the broker.
LEMMA TailAsked ==
    ASSUME NEW s \in Seq(Frame), s # <<>>, NEW K, Asked(s, K)
    PROVE  Asked(Tail(s), K)
<1> DEFINE t == Tail(s)
<1>1. /\ t \in Seq(Frame) /\ Len(t) = Len(s) - 1 /\ Len(s) \in Nat \ {0}
      /\ \A i \in 1 .. Len(t) : t[i] = s[i + 1]
  BY TailAt
<1> HIDE DEF t
<1>2. ASSUME NEW i \in DOMAIN t PROVE i + 1 \in DOMAIN s /\ t[i] = s[i + 1]
  BY <1>1
<1>3. Asked(t, K)
  BY <1>2 DEF Asked
<1> QED
  BY <1>3 DEF t

\* A close-ok, or a request with a method, is sent.
LEMMA AppendAsked ==
    ASSUME NEW s \in Seq(Frame), NEW f \in Frame, NEW K, Asked(s, K),
           f.method = "CloseOk" \/ (f.method = "Request" /\ f.call \in Call /\ K[f.call] # "none")
    PROVE  Asked(Append(s, f), K)
<1> DEFINE t == Append(s, f)
<1>1. /\ t \in Seq(Frame) /\ Len(t) = Len(s) + 1 /\ Len(s) \in Nat
      /\ \A i \in 1 .. Len(s) : t[i] = s[i]
      /\ t[Len(s) + 1] = f
  BY AppendAt
<1> HIDE DEF t
<1>2. ASSUME NEW i \in DOMAIN t PROVE (i \in DOMAIN s /\ t[i] = s[i]) \/ t[i] = f
  BY <1>1
<1>3. Asked(t, K)
  BY <1>2 DEF Asked
<1> QED
  BY <1>3 DEF t

\* How a step may change what is under way to the client, and to the broker
Reads(s, t) ==
    \/ t = s \/ t = <<>> \/ (s # <<>> /\ t = Tail(s))
    \/ \E f \in Frame : f.method # "Request" /\ t = Append(s, f)
Writes(s, t, kinds) ==
    \/ t = s \/ t = <<>> \/ (s # <<>> /\ t = Tail(s))
    \/ \E f \in Frame :
          /\ f.method = "CloseOk" \/ (f.method = "Request" /\ f.call \in Call /\ kinds[f.call] # "none")
          /\ t = Append(s, f)

\* An empty queue has no frame of any method.
LEMMA EmptyTraffic ==
    ASSUME NEW m, NEW K
    PROVE  Lacks(<<>>, m) /\ Asked(<<>>, K)
  BY DEF Lacks, Asked

\* Such a change leaves the traffic of a number what it should be.
LEMMA TrafficMoves ==
    ASSUME TypeInv, NEW n \in Number, Traffic(n), KindsStay,
           Reads(toClient[n], toClient'[n]), Writes(toServer[n], toServer'[n], kind)
    PROVE  Traffic(n)'
<1>1. toClient[n] \in Seq(Frame) /\ toServer[n] \in Seq(Frame)
  BY WireTypes
<1>2. Lacks(toClient'[n], "Request")
  <2>1. Lacks(toClient[n], "Request")
    BY DEF Traffic
  <2>2. CASE toClient'[n] = <<>>
    BY <2>2, EmptyTraffic
  <2>3. CASE toClient[n] # <<>> /\ toClient'[n] = Tail(toClient[n])
    BY <1>1, <2>1, <2>3, TailLacks
  <2>4. ASSUME NEW f \in Frame, toClient'[n] = Append(toClient[n], f), f.method # "Request"
        PROVE  Lacks(toClient'[n], "Request")
    BY <1>1, <2>1, <2>4, AppendLacks
  <2> QED
    BY <2>1, <2>2, <2>3, <2>4 DEF Reads
<1>3. Asked(toServer'[n], kind) /\ toServer'[n] \in Seq(Frame)
  <2>1. CASE toServer'[n] = <<>>
    BY <2>1, EmptyTraffic
  <2>2. CASE toServer[n] # <<>> /\ toServer'[n] = Tail(toServer[n])
    BY <1>1, <2>2, TailAsked DEF Traffic
  <2>3. CASE toServer'[n] = toServer[n]
    BY <1>1, <2>3 DEF Traffic
  <2>4. ASSUME NEW f \in Frame, toServer'[n] = Append(toServer[n], f),
               f.method = "CloseOk" \/ (f.method = "Request" /\ f.call \in Call /\ kind[f.call] # "none")
        PROVE  Asked(toServer'[n], kind) /\ toServer'[n] \in Seq(Frame)
    <3>1. Append(toServer[n], f) \in Seq(Frame)
      BY <1>1
    <3> QED
      BY <1>1, <2>4, <3>1, AppendAsked DEF Traffic
  <2> QED
    BY <2>1, <2>2, <2>3, <2>4 DEF Writes
<1>4. Asked(toServer'[n], kind')
  BY <1>3, AskedStays DEF KindsStay
<1> QED
  BY <1>2, <1>4 DEF Traffic

\* A request that is put on the wire is that of a waiting call.
LEMMA SentRequest ==
    ASSUME TypeInv, HeldInv, KindInv, NEW ch \in Chan, rpcQueue[ch] # <<>>
    PROVE  /\ Head(rpcQueue[ch]) \in Call /\ kind[Head(rpcQueue[ch])] # "none"
           /\ Request(Head(rpcQueue[ch])) \in Frame
           /\ Request(Head(rpcQueue[ch])).method = "Request"
           /\ Request(Head(rpcQueue[ch])).call = Head(rpcQueue[ch])
<1>1. rpcQueue[ch] \in Seq(Call)
  BY DEF TypeInv, TypeOK, RpcTypeOK
<1>2. Head(rpcQueue[ch]) \in Call /\ Head(rpcQueue[ch]) \in Elems(rpcQueue[ch])
  BY <1>1, FirstIn DEF Elems
<1>3. promise[Head(rpcQueue[ch])] = "pending"
  BY <1>2 DEF HeldInv, PendingIsHeld, Outstanding
<1> QED
  BY <1>2, <1>3, FrameTypes DEF KindInv, Request

\* Every step changes the wire of a number so.
LEMMA WireMoves ==
    ASSUME Inv, KindInv, [Next]_vars, NEW m \in Number
    PROVE  Reads(toClient[m], toClient'[m]) /\ Writes(toServer[m], toServer'[m], kind)
<1> USE DEF Inv
<1>0. /\ toClient \in [Number -> Seq(Frame)] /\ toServer \in [Number -> Seq(Frame)]
      /\ CloseOk(None) \in Frame /\ CloseOk(None).method = "CloseOk"
      /\ CloseMethod \in Frame /\ CloseMethod.method = "Close"
  BY AnswerFrames DEF TypeInv, TypeOK, WireTypeOK
<1>1. ASSUME UNCHANGED toServer PROVE Writes(toServer[m], toServer'[m], kind)
  BY <1>1 DEF Writes
<1>2. ASSUME UNCHANGED toClient PROVE Reads(toClient[m], toClient'[m])
  BY <1>2 DEF Reads
<1>3. ASSUME NEW n \in Number, Read(n) PROVE Reads(toClient[m], toClient'[m])
  BY <1>0, <1>3 DEF Read, Reads
<1>4. ASSUME NEW n \in Number, NEW method, Take(n, method)
      PROVE  Writes(toServer[m], toServer'[m], kind)
  BY <1>0, <1>4 DEF Take, Writes
<1>5. ASSUME NEW n \in Number, NEW f \in Frame, f.method # "Request",
             toClient' = [toClient EXCEPT ![n] = Append(@, f)]
      PROVE  Reads(toClient[m], toClient'[m])
  BY <1>0, <1>5 DEF Reads
<1>6. ASSUME NEW n \in Number, SkipFrame(n) \/ GotAnswer(n) \/ GotCloseOk(n)
      PROVE  Reads(toClient[m], toClient'[m]) /\ Writes(toServer[m], toServer'[m], kind)
  BY <1>6, <1>3, <1>1 DEF SkipFrame, GotAnswer, GotCloseOk
<1>7. ASSUME NEW n \in Number, ServerClosedChannel(n)
      PROVE  Reads(toClient[m], toClient'[m]) /\ Writes(toServer[m], toServer'[m], kind)
  <2>1. Read(n) /\ toServer' = [toServer EXCEPT ![n] = Append(@, CloseOk(None))]
    BY <1>7 DEF ServerClosedChannel
  <2>2. Writes(toServer[m], toServer'[m], kind)
    BY <1>0, <2>1 DEF Writes
  <2> QED
    BY <1>3, <2>1, <2>2
<1>8. ASSUME NEW ch \in Chan, Step(ch)
      PROVE  Reads(toClient[m], toClient'[m]) /\ Writes(toServer[m], toServer'[m], kind)
  <2> DEFINE c == Head(rpcQueue[ch])
  <2>1. rpcQueue[ch] # <<>> /\ UNCHANGED toClient
    BY <1>8 DEF Step
  <2>2. c \in Call /\ kind[c] # "none" /\ Request(c) \in Frame
        /\ Request(c).method = "Request" /\ Request(c).call = c
    BY <2>1, SentRequest
  <2>3. \/ UNCHANGED toServer
        \/ toServer' = [toServer EXCEPT ![number[ch]] = Append(@, Request(c))]
    BY <1>8 DEF Step
  <2> HIDE DEF c
  <2>4. toServer'[m] = toServer[m] \/ toServer'[m] = Append(toServer[m], Request(c))
    BY <1>0, <2>3
  <2>5. Writes(toServer[m], toServer'[m], kind)
    BY <2>2, <2>4 DEF Writes
  <2> QED
    BY <1>2, <2>1, <2>5
<1>9. ASSUME NEW ch \in Chan, StepRejected(ch) \/ Written(ch) \/ WriteFailed(ch)
      PROVE  UNCHANGED <<toClient, toServer>>
  BY <1>9 DEF StepRejected, Written, WriteFailed, wireVars
<1>10. ASSUME ServerClosedConnection \/ ConnectionCloseOk \/ SocketBreaks
       PROVE  Reads(toClient[m], toClient'[m]) /\ Writes(toServer[m], toServer'[m], kind)
  BY <1>10 DEF ServerClosedConnection, ConnectionCloseOk, SocketBreaks, WireDown, Reads, Writes
<1>11. ASSUME SocketClosed \/ Application \/ ServerSaysBye PROVE UNCHANGED <<toClient, toServer>>
  BY <1>11 DEF SocketClosed, Application, ServerSaysBye, OpenChannel, Rpc, Close, SendRpc,
               RejectClosed, CloseConnection, wireVars
<1>12. ASSUME NEW n \in Number, Serve(n) \/ ServeClosing(n)
       PROVE  Reads(toClient[m], toClient'[m]) /\ Writes(toServer[m], toServer'[m], kind)
  <2> DEFINE c == Head(toServer[n]).call
  <2>1. PICK method : Take(n, method)
    BY <1>12 DEF Serve, ServeClosing
  <2>2. c \in Call \cup {None}
    BY <2>1, ServedCall DEF Take
  <2>3. UNCHANGED toClient \/ Reply(n, Ok(c)) \/ Reply(n, CloseOk(c))
    BY <1>12 DEF Serve, ServeClosing
  <2> HIDE DEF c
  <2>4. /\ Ok(c) \in Frame /\ Ok(c).method # "Request"
        /\ CloseOk(c) \in Frame /\ CloseOk(c).method # "Request"
    BY <2>2, AnswerFrames
  <2> QED
    BY <2>1, <2>3, <2>4, <1>2, <1>4, <1>5 DEF Reply
<1>13. ASSUME NEW n \in Number, ServeError(n)
       PROVE  Reads(toClient[m], toClient'[m]) /\ Writes(toServer[m], toServer'[m], kind)
  BY <1>13, <1>2, <1>4 DEF ServeError
<1>14. ASSUME NEW n \in Number, ServerCloses(n)
       PROVE  Reads(toClient[m], toClient'[m]) /\ Writes(toServer[m], toServer'[m], kind)
  BY <1>14, <1>0, <1>1, <1>5 DEF ServerCloses
<1>15. CASE UNCHANGED vars
  BY <1>15, <1>1, <1>2 DEF vars, wireVars
<1> QED
  BY <1>1, <1>2, <1>6, <1>7, <1>8, <1>9, <1>10, <1>11, <1>12, <1>13, <1>14, <1>15
  DEF Next, Client, Environment

----------------------------------------------------------------------------
(* The phases of a number *)

\* The sequences of a number before and after a step, and their lengths
LEMMA PhaseTypes ==
    ASSUME TypeInv, TypeInv', NEW n \in Number
    PROVE  /\ toClient[n] \in Seq(Frame) /\ toServer[n] \in Seq(Frame)
           /\ Len(toClient[n]) \in Nat /\ Len(toServer[n]) \in Nat
           /\ Len(toClient'[n]) \in Nat /\ Len(toServer'[n]) \in Nat
           /\ Len(Callbacks(n)) \in Nat /\ Len(Callbacks(n))' \in Nat
<1>1. toClient[n] \in Seq(Frame) /\ toServer[n] \in Seq(Frame) /\ Callbacks(n) \in Seq(Call)
  BY WireTypes
<1>2. toClient'[n] \in Seq(Frame) /\ toServer'[n] \in Seq(Frame)
  BY DEF TypeInv, TypeOK, WireTypeOK
<1>3. Callbacks(n)' \in Seq(Call)
  BY DEF TypeInv, TypeOK, ChanTypeOK, RpcTypeOK, Callbacks
<1> QED
  BY <1>1, <1>2, <1>3

\* Callbacks, answers and requests before and after a step: there are enough, still.
LEMMA EnoughUnchanged ==
    ASSUME NEW a \in Nat, NEW b \in Nat, NEW x \in Nat, NEW y \in Nat, a <= x + y, b <= a
    PROVE  b <= x + y
  OBVIOUS

\* A request is sent, for one more callback at most.
LEMMA EnoughSent ==
    ASSUME NEW s \in Seq(Frame), NEW t \in Seq(Frame), NEW f \in Frame,
           NEW a \in Nat, NEW b \in Nat, a <= Len(s) + Len(t), b <= a + 1
    PROVE  b <= Len(s) + Len(Append(t, f))
<1> DEFINE x == Len(s)
           y == Len(t)
           u == Len(Append(t, f))
<1>1. x \in Nat /\ y \in Nat /\ u = y + 1
  BY AppendAt
<1>2. a <= x + y
  OBVIOUS
<1> HIDE DEF x, y, u
<1>3. b <= x + u
  BY <1>1, <1>2
<1> QED
  BY <1>3 DEF x, y, u

\* An answer is read and takes a callback, or nothing waits.
LEMMA EnoughRead ==
    ASSUME NEW s \in Seq(Frame), NEW t \in Seq(Frame),
           NEW a \in Nat, NEW b \in Nat, a <= Len(s) + Len(t), s # <<>>, b = 0 \/ b = a - 1
    PROVE  b <= Len(Tail(s)) + Len(t)
<1> DEFINE x == Len(s)
           y == Len(t)
           u == Len(Tail(s))
<1>1. x \in Nat /\ y \in Nat /\ u = x - 1 /\ x # 0
  BY TailAt
<1>2. a <= x + y
  OBVIOUS
<1> HIDE DEF x, y, u
<1>3. b <= u + y
  BY <1>1, <1>2
<1> QED
  BY <1>3 DEF x, y, u

\* A request is served.
LEMMA EnoughServed ==
    ASSUME NEW s \in Seq(Frame), NEW t \in Seq(Frame), NEW f \in Frame,
           NEW a \in Nat, NEW b \in Nat, a <= Len(s) + Len(t), t # <<>>, b <= a
    PROVE  b <= Len(Append(s, f)) + Len(Tail(t))
<1> DEFINE x == Len(s)
           y == Len(t)
           u == Len(Append(s, f))
           v == Len(Tail(t))
<1>1. x \in Nat /\ y \in Nat /\ u = x + 1 /\ v = y - 1
  BY AppendAt, TailAt
<1>2. a <= x + y
  OBVIOUS
<1> HIDE DEF x, y, u, v
<1>3. b <= u + v
  BY <1>1, <1>2
<1> QED
  BY <1>3 DEF x, y, u, v

\* The close-ok in front is taken.
LEMMA EnoughBehind ==
    ASSUME NEW s \in Seq(Frame), NEW t \in Seq(Frame),
           NEW a \in Nat, NEW b \in Nat, a <= Len(t) - 1, t # <<>>, b <= a
    PROVE  b <= Len(s) + Len(Tail(t))
<1> DEFINE x == Len(s)
           y == Len(t)
           u == Len(Tail(t))
<1>1. x \in Nat /\ y \in Nat /\ u = y - 1
  BY TailAt
<1>2. a <= y - 1
  OBVIOUS
<1> HIDE DEF x, y, u
<1>3. b <= x + u
  BY <1>1, <1>2
<1> QED
  BY <1>3 DEF x, y, u

\* The wire is left alone, and nothing more begins to wait.
LEMMA PhaseStable ==
    ASSUME TypeInv, TypeInv', NEW n \in Number, Phase(n), Live' => Live,
           toClient'[n] = toClient[n], toServer'[n] = toServer[n], server'[n] = server[n],
           Len(Callbacks(n))' <= Len(Callbacks(n))
    PROVE  Phase(n)'
<1> USE PhaseTypes
<1>1. CASE Enough(n)
  <2>1. server'[n] # "closing" /\ Lacks(toClient'[n], "Close") /\ Lacks(toServer'[n], "CloseOk")
    BY <1>1 DEF Enough
  <2>2. ASSUME Live' PROVE Len(Callbacks(n))' <= Len(toClient'[n]) + Len(toServer'[n])
    <3>1. Len(Callbacks(n)) <= Len(toClient[n]) + Len(toServer[n])
      BY <1>1, <2>2 DEF Enough
    <3> QED
      BY <3>1, PhaseTypes, EnoughUnchanged
  <2>3. Enough(n)'
    BY <2>1, <2>2 DEF Enough
  <2> QED
    BY <2>3 DEF Phase
<1>2. CASE Closing(n)
  <2>1. Closing(n)'
    BY <1>2 DEF Closing
  <2> QED
    BY <2>1 DEF Phase
<1>3. CASE Answered(n)
  <2>1. PICK k \in 1 .. Len(toServer[n]) :
            OnlyAt(toServer[n], "CloseOk", k) /\ Len(Callbacks(n)) <= Len(toServer[n]) - k
    BY <1>3 DEF Answered
  <2>2. Len(Callbacks(n))' <= Len(toServer[n]) - k
    BY <2>1
  <2>3. Answered(n)'
    BY <1>3, <2>1, <2>2 DEF Answered
  <2> QED
    BY <2>3 DEF Phase
<1>4. CASE CloseForgotten(n)
  <2>1. CloseForgotten(n)'
    BY <1>4 DEF CloseForgotten
  <2> QED
    BY <2>1 DEF Phase
<1> QED
  BY <1>1, <1>2, <1>3, <1>4 DEF Phase

\* A request is sent; it is that of one more callback, or of none.
LEMMA PhaseSent ==
    ASSUME TypeInv, TypeInv', NEW n \in Number, Phase(n), Live' => Live,
           NEW f \in Frame, f.method = "Request", toServer'[n] = Append(toServer[n], f),
           toClient'[n] = toClient[n], server'[n] = server[n],
           Len(Callbacks(n))' <= Len(Callbacks(n)) + 1
    PROVE  Phase(n)'
<1> USE PhaseTypes
<1>1. Len(toServer'[n]) = Len(toServer[n]) + 1
  BY AppendAt
<1>2. Lacks(toServer[n], "CloseOk") => Lacks(toServer'[n], "CloseOk")
  BY AppendLacks
<1>3. CASE Enough(n)
  <2>1. server'[n] # "closing" /\ Lacks(toClient'[n], "Close") /\ Lacks(toServer'[n], "CloseOk")
    BY <1>2, <1>3 DEF Enough
  <2>2. ASSUME Live' PROVE Len(Callbacks(n))' <= Len(toClient'[n]) + Len(toServer'[n])
    <3>1. Len(Callbacks(n)) <= Len(toClient[n]) + Len(toServer[n])
      BY <1>3, <2>2 DEF Enough
    <3>2. Len(Callbacks(n))' <= Len(toClient[n]) + Len(Append(toServer[n], f))
      BY <3>1, PhaseTypes, EnoughSent
    <3> QED
      BY <3>2
  <2>3. Enough(n)'
    BY <2>1, <2>2 DEF Enough
  <2> QED
    BY <2>3 DEF Phase
<1>4. CASE Closing(n)
  <2>1. Closing(n)'
    BY <1>2, <1>4 DEF Closing
  <2> QED
    BY <2>1 DEF Phase
<1>5. CASE Answered(n)
  <2>1. PICK k \in 1 .. Len(toServer[n]) :
            OnlyAt(toServer[n], "CloseOk", k) /\ Len(Callbacks(n)) <= Len(toServer[n]) - k
    BY <1>5 DEF Answered
  <2>2. OnlyAt(toServer'[n], "CloseOk", k)
    BY <2>1, AppendOnly
  <2>3. k \in 1 .. Len(toServer'[n]) /\ Len(Callbacks(n))' <= Len(toServer'[n]) - k
    BY <2>1, <1>1
  <2>4. Answered(n)'
    BY <1>5, <2>2, <2>3 DEF Answered
  <2> QED
    BY <2>4 DEF Phase
<1>6. CASE CloseForgotten(n)
  <2>1. CloseForgotten(n)'
    BY <1>2, <1>6 DEF CloseForgotten, Lacks
  <2> QED
    BY <2>1 DEF Phase
<1> QED
  BY <1>3, <1>4, <1>5, <1>6 DEF Phase

\* A frame is read and takes a callback, or finds none; a Close among them finds no object.
LEMMA PhaseRead ==
    ASSUME TypeInv, TypeInv', NEW n \in Number, Phase(n), Live' => Live,
           toClient[n] # <<>>, toClient'[n] = Tail(toClient[n]),
           toServer'[n] = toServer[n], server'[n] = server[n],
           \/ Len(Callbacks(n))' = 0
           \/ Len(Callbacks(n))' = Len(Callbacks(n)) - 1
    PROVE  Phase(n)'
<1> USE PhaseTypes
<1>1. Len(toClient'[n]) = Len(toClient[n]) - 1
  BY TailAt
<1>2. Lacks(toClient[n], "Close") => Lacks(toClient'[n], "Close")
  BY TailLacks
<1>3. CASE Enough(n)
  <2>1. server'[n] # "closing" /\ Lacks(toClient'[n], "Close") /\ Lacks(toServer'[n], "CloseOk")
    BY <1>2, <1>3 DEF Enough
  <2>2. ASSUME Live' PROVE Len(Callbacks(n))' <= Len(toClient'[n]) + Len(toServer'[n])
    <3>1. Len(Callbacks(n)) <= Len(toClient[n]) + Len(toServer[n])
      BY <1>3, <2>2 DEF Enough
    <3>2. Len(Callbacks(n))' <= Len(Tail(toClient[n])) + Len(toServer[n])
      BY <3>1, PhaseTypes, EnoughRead
    <3> QED
      BY <3>2
  <2>3. Enough(n)'
    BY <2>1, <2>2 DEF Enough
  <2> QED
    BY <2>3 DEF Phase
<1>4. CASE Closing(n)
  <2>1. PICK k \in 1 .. Len(toClient[n]) : OnlyAt(toClient[n], "Close", k)
    BY <1>4 DEF Closing
  <2>2. CASE Head(toClient[n]).method = "Close"
    <3>1. Lacks(toClient'[n], "Close")
      BY <2>1, <2>2, TailOnly
    <3>2. CloseForgotten(n)'
      BY <1>4, <3>1 DEF Closing, CloseForgotten, Lacks
    <3> QED
      BY <3>2 DEF Phase
  <2>3. CASE Head(toClient[n]).method # "Close"
    <3>1. k - 1 \in 1 .. Len(toClient'[n]) /\ OnlyAt(toClient'[n], "Close", k - 1)
      BY <2>1, <2>3, TailOnly
    <3>2. Closing(n)'
      BY <1>4, <3>1 DEF Closing
    <3> QED
      BY <3>2 DEF Phase
  <2> QED
    BY <2>2, <2>3
<1>5. CASE Answered(n)
  <2>1. PICK k \in 1 .. Len(toServer[n]) :
            OnlyAt(toServer[n], "CloseOk", k) /\ Len(Callbacks(n)) <= Len(toServer[n]) - k
    BY <1>5 DEF Answered
  <2>2. Len(Callbacks(n))' <= Len(toServer[n]) - k
    BY <2>1
  <2>3. Answered(n)'
    BY <1>2, <1>5, <2>1, <2>2 DEF Answered
  <2> QED
    BY <2>3 DEF Phase
<1>6. CASE CloseForgotten(n)
  <2>1. CloseForgotten(n)'
    BY <1>2, <1>6 DEF CloseForgotten, Lacks
  <2> QED
    BY <2>1 DEF Phase
<1> QED
  BY <1>3, <1>4, <1>5, <1>6 DEF Phase

\* A Close is read and answered; nothing waits any more.
LEMMA PhaseClosed ==
    ASSUME TypeInv, TypeInv', NEW n \in Number, Phase(n),
           toClient[n] # <<>>, Head(toClient[n]).method = "Close",
           toClient'[n] = Tail(toClient[n]), server'[n] = server[n],
           toServer'[n] = Append(toServer[n], CloseOk(None)), Len(Callbacks(n))' = 0
    PROVE  Phase(n)'
<1> USE PhaseTypes
<1>1. ~Lacks(toClient[n], "Close")
  BY FirstIn DEF Lacks
<1>2. Closing(n)
  BY <1>1 DEF Phase, Enough, Answered, CloseForgotten, Lacks
<1>3. PICK k \in 1 .. Len(toClient[n]) : OnlyAt(toClient[n], "Close", k)
  BY <1>2 DEF Closing
<1>4. Lacks(toClient'[n], "Close")
  BY <1>3, TailOnly
<1>5. CloseOk(None) \in Frame /\ CloseOk(None).method = "CloseOk"
  BY AnswerFrames
<1>6. /\ OnlyAt(toServer'[n], "CloseOk", Len(toServer[n]) + 1)
      /\ Len(toServer'[n]) = Len(toServer[n]) + 1
  BY <1>2, <1>5, AppendFirst DEF Closing
<1>7. Len(toServer[n]) + 1 \in 1 .. Len(toServer'[n])
  BY <1>6
<1>8. Len(Callbacks(n))' <= Len(toServer'[n]) - (Len(toServer[n]) + 1)
  BY <1>6
<1>9. Answered(n)'
  BY <1>2, <1>4, <1>6, <1>7, <1>8 DEF Closing, Answered
<1> QED
  BY <1>9 DEF Phase

\* The broker serves a request of a number it does not close.
LEMMA PhaseServed ==
    ASSUME TypeInv, TypeInv', NEW n \in Number, Phase(n), Live' => Live,
           server[n] # "closing", server'[n] # "closing",
           toServer[n] # <<>>, toServer'[n] = Tail(toServer[n]),
           NEW f \in Frame, f.method # "Close", toClient'[n] = Append(toClient[n], f),
           Len(Callbacks(n))' <= Len(Callbacks(n))
    PROVE  Phase(n)'
<1>1. Enough(n)
  BY DEF Phase, Closing, Answered, CloseForgotten
<1>2. /\ Len(toServer'[n]) = Len(toServer[n]) - 1
      /\ Len(toClient'[n]) = Len(toClient[n]) + 1
  BY TailAt, AppendAt, PhaseTypes
<1>3. Lacks(toClient'[n], "Close") /\ Lacks(toServer'[n], "CloseOk")
  BY <1>1, TailLacks, AppendLacks, PhaseTypes DEF Enough
<1>4. ASSUME Live' PROVE Len(Callbacks(n))' <= Len(toClient'[n]) + Len(toServer'[n])
  <2>1. Len(Callbacks(n)) <= Len(toClient[n]) + Len(toServer[n])
    BY <1>1, <1>4 DEF Enough
  <2>2. Len(Callbacks(n))' <= Len(Append(toClient[n], f)) + Len(Tail(toServer[n]))
    BY <2>1, PhaseTypes, EnoughServed
  <2> QED
    BY <2>2
<1>5. Enough(n)'
  BY <1>3, <1>4 DEF Enough
<1> QED
  BY <1>5 DEF Phase

\* A request that is refused ends the connection.
LEMMA PhaseRefused ==
    ASSUME TypeInv, TypeInv', NEW n \in Number, Phase(n), ~Live',
           server[n] # "closing", server'[n] = server[n],
           toServer[n] # <<>>, toServer'[n] = Tail(toServer[n]), toClient'[n] = toClient[n]
    PROVE  Phase(n)'
<1>1. Enough(n)
  BY DEF Phase, Closing, Answered, CloseForgotten
<1>2. Lacks(toServer'[n], "CloseOk")
  BY <1>1, TailLacks, PhaseTypes DEF Enough
<1>3. Enough(n)'
  BY <1>1, <1>2 DEF Enough
<1> QED
  BY <1>3 DEF Phase

\* The broker's close meets a number it does not close yet.
LEMMA PhaseException ==
    ASSUME TypeInv, TypeInv', NEW n \in Number, Phase(n),
           server[n] # "closing", server'[n] = "closing",
           toServer'[n] = toServer[n], toClient'[n] = Append(toClient[n], CloseMethod)
    PROVE  Phase(n)'
<1>1. Enough(n)
  BY DEF Phase, Closing, Answered, CloseForgotten
<1>2. CloseMethod \in Frame /\ CloseMethod.method = "Close"
  BY AnswerFrames
<1>3. /\ OnlyAt(toClient'[n], "Close", Len(toClient[n]) + 1)
      /\ Len(toClient'[n]) = Len(toClient[n]) + 1
  BY <1>1, <1>2, AppendFirst, PhaseTypes DEF Enough
<1>4. Len(toClient[n]) + 1 \in 1 .. Len(toClient'[n])
  BY <1>3, PhaseTypes
<1>5. Closing(n)'
  BY <1>1, <1>3, <1>4 DEF Enough, Closing
<1> QED
  BY <1>5 DEF Phase

\* The client's close-ok arrives: the requests behind it will be served.
LEMMA PhaseReleased ==
    ASSUME TypeInv, TypeInv', NEW n \in Number, Phase(n),
           server[n] = "closing", server'[n] # "closing",
           toServer[n] # <<>>, Head(toServer[n]).method = "CloseOk",
           toServer'[n] = Tail(toServer[n]), toClient'[n] = toClient[n],
           Len(Callbacks(n))' <= Len(Callbacks(n))
    PROVE  Phase(n)'
<1>1. ~Lacks(toServer[n], "CloseOk")
  BY FirstIn, PhaseTypes DEF Lacks
<1>2. Answered(n)
  BY <1>1 DEF Phase, Enough, Closing, CloseForgotten, Lacks
<1>3. PICK k \in 1 .. Len(toServer[n]) :
          OnlyAt(toServer[n], "CloseOk", k) /\ Len(Callbacks(n)) <= Len(toServer[n]) - k
  BY <1>2 DEF Answered
<1>4. k = 1 /\ Lacks(toServer'[n], "CloseOk") /\ Len(toServer'[n]) = Len(toServer[n]) - 1
  BY <1>3, TailOnly, PhaseTypes
<1>5. Len(Callbacks(n))' <= Len(toClient'[n]) + Len(toServer'[n])
  <2>1. Len(Callbacks(n)) <= Len(toServer[n]) - 1
    BY <1>3, <1>4
  <2>2. Len(Callbacks(n))' <= Len(toClient[n]) + Len(Tail(toServer[n]))
    BY <2>1, PhaseTypes, EnoughBehind
  <2> QED
    BY <2>2
<1>6. Enough(n)'
  BY <1>2, <1>4, <1>5 DEF Answered, Enough
<1> QED
  BY <1>6 DEF Phase

\* While it closes the number the broker drops requests, or answers a close.
LEMMA PhaseDropped ==
    ASSUME TypeInv, TypeInv', NEW n \in Number, Phase(n),
           server[n] = "closing", server'[n] = server[n],
           toServer[n] # <<>>, Head(toServer[n]).method # "CloseOk",
           toServer'[n] = Tail(toServer[n]),
           \/ toClient'[n] = toClient[n]
           \/ \E f \in Frame : f.method # "Close" /\ toClient'[n] = Append(toClient[n], f),
           Len(Callbacks(n))' <= Len(Callbacks(n))
    PROVE  Phase(n)'
<1>1. /\ Lacks(toServer[n], "CloseOk") => Lacks(toServer'[n], "CloseOk")
      /\ Lacks(toClient[n], "Close") => Lacks(toClient'[n], "Close")
  BY TailLacks, AppendLacks, PhaseTypes
<1>2. Closing(n) \/ Answered(n) \/ CloseForgotten(n)
  BY DEF Phase, Enough
<1>3. CASE Closing(n)
  <2>1. PICK k \in 1 .. Len(toClient[n]) : OnlyAt(toClient[n], "Close", k)
    BY <1>3 DEF Closing
  <2>2. OnlyAt(toClient'[n], "Close", k)
    BY <2>1, AppendOnly, PhaseTypes
  <2>3. k \in 1 .. Len(toClient'[n])
    BY <2>2, PhaseTypes DEF OnlyAt
  <2>4. Closing(n)'
    BY <1>1, <1>3, <2>2, <2>3 DEF Closing
  <2> QED
    BY <2>4 DEF Phase
<1>4. CASE Answered(n)
  <2>1. PICK k \in 1 .. Len(toServer[n]) :
            OnlyAt(toServer[n], "CloseOk", k) /\ Len(Callbacks(n)) <= Len(toServer[n]) - k
    BY <1>4 DEF Answered
  <2>2. /\ k - 1 \in 1 .. Len(toServer'[n]) /\ OnlyAt(toServer'[n], "CloseOk", k - 1)
        /\ Len(toServer'[n]) = Len(toServer[n]) - 1
    BY <2>1, TailOnly, PhaseTypes
  <2>3. Len(Callbacks(n))' <= Len(toServer'[n]) - (k - 1)
    BY <2>1, <2>2, PhaseTypes
  <2>4. Answered(n)'
    BY <1>1, <1>4, <2>2, <2>3 DEF Answered
  <2> QED
    BY <2>4 DEF Phase
<1>5. CASE CloseForgotten(n)
  <2>1. CloseForgotten(n)'
    BY <1>1, <1>5 DEF CloseForgotten, Lacks
  <2> QED
    BY <2>1 DEF Phase
<1> QED
  BY <1>2, <1>3, <1>4, <1>5

----------------------------------------------------------------------------
(* What waits on a number, step by step *)

\* No list of callbacks grows: on no number does more wait than before.
LEMMA CallbacksShrink ==
    ASSUME TypeInv, TypeInv', NEW m \in Number, slot'[m] = slot[m] \/ slot'[m] = None,
           \A ch \in Chan : Len(rpcCallbacks'[ch]) <= Len(rpcCallbacks[ch])
    PROVE  Len(Callbacks(m))' <= Len(Callbacks(m))
<1>1. Len(Callbacks(m)) \in Nat
  BY PhaseTypes
<1>2. CASE slot'[m] = None
  <2>1. Len(Callbacks(m))' = 0
    BY <1>2, EmptyLen DEF Callbacks
  <2> QED
    BY <1>1, <2>1
<1>3. CASE slot'[m] = slot[m] /\ slot[m] # None
  <2>1. slot[m] \in Chan
    BY <1>3, WireTypes
  <2> QED
    BY <1>3, <2>1 DEF Callbacks
<1> QED
  BY <1>2, <1>3

\* The callbacks of an object are a sequence of calls.
LEMMA ListTypes ==
    ASSUME TypeInv, NEW ch \in Chan
    PROVE  /\ rpcCallbacks \in [Chan -> Seq(Call)] /\ rpcCallbacks[ch] \in Seq(Call)
           /\ Len(rpcCallbacks[ch]) \in Nat
  BY DEF TypeInv, TypeOK, RpcTypeOK

\* setClosed drops the callbacks of an object or leaves them.
LEMMA SetClosedShrinks ==
    ASSUME TypeInv, NEW C, SetClosed(C), NEW ch \in Chan
    PROVE  Len(rpcCallbacks'[ch]) <= Len(rpcCallbacks[ch])
<1>1. rpcCallbacks'[ch] = <<>> \/ rpcCallbacks'[ch] = rpcCallbacks[ch]
  BY DEF SetClosed
<1> QED
  BY <1>1, ListTypes, EmptyLen

\* resolveRPC shifts one of an object's callbacks, if it has any.
LEMMA ResolveShrinks ==
    ASSUME TypeInv, NEW x \in Chan, NEW f, ResolveRPC(x, f), NEW ch \in Chan
    PROVE  /\ Len(rpcCallbacks'[ch]) <= Len(rpcCallbacks[ch])
           /\ ch = x => \/ Len(rpcCallbacks'[ch]) = 0
                        \/ Len(rpcCallbacks'[ch]) = Len(rpcCallbacks[ch]) - 1
<1> USE ListTypes
<1>1. CASE rpcCallbacks[x] = <<>>
  BY <1>1, EmptyLen DEF ResolveRPC
<1>2. CASE rpcCallbacks[x] # <<>>
  <2>1. rpcCallbacks' = [rpcCallbacks EXCEPT ![x] = Tail(@)]
    BY <1>2 DEF ResolveRPC
  <2>2. CASE ch = x
    <3>1. rpcCallbacks'[ch] = Tail(rpcCallbacks[ch]) /\ rpcCallbacks[ch] # <<>>
      BY <2>1, <2>2, <1>2
    <3>2. Len(Tail(rpcCallbacks[ch])) = Len(rpcCallbacks[ch]) - 1
      BY <3>1, TailAt
    <3> QED
      BY <3>1, <3>2
  <2>3. CASE ch # x
    BY <2>1, <2>3
  <2> QED
    BY <2>2, <2>3
<1> QED
  BY <1>1, <1>2

\* A failed write pops one at most.
LEMMA WriteFailedShrinks ==
    ASSUME TypeInv, NEW x \in Chan, WriteFailed(x), NEW ch \in Chan
    PROVE  Len(rpcCallbacks'[ch]) <= Len(rpcCallbacks[ch])
<1>1. CASE UNCHANGED rpcCallbacks
  BY <1>1, ListTypes
<1>2. CASE rpcCallbacks[x] # <<>> /\ rpcCallbacks' = [rpcCallbacks EXCEPT ![x] = SubSeq(@, 1, Len(@) - 1)]
  <2>1. CASE ch = x
    <3>1. rpcCallbacks'[ch] = SubSeq(rpcCallbacks[ch], 1, Len(rpcCallbacks[ch]) - 1)
      BY <1>2, <2>1, ListTypes
    <3>2. ASSUME NEW s \in Seq(Call), s # <<>> PROVE Len(SubSeq(s, 1, Len(s) - 1)) <= Len(s)
      BY <3>2
    <3> QED
      BY <1>2, <2>1, <3>1, <3>2, ListTypes
  <2>2. CASE ch # x
    BY <1>2, <2>2, ListTypes
  <2> QED
    BY <2>1, <2>2
<1> QED
  BY <1>1, <1>2 DEF WriteFailed

----------------------------------------------------------------------------
(* Each step leaves every number in a phase *)

\* A step that leaves the wire of a number and the connection alone
LEMMA PhaseElsewhere ==
    ASSUME TypeInv, TypeInv', NEW m \in Number, Phase(m), Live' => Live,
           toClient'[m] = toClient[m], toServer'[m] = toServer[m], server'[m] = server[m],
           slot'[m] = slot[m] \/ slot'[m] = None,
           \A ch \in Chan : Len(rpcCallbacks'[ch]) <= Len(rpcCallbacks[ch])
    PROVE  Phase(m)'
  BY CallbacksShrink, PhaseStable

\* A step that leaves the table and the callbacks alone, too
LEMMA SamePhase ==
    ASSUME TypeInv, TypeInv', NEW m \in Number, Phase(m), Live' => Live,
           UNCHANGED <<toClient, toServer, server, slot, rpcCallbacks>>
    PROVE  Phase(m)'
  BY PhaseElsewhere, ListTypes

\* A call of the application
LEMMA ApplicationPhase ==
    ASSUME Inv, TypeInv', Application, NEW m \in Number, Phase(m)
    PROVE  Phase(m)'
<1> USE DEF Inv
<1>1. ASSUME NEW c \in Call, NEW ch \in Chan, NEW n \in Number, OpenChannel(c, ch, n)
      PROVE  Phase(m)'
  <2>1. /\ UNCHANGED <<toClient, toServer, server, rpcCallbacks, bye>> /\ number[ch] = None
        /\ slot[n] = None /\ slot' = [slot EXCEPT ![n] = ch] /\ slot \in [Number -> Chan \cup {None}]
    BY <1>1 DEF OpenChannel, SendRpc, connVars, wireVars, TypeInv, TypeOK, ChanTypeOK
  <2>2. CASE m = n
    <3>1. rpcCallbacks[ch] = <<>>
      BY <2>1, FreshObject DEF AnswerInv
    <3>2. Len(Callbacks(m))' = 0
      BY <2>1, <2>2, <3>1, EmptyLen DEF Callbacks
    <3>3. Len(Callbacks(m))' <= Len(Callbacks(m))
      BY <3>2, PhaseTypes
    <3> QED
      BY <2>1, <3>3, PhaseStable DEF Live
  <2>3. CASE m # n
    BY <2>1, <2>3, PhaseElsewhere, ListTypes DEF Live
  <2> QED
    BY <2>2, <2>3
<1>2. ASSUME NEW c \in Call, NEW ch \in Chan, Rpc(c, ch) \/ Close(c, ch) PROVE Phase(m)'
  <2>1. UNCHANGED <<toClient, toServer, server, slot, rpcCallbacks, bye>>
    BY <1>2 DEF Rpc, Close, SendRpc, RejectClosed, connVars, wireVars, chanVars, rpcVars
  <2> QED
    BY <2>1, SamePhase DEF Live
<1>3. CASE CloseConnection
  <2>1. UNCHANGED <<toClient, toServer, server, slot, rpcCallbacks>> /\ (Live' => Live)
    BY <1>3 DEF CloseConnection, wireVars, chanVars, rpcVars, Live
  <2> QED
    BY <2>1, SamePhase
<1> QED
  BY <1>1, <1>2, <1>3 DEF Application

\* The promise chain
LEMMA ChainPhase ==
    ASSUME Inv, TypeInv', KindInv, NEW ch \in Chan,
           Step(ch) \/ StepRejected(ch) \/ Written(ch) \/ WriteFailed(ch),
           sock = "up", NEW m \in Number, Phase(m)
    PROVE  Phase(m)'
<1> USE DEF Inv
<1>1. UNCHANGED <<toClient, server, slot, bye>> /\ (Live' => Live)
  BY DEF Step, StepRejected, Written, WriteFailed, connVars, wireVars, chanVars, Live
<1>2. CASE Step(ch)
  <2> DEFINE c == Head(rpcQueue[ch])
             n == number[ch]
  <2>1. /\ rpcQueue[ch] # <<>> /\ toServer' = [toServer EXCEPT ![n] = Append(@, Request(c))]
        /\ rpcCallbacks' = [rpcCallbacks EXCEPT ![ch] = Append(@, c)]
    BY <1>2 DEF Step
  <2>2. c \in Call /\ Request(c) \in Frame /\ Request(c).method = "Request" /\ n \in Number
    BY <2>1, SentRequest DEF TypeInv, Numbered
  <2> HIDE DEF c
  <2>3. toServer \in [Number -> Seq(Frame)]
    BY DEF TypeInv, TypeOK, WireTypeOK
  <2>4. CASE m = n
    <3>1. Len(Callbacks(m))' <= Len(Callbacks(m)) + 1
      <4>1. CASE slot[m] = ch
        <5>1. Callbacks(m) = rpcCallbacks[ch] /\ Callbacks(m)' = Append(rpcCallbacks[ch], c)
          BY <4>1, <1>1, <2>1, ListTypes, NoneAssumption DEF Callbacks
        <5>2. Len(Append(rpcCallbacks[ch], c)) = Len(rpcCallbacks[ch]) + 1
          BY <2>2, ListTypes, AppendAt
        <5> QED
          BY <5>1, <5>2, ListTypes
      <4>2. CASE slot[m] # ch
        <5>1. Callbacks(m)' = Callbacks(m)
          BY <4>2, <1>1, <2>1, ListTypes, WireTypes DEF Callbacks
        <5> QED
          BY <5>1, PhaseTypes
      <4> QED
        BY <4>1, <4>2
    <3>2. toServer'[m] = Append(toServer[m], Request(c))
      BY <2>1, <2>3, <2>4
    <3> QED
      BY <1>1, <2>2, <3>1, <3>2, PhaseSent
  <2>5. CASE m # n
    <3>1. slot[m] # ch
      BY <2>5, NoneAssumption DEF TableInv, SlotNumbered
    <3>2. Callbacks(m)' = Callbacks(m)
      BY <3>1, <1>1, <2>1, ListTypes, WireTypes DEF Callbacks
    <3>3. toServer'[m] = toServer[m] /\ Len(Callbacks(m))' <= Len(Callbacks(m))
      BY <2>1, <2>3, <2>5, <3>2, PhaseTypes
    <3> QED
      BY <1>1, <3>3, PhaseStable
  <2> QED
    BY <2>4, <2>5
<1>3. CASE StepRejected(ch) \/ Written(ch)
  <2>1. UNCHANGED <<toServer, rpcCallbacks>>
    BY <1>3 DEF StepRejected, Written, wireVars
  <2> QED
    BY <1>1, <2>1, SamePhase
<1>4. CASE WriteFailed(ch)
  <2>1. UNCHANGED toServer
    BY <1>4 DEF WriteFailed, wireVars
  <2> QED
    BY <1>1, <1>4, <2>1, WriteFailedShrinks, PhaseElsewhere
<1> QED
  BY <1>2, <1>3, <1>4

\* A frame from the server
LEMMA FramePhase ==
    ASSUME Inv, TypeInv', NEW n \in Number,
           SkipFrame(n) \/ GotAnswer(n) \/ GotCloseOk(n) \/ ServerClosedChannel(n),
           NEW m \in Number, Phase(m)
    PROVE  Phase(m)'
<1> USE DEF Inv
<1> DEFINE ch == slot[n]
<1>1. /\ toClient[n] # <<>> /\ toClient' = [toClient EXCEPT ![n] = Tail(@)]
      /\ UNCHANGED <<server, bye>> /\ (Live' => Live)
  BY DEF SkipFrame, GotAnswer, GotCloseOk, ServerClosedChannel, Read, Live
<1>2. /\ toClient \in [Number -> Seq(Frame)] /\ toServer \in [Number -> Seq(Frame)]
      /\ slot \in [Number -> Chan \cup {None}]
  BY DEF TypeInv, TypeOK, WireTypeOK, ChanTypeOK
<1>3. /\ \A x \in Chan : Len(rpcCallbacks'[x]) <= Len(rpcCallbacks[x])
      /\ \/ UNCHANGED toServer
         \/ toServer' = [toServer EXCEPT ![n] = Append(@, CloseOk(None))]
      /\ UNCHANGED slot \/ slot' = [slot EXCEPT ![n] = None]
  <2>1. CASE SkipFrame(n)
    BY <2>1, ListTypes DEF SkipFrame
  <2>2. CASE GotAnswer(n)
    BY <2>2, <1>2, ResolveShrinks DEF GotAnswer
  <2>3. CASE GotCloseOk(n)
    BY <2>3, <1>2, ResolveShrinks, SetClosedShrinks DEF GotCloseOk
  <2>4. CASE ServerClosedChannel(n)
    BY <2>4, SetClosedShrinks DEF ServerClosedChannel
  <2> QED
    BY <2>1, <2>2, <2>3, <2>4
<1>4. CASE m # n
  <2>1. toClient'[m] = toClient[m] /\ toServer'[m] = toServer[m] /\ slot'[m] = slot[m]
    BY <1>1, <1>2, <1>3, <1>4
  <2> QED
    BY <1>1, <1>3, <2>1, PhaseElsewhere
<1>5. CASE m = n
  <2>1. toClient'[n] = Tail(toClient[n]) /\ server'[n] = server[n]
    BY <1>1, <1>2
  <2>2. slot'[n] = None => Len(Callbacks(n))' = 0
    BY EmptyLen DEF Callbacks
  <2>3. CASE SkipFrame(n)
    <3>1. toServer'[n] = toServer[n] /\ slot'[n] = None
      BY <2>3 DEF SkipFrame
    <3> QED
      BY <1>1, <1>5, <2>1, <2>2, <3>1, PhaseRead
  <2>4. CASE GotAnswer(n)
    <3>1. ch \in Chan /\ slot'[n] = ch /\ toServer'[n] = toServer[n]
      BY <2>4, <1>2 DEF GotAnswer
    <3>2. \/ Len(rpcCallbacks'[ch]) = 0
          \/ Len(rpcCallbacks'[ch]) = Len(rpcCallbacks[ch]) - 1
      BY <2>4, <3>1, ResolveShrinks DEF GotAnswer
    <3>3. Callbacks(n) = rpcCallbacks[ch] /\ Callbacks(n)' = rpcCallbacks'[ch]
      BY <3>1, NoneAssumption DEF Callbacks
    <3>4. Len(Callbacks(n))' = 0 \/ Len(Callbacks(n))' = Len(Callbacks(n)) - 1
      BY <3>2, <3>3
    <3> QED
      BY <1>1, <1>5, <2>1, <3>1, <3>4, PhaseRead
  <2>5. CASE GotCloseOk(n)
    <3>1. toServer'[n] = toServer[n] /\ slot'[n] = None
      BY <2>5, <1>2 DEF GotCloseOk
    <3> QED
      BY <1>1, <1>5, <2>1, <2>2, <3>1, PhaseRead
  <2>6. CASE ServerClosedChannel(n)
    <3>1. /\ Head(toClient[n]).method = "Close" /\ slot'[n] = None
          /\ toServer'[n] = Append(toServer[n], CloseOk(None))
      BY <2>6, <1>2 DEF ServerClosedChannel
    <3> QED
      BY <1>1, <1>5, <2>1, <2>2, <3>1, PhaseClosed
  <2> QED
    BY <2>3, <2>4, <2>5, <2>6
<1> QED
  BY <1>4, <1>5

\* The broker
LEMMA BrokerPhase ==
    ASSUME Inv, TypeInv', NEW n \in Number,
           Serve(n) \/ ServeClosing(n) \/ ServeError(n) \/ ServerCloses(n),
           NEW m \in Number, Phase(m)
    PROVE  Phase(m)'
<1> USE DEF Inv
<1> DEFINE c == Head(toServer[n]).call
<1>1. UNCHANGED <<slot, rpcCallbacks>> /\ (Live' => Live)
  BY DEF Serve, ServeClosing, ServeError, ServerCloses, Take, connVars, chanVars, rpcVars, Live
<1>2. /\ toClient \in [Number -> Seq(Frame)] /\ toServer \in [Number -> Seq(Frame)]
      /\ server \in [Number -> {"closed", "open", "closing"}]
  BY DEF TypeInv, TypeOK, WireTypeOK
<1>3. Callbacks(m)' = Callbacks(m) /\ Len(Callbacks(m))' <= Len(Callbacks(m))
  BY <1>1, PhaseTypes DEF Callbacks
<1>4. ASSUME NEW method, Take(n, method)
      PROVE  /\ toServer[n] # <<>> /\ Head(toServer[n]).method = method
             /\ toServer'[n] = Tail(toServer[n])
             /\ \A k \in Number : k # n => toServer'[k] = toServer[k]
             /\ c \in Call \cup {None}
  BY <1>4, <1>2, ServedCall DEF Take
<1>5. CASE Serve(n)
  <2>1. /\ toServer[n] # <<>> /\ Head(toServer[n]).method = "Request"
        /\ toServer'[n] = Tail(toServer[n])
        /\ \A k \in Number : k # n => toServer'[k] = toServer[k]
        /\ c \in Call \cup {None}
    BY <1>4, <1>5 DEF Serve
  <2>2. /\ Ok(c) \in Frame /\ Ok(c).method = "Ok"
        /\ CloseOk(c) \in Frame /\ CloseOk(c).method = "CloseOk"
    BY <2>1, AnswerFrames
  <2>3. PICK f \in {Ok(c), CloseOk(c)} : toClient' = [toClient EXCEPT ![n] = Append(@, f)]
    BY <1>5 DEF Serve, Reply
  <2>4. f \in Frame /\ f.method # "Close"
    BY <2>2, <2>3
  <2>5. server[n] # "closing" /\ server'[n] # "closing"
        /\ \A k \in Number : k # n => server'[k] = server[k]
    BY <1>2, <1>5 DEF Serve
  <2>6. toClient'[n] = Append(toClient[n], f) /\ \A k \in Number : k # n => toClient'[k] = toClient[k]
    BY <1>2, <2>3
  <2>7. CASE m = n
    BY <1>1, <1>3, <2>1, <2>4, <2>5, <2>6, <2>7, PhaseServed
  <2>8. CASE m # n
    BY <1>1, <1>3, <2>1, <2>5, <2>6, <2>8, PhaseStable
  <2> QED
    BY <2>7, <2>8
<1>6. CASE ServeClosing(n)
  <2>0. PICK method : Take(n, method)
    BY <1>6 DEF ServeClosing
  <2>1. /\ toServer[n] # <<>> /\ toServer'[n] = Tail(toServer[n])
        /\ \A k \in Number : k # n => toServer'[k] = toServer[k]
        /\ c \in Call \cup {None}
    BY <2>0, <1>4
  <2>2. CloseOk(c) \in Frame /\ CloseOk(c).method = "CloseOk"
    BY <2>1, AnswerFrames
  <2>3. server[n] = "closing"
    BY <1>6 DEF ServeClosing
  <2>4. CASE Take(n, "CloseOk") /\ server' = [server EXCEPT ![n] = "closed"] /\ UNCHANGED toClient
    <3>1. Head(toServer[n]).method = "CloseOk" /\ server'[n] # "closing"
          /\ \A k \in Number : k # n => server'[k] = server[k]
      BY <2>4, <1>2, <1>4
    <3> QED
      BY <1>1, <1>3, <2>1, <2>3, <2>4, <3>1, PhaseReleased, PhaseStable
  <2>5. CASE /\ Take(n, "Request") /\ UNCHANGED server
             /\ UNCHANGED toClient \/ Reply(n, CloseOk(c))
    <3>1. Head(toServer[n]).method # "CloseOk"
      BY <2>5, <1>4
    <3>2. \/ UNCHANGED toClient
          \/ /\ toClient'[n] = Append(toClient[n], CloseOk(c))
             /\ \A k \in Number : k # n => toClient'[k] = toClient[k]
      BY <2>5, <1>2 DEF Reply
    <3>3. CASE m = n
      <4>1. \/ toClient'[n] = toClient[n]
            \/ \E f \in Frame : f.method # "Close" /\ toClient'[n] = Append(toClient[n], f)
        BY <2>2, <3>2
      <4> QED
        BY <1>3, <2>1, <2>3, <2>5, <3>1, <3>3, <4>1, PhaseDropped
    <3>4. CASE m # n
      BY <1>1, <1>3, <2>1, <2>5, <3>2, <3>4, PhaseStable
    <3> QED
      BY <3>3, <3>4
  <2> QED
    BY <1>6, <2>4, <2>5 DEF ServeClosing
<1>7. CASE ServeError(n)
  <2>1. /\ toServer[n] # <<>> /\ toServer'[n] = Tail(toServer[n])
        /\ \A k \in Number : k # n => toServer'[k] = toServer[k]
    BY <1>4, <1>7 DEF ServeError
  <2>2. ~Live' /\ server[n] # "closing" /\ UNCHANGED <<toClient, server>>
    BY <1>7 DEF ServeError, Live
  <2> QED
    BY <1>1, <1>3, <2>1, <2>2, PhaseRefused, PhaseStable
<1>8. CASE ServerCloses(n)
  <2>1. /\ server[n] # "closing" /\ server'[n] = "closing" /\ UNCHANGED toServer
        /\ toClient'[n] = Append(toClient[n], CloseMethod)
        /\ \A k \in Number : k # n => toClient'[k] = toClient[k] /\ server'[k] = server[k]
    BY <1>8, <1>2 DEF ServerCloses
  <2>2. CASE m = n
    BY <2>1, <2>2, PhaseException
  <2>3. CASE m # n
    BY <1>1, <1>3, <2>1, <2>3, PhaseStable
  <2> QED
    BY <2>2, <2>3
<1> QED
  BY <1>5, <1>6, <1>7, <1>8

\* As long as the socket is up every step keeps every number in a phase.
LEMMA PhaseStep ==
    ASSUME Inv, TypeInv', KindInv, PhaseInv, [Next]_vars
    PROVE  PhaseInv'
<1> SUFFICES ASSUME sock' = "up", NEW m \in Number PROVE Phase(m)'
  BY DEF PhaseInv
<1>1. sock = "up"
  BY DEF Next, Client, Application, Environment, Step, StepRejected, Written, WriteFailed,
         SkipFrame, GotAnswer, GotCloseOk, ServerClosedChannel, Read, ServerClosedConnection,
         ConnectionCloseOk, SocketClosed, OpenChannel, Rpc, Close, SendRpc, RejectClosed,
         CloseConnection, Serve, ServeClosing, ServeError, Take, ServerCloses, ServerSaysBye,
         SocketBreaks, vars, connVars
<1>2. Phase(m)
  BY <1>1 DEF PhaseInv
<1>3. CASE Client
  <2>1. ~(ServerClosedConnection \/ ConnectionCloseOk \/ SocketClosed)
    BY DEF ServerClosedConnection, ConnectionCloseOk, SocketClosed
  <2> QED
    BY <1>1, <1>2, <1>3, <2>1, ChainPhase, FramePhase DEF Client
<1>4. CASE Application
  BY <1>2, <1>4, ApplicationPhase
<1>5. CASE Environment
  <2>1. CASE ServerSaysBye
    <3>1. UNCHANGED <<toClient, toServer, server, slot, rpcCallbacks>> /\ (Live' => Live)
      BY <2>1 DEF ServerSaysBye, wireVars, chanVars, rpcVars, Live
    <3> QED
      BY <1>2, <3>1, SamePhase DEF Inv
  <2>2. ~SocketBreaks
    BY DEF SocketBreaks
  <2> QED
    BY <1>2, <1>5, <2>1, <2>2, BrokerPhase DEF Environment
<1>6. CASE UNCHANGED vars
  <2>1. UNCHANGED <<toClient, toServer, server, slot, rpcCallbacks, bye>>
    BY <1>6 DEF vars, wireVars, chanVars, rpcVars, connVars
  <2> QED
    BY <1>2, <2>1, SamePhase DEF Inv, Live
<1> QED
  BY <1>3, <1>4, <1>5, <1>6 DEF Next

\* The inductive invariant holds in every reachable state.
THEOREM DueInvariance == Spec => []DueInv
<1>1. Init => DueInv
  <2> SUFFICES ASSUME Init PROVE DueInv
    OBVIOUS
  <2>1. EndsInv /\ KindInv
    BY DEF Init, EndsInv, KindInv
  <2>2. ASSUME NEW n \in Number PROVE Traffic(n) /\ Phase(n)
    <3>1. /\ toClient[n] = <<>> /\ toServer[n] = <<>> /\ server[n] = "closed" /\ slot[n] = None
      BY DEF Init
    <3>2. Len(Callbacks(n)) = 0 /\ Len(toClient[n]) = 0 /\ Len(toServer[n]) = 0
      BY <3>1, EmptyLen DEF Callbacks
    <3>3. Enough(n)
      BY <3>1, <3>2, EmptyTraffic DEF Enough
    <3> QED
      BY <3>1, <3>3, EmptyTraffic DEF Traffic, Phase
  <2> QED
    BY <2>1, <2>2 DEF DueInv, TrafficInv, PhaseInv
<1>2. Inv /\ TypeInv' /\ DueInv /\ [Next]_vars => DueInv'
  <2> SUFFICES ASSUME Inv, TypeInv', DueInv, [Next]_vars PROVE DueInv'
    OBVIOUS
  <2>1. TypeInv /\ EndsInv /\ KindInv /\ TrafficInv /\ PhaseInv
    BY DEF Inv, DueInv
  <2>2. EndsInv' /\ KindInv' /\ KindsStay /\ PhaseInv'
    BY <2>1, EndsStep, KindStep, PhaseStep
  <2>3. TrafficInv'
    BY <2>1, <2>2, WireMoves, TrafficMoves DEF TrafficInv
  <2> QED
    BY <2>2, <2>3 DEF DueInv
<1>3. TypeInv /\ HeldInv /\ TableInv /\ AnswerInv => Inv
  BY DEF Inv
<1> QED
  BY <1>1, <1>2, <1>3, TypeInvariance, HeldInvariance, TableInvariance, AnswerInvariance, PTL DEF Spec

\* As long as its channel and its connection stay a call that waits has something to come, for
\* any number of calls, channel objects and numbers, whatever the chain, the answers and the
\* exceptions of the server do in between (sendRpc, resolveRPC, setClosed, parseFrames); but
\* for a number that a frame of a replaced object crossed and whose Close was skipped.
THEOREM NeverStuckHolds == Spec => []NeverStuck
<1>1. TypeInv /\ HeldInv /\ TableInv /\ AnswerInv /\ DueInv => NeverStuck
  BY DueImpliesNeverStuck DEF Inv
<1> QED
  BY <1>1, TypeInvariance, HeldInvariance, TableInvariance, AnswerInvariance, DueInvariance, PTL
=============================================================================
