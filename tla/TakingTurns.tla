----------------------------- MODULE TakingTurns -----------------------------
(***************************************************************************)
(* What the shared channel of a session promises (the comments of          *)
(* AMQPSession.opsLock and withOpsChannel): operations take turns, in the  *)
(* order of the calls, and each begins when the one before has ended,      *)
(* however that one ended.                                                 *)
(***************************************************************************)
EXTENDS Naturals, Sequences

CONSTANT Op

VARIABLES
    calls,  \* the operations in the order of their calls
    turn    \* where each is: "none", "waiting", "running" or "over"

vars == <<calls, turn>>

TypeOK == calls \in Seq(Op) /\ turn \in [Op -> {"none", "waiting", "running", "over"}]

Init == calls = <<>> /\ turn = [o \in Op |-> "none"]

Call(o) ==
    /\ turn[o] = "none"
    /\ turn' = [turn EXCEPT ![o] = "waiting"]
    /\ calls' = Append(calls, o)

\* Every operation called before the i-th is over.
IsNext(i) == \A j \in 1 .. (i - 1) : turn[calls[j]] = "over"

Begin(i) ==
    /\ turn[calls[i]] = "waiting" /\ IsNext(i)
    /\ turn' = [turn EXCEPT ![calls[i]] = "running"]
    /\ UNCHANGED calls

\* An operation may also end as it begins.
End(i) ==
    /\ \/ turn[calls[i]] = "running"
       \/ turn[calls[i]] = "waiting" /\ IsNext(i)
    /\ turn' = [turn EXCEPT ![calls[i]] = "over"]
    /\ UNCHANGED calls

Next == (\E o \in Op : Call(o)) \/ (\E i \in DOMAIN calls : Begin(i) \/ End(i))

Spec == Init /\ [][Next]_vars
=============================================================================
