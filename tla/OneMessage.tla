------------------------------ MODULE OneMessage -------------------------------
(***************************************************************************)
(* A call of AMQPQueue.consumeOne as its caller and the broker see it, and *)
(* what the caller may rely on.  ConsumeOne is how it goes about it.       *)
(***************************************************************************)
EXTENDS Naturals, Sequences

CONSTANTS
    Message,    \* the messages of the queue
    NoMessage

ASSUME ConsumeOneAssumption ==
    NoMessage \notin Message /\ Message \cap {"none", "timeout", "ended", "failed"} = {}

VARIABLES
    call,      \* the promise of consumeOne, or what it awaits before there is one
    given,     \* the message the call was resolved with
    link,      \* the connection
    consuming, unacked, \* the broker: the consumer, and the message it has
    consumed,  \* the broker: the messages removed from the queue
    overtaken  \* history: messages the callback had in hand when the call settled otherwise

Done == call \in {"resolved", "rejected"}

\* A message that was removed from the queue is the one the call returned, unless the
\* call was settled by something else while the callback was decoding or acknowledging it.
ConsumedIsGiven == Done => consumed \subseteq {given} \cup overtaken

\* When the call settles, the broker has no consumer and no message of it any more.
LeavesNothing == Done /\ link => ~consuming /\ unacked = NoMessage
=============================================================================
