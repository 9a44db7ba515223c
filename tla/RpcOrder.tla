------------------------------ MODULE RpcOrder ------------------------------
(***************************************************************************)
(* What an application may rely on when it calls the methods of channels:  *)
(* a call is outstanding from its invocation to the moment its promise is  *)
(* settled; of the outstanding calls of a channel only the oldest can be   *)
(* fulfilled, any one may fail, and closing rejects a run of the oldest.   *)
(* ChannelRpc implements this with its queue, its write chain, its callback *)
(* list and the server.                                                    *)
(***************************************************************************)
EXTENDS Naturals, Sequences

CONSTANTS Call, Chan

VARIABLES
    outstanding,  \* per channel, the calls not settled, oldest first
    promise       \* the state of the promise each call returned

vars == <<outstanding, promise>>

Init ==
    /\ outstanding = [ch \in Chan |-> <<>>]
    /\ promise = [c \in Call |-> "none"]

Issue(c, ch) ==
    /\ promise[c] = "none"
    /\ promise' = [promise EXCEPT ![c] = "pending"]
    /\ outstanding' = [outstanding EXCEPT ![ch] = Append(@, c)]

Refuse(c) ==
    /\ promise[c] = "none"
    /\ promise' = [promise EXCEPT ![c] = "rejected"]
    /\ UNCHANGED outstanding

Fulfil(ch) ==
    /\ outstanding[ch] # <<>>
    /\ promise[Head(outstanding[ch])] = "pending"
    /\ promise' = [promise EXCEPT ![Head(outstanding[ch])] = "resolved"]
    /\ outstanding' = [outstanding EXCEPT ![ch] = Tail(@)]

Without(s, i) == SubSeq(s, 1, i - 1) \o SubSeq(s, i + 1, Len(s))

Fail(ch, i) ==
    /\ promise[outstanding[ch][i]] = "pending"
    /\ promise' = [promise EXCEPT ![outstanding[ch][i]] = "rejected"]
    /\ outstanding' = [outstanding EXCEPT ![ch] = Without(@, i)]

\* Closing: each channel loses the oldest n[ch] of its outstanding calls.
Cuts == [Chan -> UNION {0 .. Len(outstanding[ch]) : ch \in Chan}]
Lost(n) == UNION {{outstanding[ch][i] : i \in 1 .. n[ch]} : ch \in Chan}
Abandon(n) ==
    /\ promise' = [c \in Call |-> IF c \in Lost(n) THEN "rejected" ELSE promise[c]]
    /\ outstanding' = [ch \in Chan |-> SubSeq(outstanding[ch], n[ch] + 1, Len(outstanding[ch]))]

Next ==
    \/ \E c \in Call : Refuse(c) \/ \E ch \in Chan : Issue(c, ch)
    \/ \E ch \in Chan : Fulfil(ch) \/ \E i \in DOMAIN outstanding[ch] : Fail(ch, i)
    \/ \E n \in Cuts : /\ \A ch \in Chan : n[ch] <= Len(outstanding[ch])
                       /\ Abandon(n)

Spec == Init /\ [][Next]_vars
=============================================================================
