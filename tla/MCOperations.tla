---------------------------- MODULE MCOperations -----------------------------
(* Operations for TLC: three operations of any kind, one loss of the connection. *)
(* The operations are numbers; which is which does not matter, so they come in   *)
(* the order of their kinds.  The two channels share nothing but the connection, *)
(* so the operations are all on the one or all on the other.                     *)
EXTENDS Operations

Weight(o) ==
    2 * (CASE kind[o] = "declare" -> 0 [] kind[o] = "delete" -> 1 [] kind[o] = "rpc" -> 2
           [] kind[o] = "publish" -> 3 [] kind[o] = "confirmed" -> 4)
      + (IF o \in bad THEN 1 ELSE 0)

MCInit ==
    /\ Init
    /\ \A o, p \in Op : o < p => Weight(o) <= Weight(p)
    /\ \A o, p \in Op : OnOps(o) = OnOps(p)
MCSpec == MCInit /\ [][Next]_vars /\ WF_vars(Jobs) /\ WF_vars(Writes) /\ WF_vars(Broker)
=============================================================================
