-------------------------------- MODULE Outbox --------------------------------
(***************************************************************************)
(* What the state machines may expect of the reconciler they leave their   *)
(* messages with: while the process runs, an entry that was accepted is    *)
(* pending until it is delivered or given up, once and for all.  Entries   *)
(* that are pending when the process ends are lost.                        *)
(***************************************************************************)
CONSTANT Entries

VARIABLES fate, running

Init ==
  /\ fate = [e \in Entries |-> "new"]
  /\ running = TRUE

Accept(e) ==
  /\ running /\ fate[e] = "new"
  /\ fate' = [fate EXCEPT ![e] = "pending"]
  /\ UNCHANGED running

Settle(e) ==
  /\ running /\ fate[e] = "pending"
  /\ \E outcome \in {"delivered", "givenUp"} : fate' = [fate EXCEPT ![e] = outcome]
  /\ UNCHANGED running

End ==
  /\ running /\ running' = FALSE
  /\ fate' = [e \in Entries |-> IF fate[e] = "pending" THEN "lost" ELSE fate[e]]

Next == End \/ \E e \in Entries : Accept(e) \/ Settle(e)

Spec == Init /\ [][Next]_<<fate, running>>

=============================================================================
