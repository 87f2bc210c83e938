-------------------------- MODULE ContractLifecycle --------------------------
(***************************************************************************)
(* What the contract store promises of one negotiation, whoever works on   *)
(* it: a single value that moves atomically along validTransitions, and an *)
(* agreement that is fixed once the negotiation is AGREED.  ContractStore  *)
(* (many clients of one row) is shown to implement it.                     *)
(***************************************************************************)
EXTENDS ContractStates

VARIABLES state, agreement

Init == state = "INITIAL" /\ agreement = "none"

\* The state follows the table.  An agreement is attached, or replaced by a
\* newer one, only while the parties are still bargaining: never before a
\* request or an offer was made, and never once the negotiation is AGREED.
Step ==
  /\ state' \in {state} \cup validTransitions[state]
  /\ agreement' # agreement => /\ state \in {"REQUESTED", "OFFERED", "ACCEPTED"}
                               /\ state' \in {"REQUESTED", "ACCEPTED", "AGREED"}

Spec == Init /\ [][Step]_<<state, agreement>>

=============================================================================
