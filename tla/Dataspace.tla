------------------------------ MODULE Dataspace ------------------------------
(***************************************************************************)
(* What the two kinds of exchanges between connectors, negotiations and    *)
(* transfers, have in common (dsp/constants/roles.go).                     *)
(***************************************************************************)
EXTENDS Naturals

Roles == {"consumer", "provider"}

Peer(role) == IF role = "consumer" THEN "provider" ELSE "consumer"

\* PIDs and agreement IDs are natural numbers, 0 being the empty UUID.
emptyUUID == 0

=============================================================================
