-------------------------- MODULE MCNegotiationPeers --------------------------
(* NegotiationPeers for TLC.                                                *)
EXTENDS NegotiationPeers, TLC

NoService == [s \in Roles |-> FALSE]
BothServices == [s \in Roles |-> TRUE]

=============================================================================
