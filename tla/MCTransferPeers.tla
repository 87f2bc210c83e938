--------------------------- MODULE MCTransferPeers ---------------------------
(* TransferPeers for TLC.                                                   *)
EXTENDS TransferPeers, TLC

\* A basic and a bearer authentication, the latter with a username that it
\* does not need, and an address that no message can carry.
InfosAll ==
  { [url |-> [scheme |-> "https"], auth |-> "BASIC", username |-> "u", password |-> "p"],
    [url |-> [scheme |-> "http"], auth |-> "BEARER", username |-> "u", password |-> "t"],
    [url |-> [scheme |-> "other"], auth |-> "UNSPECIFIED", username |-> "", password |-> ""] }

=============================================================================
