------------------------------- MODULE MCServer -------------------------------
(* Server for TLC.                                                          *)
EXTENDS Server, TLC

\* The reconciler is given what the requests and the calls leave with it.
AllEntries == Requests \cup Own

=============================================================================
