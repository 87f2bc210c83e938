--------------------------- MODULE ContractStates ---------------------------
(***************************************************************************)
(* The states of a contract negotiation and the transition table that      *)
(* Negotiation.SetState consults (dsp/contract/negotiation.go,             *)
(* dsp/contract/state.go).                                                 *)
(***************************************************************************)

\* state.go: the members of the States enumeration.
States ==
  {"INITIAL", "REQUESTED", "OFFERED", "ACCEPTED",
   "AGREED", "VERIFIED", "FINALIZED", "TERMINATED"}

\* negotiation.go: validTransitions.
validTransitions ==
  [ INITIAL    |-> {"OFFERED", "REQUESTED", "TERMINATED"},
    REQUESTED  |-> {"OFFERED", "AGREED", "TERMINATED"},
    OFFERED    |-> {"REQUESTED", "ACCEPTED", "TERMINATED"},
    ACCEPTED   |-> {"AGREED", "TERMINATED"},
    AGREED     |-> {"VERIFIED", "TERMINATED"},
    VERIFIED   |-> {"FINALIZED", "TERMINATED"},
    FINALIZED  |-> {},
    TERMINATED |-> {} ]

=============================================================================
