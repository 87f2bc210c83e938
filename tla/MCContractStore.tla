--------------------------- MODULE MCContractStore ---------------------------
(* ContractStore with small sets of clients, for TLC.                      *)
EXTENDS ContractStore, TLC

\* Clients of one kind are interchangeable, and so are agreement IDs.
Symmetry ==
  Permutations(Handlers) \cup Permutations(Callers) \cup Permutations(Agreements)

=============================================================================
