------------------------- MODULE ContractStoreProofs -------------------------
(***************************************************************************)
(* Proofs about ContractStore for any number of handlers, control calls,   *)
(* workers and agreement IDs.                                              *)
(***************************************************************************)
EXTENDS ContractStore, TLAPS

\* The inductive invariant holds initially: nobody holds the row.
LEMMA InitIndInv == Init => IndInv
  <1> SUFFICES ASSUME Init PROVE IndInv
    OBVIOUS
  <1>1. TypeOK
    BY DEF Init, TypeOK, Columns, Copies, FromModel, States
  <1>2. MutualExclusion /\ NoLostUpdate /\ AgreementStored /\ AgreementMove /\ InsertWindow
    BY DEF Init, MutualExclusion, NoLostUpdate, AgreementStored, AgreementMove,
           InsertWindow, Holding
  <1>3. AgreementFresh
    BY DEF Init, AgreementFresh, Holding
  <1> QED
    BY <1>1, <1>2, <1>3 DEF IndInv

\* Every entry of validTransitions is a set of states.
LEMMA TransitionsAreStates ==
  \A s \in States : validTransitions[s] \subseteq States
  BY DEF States, validTransitions

\* A client that finds the row unlocked and its agreement stored gets the only copy.
LEMMA GetContractIndInv ==
  ASSUME NEW c \in Clients, IndInv, GetContract(c)
  PROVE  IndInv'
  <1> USE DEF IndInv, GetContract
  <1>1. TypeOK'
    BY  DEF TypeOK, Columns, Copies, FromModel, ToModel
  <1>2. MutualExclusion'
    BY  DEF TypeOK, MutualExclusion, InsertWindow, Holding, Dangling
  <1>3. NoLostUpdate'
    BY  DEF TypeOK, MutualExclusion, NoLostUpdate, InsertWindow, Holding, FromModel, ToModel, Columns, Copies
  <1>4. AgreementStored'
    BY NoAgreementAssumption DEF TypeOK, MutualExclusion, AgreementStored, AgreementFresh, InsertWindow, Holding, Dangling, Columns, Copies
  <1>5. AgreementFresh'
    BY  DEF TypeOK, MutualExclusion, AgreementFresh, InsertWindow, Holding, FromModel, ToModel, Columns, Copies
  <1>6. AgreementMove'
    BY  DEF TypeOK, MutualExclusion, NoLostUpdate, AgreementFresh, AgreementMove, InsertWindow, Holding, FromModel, ToModel, Columns, Copies
  <1>7. InsertWindow'
    BY NoAgreementAssumption DEF TypeOK, MutualExclusion, AgreementFresh, NoLostUpdate, InsertWindow, Holding, Dangling, ToModel, NoAgreement, Columns, Copies
  <1> QED
    BY <1>1, <1>2, <1>3, <1>4, <1>5, <1>6, <1>7

\* A client that finds a dangling agreement leaves the lock set and holds nothing.
LEMMA GetContractDanglingIndInv ==
  ASSUME NEW c \in Clients, IndInv, GetContractDangling(c)
  PROVE  IndInv'
  <1> USE DEF IndInv, GetContractDangling
  <1>1. TypeOK'
    BY  DEF TypeOK, Columns, Copies, FromModel, ToModel
  <1>2. MutualExclusion'
    BY  DEF TypeOK, MutualExclusion, InsertWindow, Holding, Dangling
  <1>3. NoLostUpdate'
    BY  DEF TypeOK, MutualExclusion, NoLostUpdate, InsertWindow, Holding, FromModel, ToModel, Columns, Copies
  <1>4. AgreementStored'
    BY NoAgreementAssumption DEF TypeOK, MutualExclusion, AgreementStored, AgreementFresh, InsertWindow, Holding, Dangling, Columns, Copies
  <1>5. AgreementFresh'
    BY  DEF TypeOK, MutualExclusion, AgreementFresh, InsertWindow, Holding, FromModel, ToModel, Columns, Copies
  <1>6. AgreementMove'
    BY  DEF TypeOK, MutualExclusion, NoLostUpdate, AgreementFresh, AgreementMove, InsertWindow, Holding, FromModel, ToModel, Columns, Copies
  <1>7. InsertWindow'
    BY NoAgreementAssumption DEF TypeOK, MutualExclusion, AgreementFresh, NoLostUpdate, InsertWindow, Holding, Dangling, ToModel, NoAgreement, Columns, Copies
  <1> QED
    BY <1>1, <1>2, <1>3, <1>4, <1>5, <1>6, <1>7

\* Writing a ready copy back ends its owner's hold and opens the insert window.
LEMMA PutContractIndInv ==
  ASSUME NEW c \in Clients, IndInv, PutContract(c)
  PROVE  IndInv'
  <1> USE DEF IndInv, PutContract
  <1>1. TypeOK'
    BY  DEF TypeOK, Columns, Copies, FromModel, ToModel
  <1>2. MutualExclusion'
    BY  DEF TypeOK, MutualExclusion, InsertWindow, Holding, Dangling
  <1>3. NoLostUpdate'
    BY  DEF TypeOK, MutualExclusion, NoLostUpdate, InsertWindow, Holding, FromModel, ToModel, Columns, Copies
  <1>4. AgreementStored'
    BY NoAgreementAssumption DEF TypeOK, MutualExclusion, AgreementStored, AgreementFresh, InsertWindow, Holding, Dangling, Columns, Copies
  <1>5. AgreementFresh'
    BY  DEF TypeOK, MutualExclusion, AgreementFresh, InsertWindow, Holding, FromModel, ToModel, Columns, Copies
  <1>6. AgreementMove'
    BY  DEF TypeOK, MutualExclusion, NoLostUpdate, AgreementFresh, AgreementMove, InsertWindow, Holding, FromModel, ToModel, Columns, Copies
  <1>7. InsertWindow'
    BY NoAgreementAssumption DEF TypeOK, MutualExclusion, AgreementFresh, NoLostUpdate, InsertWindow, Holding, Dangling, ToModel, NoAgreement, Columns, Copies
  <1> QED
    BY <1>1, <1>2, <1>3, <1>4, <1>5, <1>6, <1>7

\* Releasing, even without owning the lock, never frees a row that is held.
LEMMA ReleaseContractIndInv ==
  ASSUME NEW c \in Clients, IndInv, ReleaseContract(c)
  PROVE  IndInv'
  <1> USE DEF IndInv, ReleaseContract
  <1>1. TypeOK'
    BY  DEF TypeOK, Columns, Copies, FromModel, ToModel
  <1>2. MutualExclusion'
    BY  DEF TypeOK, MutualExclusion, InsertWindow, Holding, Dangling
  <1>3. NoLostUpdate'
    BY  DEF TypeOK, MutualExclusion, NoLostUpdate, InsertWindow, Holding, FromModel, ToModel, Columns, Copies
  <1>4. AgreementStored'
    BY NoAgreementAssumption DEF TypeOK, MutualExclusion, AgreementStored, AgreementFresh, InsertWindow, Holding, Dangling, Columns, Copies
  <1>5. AgreementFresh'
    BY  DEF TypeOK, MutualExclusion, AgreementFresh, InsertWindow, Holding, FromModel, ToModel, Columns, Copies
  <1>6. AgreementMove'
    BY  DEF TypeOK, MutualExclusion, NoLostUpdate, AgreementFresh, AgreementMove, InsertWindow, Holding, FromModel, ToModel, Columns, Copies
  <1>7. InsertWindow'
    BY NoAgreementAssumption DEF TypeOK, MutualExclusion, AgreementFresh, NoLostUpdate, InsertWindow, Holding, Dangling, ToModel, NoAgreement, Columns, Copies
  <1> QED
    BY <1>1, <1>2, <1>3, <1>4, <1>5, <1>6, <1>7

\* Storing the agreement closes the insert window.
LEMMA PutAgreementIndInv ==
  ASSUME NEW c \in Clients, IndInv, PutAgreement(c)
  PROVE  IndInv'
  <1> USE DEF IndInv, PutAgreement
  <1>1. TypeOK'
    BY DEF TypeOK, InsertWindow
  <1>2. MutualExclusion'
    BY  DEF TypeOK, MutualExclusion, InsertWindow, Holding, Dangling
  <1>3. NoLostUpdate'
    BY  DEF TypeOK, MutualExclusion, NoLostUpdate, InsertWindow, Holding, FromModel, ToModel, Columns, Copies
  <1>4. AgreementStored'
    BY NoAgreementAssumption DEF TypeOK, MutualExclusion, AgreementStored, AgreementFresh, InsertWindow, Holding, Dangling, Columns, Copies
  <1>5. AgreementFresh'
    BY  DEF TypeOK, MutualExclusion, AgreementFresh, InsertWindow, Holding, FromModel, ToModel, Columns, Copies
  <1>6. AgreementMove'
    BY  DEF TypeOK, MutualExclusion, NoLostUpdate, AgreementFresh, AgreementMove, InsertWindow, Holding, FromModel, ToModel, Columns, Copies
  <1>7. InsertWindow'
    BY NoAgreementAssumption DEF TypeOK, MutualExclusion, AgreementFresh, NoLostUpdate, InsertWindow, Holding, Dangling, ToModel, NoAgreement, Columns, Copies
  <1> QED
    BY <1>1, <1>2, <1>3, <1>4, <1>5, <1>6, <1>7

\* A failed insert leaves the row dangling.
LEMMA PutAgreementFailsIndInv ==
  ASSUME NEW c \in Clients, IndInv, PutAgreementFails(c)
  PROVE  IndInv'
  <1> USE DEF IndInv, PutAgreementFails
  <1>1. TypeOK'
    BY  DEF TypeOK, Columns, Copies, FromModel, ToModel
  <1>2. MutualExclusion'
    BY  DEF TypeOK, MutualExclusion, InsertWindow, Holding, Dangling
  <1>3. NoLostUpdate'
    BY  DEF TypeOK, MutualExclusion, NoLostUpdate, InsertWindow, Holding, FromModel, ToModel, Columns, Copies
  <1>4. AgreementStored'
    BY NoAgreementAssumption DEF TypeOK, MutualExclusion, AgreementStored, AgreementFresh, InsertWindow, Holding, Dangling, Columns, Copies
  <1>5. AgreementFresh'
    BY  DEF TypeOK, MutualExclusion, AgreementFresh, InsertWindow, Holding, FromModel, ToModel, Columns, Copies
  <1>6. AgreementMove'
    BY  DEF TypeOK, MutualExclusion, NoLostUpdate, AgreementFresh, AgreementMove, InsertWindow, Holding, FromModel, ToModel, Columns, Copies
  <1>7. InsertWindow'
    BY NoAgreementAssumption DEF TypeOK, MutualExclusion, AgreementFresh, NoLostUpdate, InsertWindow, Holding, Dangling, ToModel, NoAgreement, Columns, Copies
  <1> QED
    BY <1>1, <1>2, <1>3, <1>4, <1>5, <1>6, <1>7

\* A control call that only enqueues keeps its unmodified copy.
LEMMA SendIndInv ==
  ASSUME NEW c \in Clients, IndInv, Send(c)
  PROVE  IndInv'
  <1> USE DEF IndInv, Send
  <1>1. TypeOK'
    BY  DEF TypeOK, Columns, Copies, FromModel, ToModel
  <1>2. MutualExclusion'
    BY  DEF TypeOK, MutualExclusion, InsertWindow, Holding, Dangling
  <1>3. NoLostUpdate'
    BY  DEF TypeOK, MutualExclusion, NoLostUpdate, InsertWindow, Holding, FromModel, ToModel, Columns, Copies
  <1>4. AgreementStored'
    BY NoAgreementAssumption DEF TypeOK, MutualExclusion, AgreementStored, AgreementFresh, InsertWindow, Holding, Dangling, Columns, Copies
  <1>5. AgreementFresh'
    BY  DEF TypeOK, MutualExclusion, AgreementFresh, InsertWindow, Holding, FromModel, ToModel, Columns, Copies
  <1>6. AgreementMove'
    BY  DEF TypeOK, MutualExclusion, NoLostUpdate, AgreementFresh, AgreementMove, InsertWindow, Holding, FromModel, ToModel, Columns, Copies
  <1>7. InsertWindow'
    BY NoAgreementAssumption DEF TypeOK, MutualExclusion, AgreementFresh, NoLostUpdate, InsertWindow, Holding, Dangling, ToModel, NoAgreement, Columns, Copies
  <1> QED
    BY <1>1, <1>2, <1>3, <1>4, <1>5, <1>6, <1>7

\* Moving the state of a held copy follows the table.
LEMMA AdvanceIndInv ==
  ASSUME NEW c \in Clients, NEW target \in States, IndInv, Advance(c, target)
  PROVE  IndInv'
  <1> USE DEF IndInv, Advance
  <1>1. TypeOK'
    <2>1. copy[c] \in Copies
      BY DEF TypeOK
    <2>2. [copy[c] EXCEPT !.state = target, !.modified = TRUE] \in Copies
      BY <2>1 DEF Copies
    <2>3. copy' \in [Clients -> Copies]
      BY <2>1, <2>2 DEF TypeOK
    <2> QED
      BY <2>3 DEF TypeOK
  <1>2. MutualExclusion'
    BY  DEF TypeOK, MutualExclusion, InsertWindow, Holding, Dangling
  <1>3. NoLostUpdate'
    BY  DEF TypeOK, MutualExclusion, NoLostUpdate, InsertWindow, Holding, FromModel, ToModel, Columns, Copies
  <1>4. AgreementStored'
    BY NoAgreementAssumption DEF TypeOK, MutualExclusion, AgreementStored, AgreementFresh, InsertWindow, Holding, Dangling, Columns, Copies
  <1>5. AgreementFresh'
    BY  DEF TypeOK, MutualExclusion, AgreementFresh, InsertWindow, Holding, FromModel, ToModel, Columns, Copies
  <1>6. AgreementMove'
    BY  DEF TypeOK, MutualExclusion, NoLostUpdate, AgreementFresh, AgreementMove, InsertWindow, Holding, FromModel, ToModel, Columns, Copies
  <1>7. InsertWindow'
    BY NoAgreementAssumption DEF TypeOK, MutualExclusion, AgreementFresh, NoLostUpdate, InsertWindow, Holding, Dangling, ToModel, NoAgreement, Columns, Copies
  <1> QED
    BY <1>1, <1>2, <1>3, <1>4, <1>5, <1>6, <1>7

\* Moving with a new agreement stays within the moves that allow one.
LEMMA AdvanceWithAgreementIndInv ==
  ASSUME NEW c \in Clients, NEW target \in States, NEW a \in Agreements, IndInv, AdvanceWithAgreement(c, target, a)
  PROVE  IndInv'
  <1> USE DEF IndInv, AdvanceWithAgreement
  <1>1. TypeOK'
    BY  DEF TypeOK, Columns, Copies, FromModel, ToModel
  <1>2. MutualExclusion'
    BY  DEF TypeOK, MutualExclusion, InsertWindow, Holding, Dangling
  <1>3. NoLostUpdate'
    BY  DEF TypeOK, MutualExclusion, NoLostUpdate, InsertWindow, Holding, FromModel, ToModel, Columns, Copies
  <1>4. AgreementStored'
    BY NoAgreementAssumption DEF TypeOK, MutualExclusion, AgreementStored, AgreementFresh, InsertWindow, Holding, Dangling, Columns, Copies
  <1>5. AgreementFresh'
    BY  DEF TypeOK, MutualExclusion, AgreementFresh, InsertWindow, Holding, FromModel, ToModel, Columns, Copies
  <1>6. AgreementMove'
    BY  DEF TypeOK, MutualExclusion, NoLostUpdate, AgreementFresh, AgreementMove, InsertWindow, Holding, FromModel, ToModel, Columns, Copies
  <1>7. InsertWindow'
    BY NoAgreementAssumption DEF TypeOK, MutualExclusion, AgreementFresh, NoLostUpdate, InsertWindow, Holding, Dangling, ToModel, NoAgreement, Columns, Copies
  <1> QED
    BY <1>1, <1>2, <1>3, <1>4, <1>5, <1>6, <1>7

\* A ContractAgree attaches a new agreement to an unmoved copy.
LEMMA SendAgreementIndInv ==
  ASSUME NEW c \in Clients, NEW a \in Agreements, IndInv, SendAgreement(c, a)
  PROVE  IndInv'
  <1> USE DEF IndInv, SendAgreement
  <1>1. TypeOK'
    <2>1. copy[c] \in Copies
      BY DEF TypeOK
    <2>2. [copy[c] EXCEPT !.agreement = a, !.modified = TRUE, !.newAgreement = TRUE] \in Copies
      BY <2>1 DEF Copies
    <2>3. copy' \in [Clients -> Copies]
      BY <2>1, <2>2 DEF TypeOK
    <2> QED
      BY <2>3 DEF TypeOK
  <1>2. MutualExclusion'
    BY  DEF TypeOK, MutualExclusion, InsertWindow, Holding, Dangling
  <1>3. NoLostUpdate'
    BY  DEF TypeOK, MutualExclusion, NoLostUpdate, InsertWindow, Holding, FromModel, ToModel, Columns, Copies
  <1>4. AgreementStored'
    BY NoAgreementAssumption DEF TypeOK, MutualExclusion, AgreementStored, AgreementFresh, InsertWindow, Holding, Dangling, Columns, Copies
  <1>5. AgreementFresh'
    BY  DEF TypeOK, MutualExclusion, AgreementFresh, InsertWindow, Holding, FromModel, ToModel, Columns, Copies
  <1>6. AgreementMove'
    BY  DEF TypeOK, MutualExclusion, NoLostUpdate, AgreementFresh, AgreementMove, InsertWindow, Holding, FromModel, ToModel, Columns, Copies
  <1>7. InsertWindow'
    BY NoAgreementAssumption DEF TypeOK, MutualExclusion, AgreementFresh, NoLostUpdate, InsertWindow, Holding, Dangling, ToModel, NoAgreement, Columns, Copies
  <1> QED
    BY <1>1, <1>2, <1>3, <1>4, <1>5, <1>6, <1>7

\* A client that leaves without releasing holds nothing any more.
LEMMA LeaveLockedIndInv ==
  ASSUME NEW c \in Clients, IndInv, LeaveLocked(c)
  PROVE  IndInv'
  <1> USE DEF IndInv, LeaveLocked
  <1>1. TypeOK'
    BY  DEF TypeOK, Columns, Copies, FromModel, ToModel
  <1>2. MutualExclusion'
    BY  DEF TypeOK, MutualExclusion, InsertWindow, Holding, Dangling
  <1>3. NoLostUpdate'
    BY  DEF TypeOK, MutualExclusion, NoLostUpdate, InsertWindow, Holding, FromModel, ToModel, Columns, Copies
  <1>4. AgreementStored'
    BY NoAgreementAssumption DEF TypeOK, MutualExclusion, AgreementStored, AgreementFresh, InsertWindow, Holding, Dangling, Columns, Copies
  <1>5. AgreementFresh'
    BY  DEF TypeOK, MutualExclusion, AgreementFresh, InsertWindow, Holding, FromModel, ToModel, Columns, Copies
  <1>6. AgreementMove'
    BY  DEF TypeOK, MutualExclusion, NoLostUpdate, AgreementFresh, AgreementMove, InsertWindow, Holding, FromModel, ToModel, Columns, Copies
  <1>7. InsertWindow'
    BY NoAgreementAssumption DEF TypeOK, MutualExclusion, AgreementFresh, NoLostUpdate, InsertWindow, Holding, Dangling, ToModel, NoAgreement, Columns, Copies
  <1> QED
    BY <1>1, <1>2, <1>3, <1>4, <1>5, <1>6, <1>7

\* A crash leaves no client holding the row.
LEMMA CrashIndInv ==
  ASSUME IndInv, Crash
  PROVE  IndInv'
  <1> USE DEF IndInv, Crash
  <1>1. TypeOK'
    BY DEF TypeOK
  <1>2. MutualExclusion' /\ NoLostUpdate' /\ AgreementStored' /\ AgreementMove' /\ InsertWindow'
    BY DEF MutualExclusion, NoLostUpdate, AgreementStored, AgreementMove,
           InsertWindow, Holding
  <1>3. AgreementFresh'
    BY DEF AgreementFresh, Holding
  <1> QED
    BY <1>1, <1>2, <1>3

\* A step that changes nothing keeps the invariant.
LEMMA StutterIndInv ==
  ASSUME IndInv, UNCHANGED vars
  PROVE  IndInv'
  BY DEF IndInv, vars, TypeOK, MutualExclusion, NoLostUpdate, AgreementStored,
         AgreementFresh, AgreementMove, InsertWindow, Holding, Dangling

\* Every step of the clients, and every fault, keeps the invariant.
LEMMA NextIndInv == IndInv /\ [Next]_vars => IndInv'
  <1> SUFFICES ASSUME IndInv, [Next]_vars PROVE IndInv'
    OBVIOUS
  <1>1. ASSUME NEW c \in Clients, Work(c) PROVE IndInv'
    <2>1. CASE GetContract(c)          BY <2>1, GetContractIndInv
    <2>2. CASE GetContractDangling(c)  BY <2>2, GetContractDanglingIndInv
    <2>3. CASE PutContract(c)          BY <2>3, PutContractIndInv
    <2>4. CASE ReleaseContract(c)      BY <2>4, ReleaseContractIndInv
    <2>5. CASE PutAgreement(c)         BY <2>5, PutAgreementIndInv
    <2>6. CASE Send(c)                 BY <2>6, SendIndInv
    <2>7. CASE \E target \in States : Advance(c, target)
      BY <2>7, AdvanceIndInv
    <2>8. CASE \E target \in States, a \in Agreements : AdvanceWithAgreement(c, target, a)
      BY <2>8, AdvanceWithAgreementIndInv
    <2>9. CASE \E a \in Agreements : SendAgreement(c, a)
      BY <2>9, SendAgreementIndInv
    <2> QED
      BY <1>1, <2>1, <2>2, <2>3, <2>4, <2>5, <2>6, <2>7, <2>8, <2>9 DEF Work
  <1>2. ASSUME NEW c \in Clients, PutAgreementFails(c) PROVE IndInv'
    BY <1>2, PutAgreementFailsIndInv
  <1>3. ASSUME NEW c \in Clients, LeaveLocked(c) PROVE IndInv'
    BY <1>3, LeaveLockedIndInv
  <1>4. CASE Crash
    BY <1>4, CrashIndInv
  <1>5. CASE UNCHANGED vars
    BY <1>5, StutterIndInv
  <1> QED
    BY <1>1, <1>2, <1>3, <1>4, <1>5 DEF Next

\* The inductive invariant holds in every reachable state of the store.
THEOREM IndInvariant == Spec => []IndInv
  BY InitIndInv, NextIndInv, PTL DEF Spec

\* The row and every client's copy keep their types (contract_saver.go,
\* negotiation.go FromModel and ToModel).
THEOREM TypeCorrect == Spec => []TypeOK
  <1>1. IndInv => TypeOK
    BY DEF IndInv
  <1> QED
    BY <1>1, IndInvariant, PTL

\* At most one client works on a read-write copy, for any number of handlers,
\* control calls and workers, with failing inserts, cancelled requests and
\* crashes at any point (contract_saver.go getContractLocked).
THEOREM MutualExclusionHolds == Spec => []MutualExclusion
  <1>1. IndInv => MutualExclusion
    BY DEF IndInv
  <1> QED
    BY <1>1, IndInvariant, PTL

\* PutContract never overwrites what another client stored in between.
THEOREM NoLostUpdateHolds == Spec => []NoLostUpdate
  <1>1. IndInv => NoLostUpdate
    BY DEF IndInv
  <1> QED
    BY <1>1, IndInvariant, PTL

\* Nobody works on a negotiation whose agreement is not stored.
THEOREM AgreementStoredHolds == Spec => []AgreementStored
  <1>1. IndInv => AgreementStored
    BY DEF IndInv
  <1> QED
    BY <1>1, IndInvariant, PTL

\* A step of the clients is a step of the negotiation's life or invisible to
\* it: only PutContract writes the row.
LEMMA StepRefines ==
  IndInv /\ [Next]_vars => [Lifecycle!Step]_<<row.state, row.agreement>>
  <1> SUFFICES ASSUME IndInv, [Next]_vars
               PROVE  [Lifecycle!Step]_<<row.state, row.agreement>>
    OBVIOUS
  <1>1. ASSUME NEW c \in Clients, PutContract(c)
        PROVE  [Lifecycle!Step]_<<row.state, row.agreement>>
    <2>1. CASE ~copy[c].modified
      BY <1>1, <2>1 DEF PutContract
    <2>2. CASE copy[c].modified
      <3>1. row'.state = copy[c].state /\ row'.agreement = copy[c].agreement
        BY <1>1, <2>2 DEF PutContract, ToModel
      <3>2. copy[c].state \in {row.state} \cup validTransitions[row.state]
        BY <1>1 DEF IndInv, NoLostUpdate, PutContract
      <3>3. copy[c].agreement # row.agreement =>
              /\ row.state \in {"REQUESTED", "OFFERED", "ACCEPTED"}
              /\ copy[c].state \in {"REQUESTED", "ACCEPTED", "AGREED"}
        BY <1>1 DEF IndInv, AgreementMove, PutContract
      <3> QED
        BY <3>1, <3>2, <3>3
        DEF Lifecycle!Step, Lifecycle!validTransitions, validTransitions
    <2> QED
      BY <2>1, <2>2
  <1>2. CASE row' = row
    BY <1>2
  <1> QED
    BY <1>1, <1>2
    DEF Next, Work, vars, GetContract, GetContractDangling, ReleaseContract,
        PutAgreement, PutAgreementFails, Send, Advance, AdvanceWithAgreement,
        SendAgreement, LeaveLocked, Crash

\* Seen from outside, the row is a single negotiation that moves atomically
\* along validTransitions and whose agreement is fixed from AGREED on.
THEOREM Refinement == Spec => RefinesLifecycle
  <1>1. Init => Lifecycle!Init
    BY DEF Init, Lifecycle!Init, NoAgreement
  <1> QED
    BY <1>1, StepRefines, IndInvariant, PTL DEF Spec, RefinesLifecycle, Lifecycle!Spec

=============================================================================
