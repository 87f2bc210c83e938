---------------------------- MODULE ContractStore ----------------------------
(***************************************************************************)
(* One row of contract_negotiations and the clients that work on it at the *)
(* same time (dsp/persistence/backends/sqlite/contract_saver.go).          *)
(*                                                                         *)
(* The row carries a `locked' column.  GetContract with WithRW sets it and *)
(* returns a private copy; PutContract writes the whole copy back and      *)
(* clears it; ReleaseContract only clears it, for whoever asks.  The three *)
(* kinds of clients use it differently:                                    *)
(*   Handlers  processMessage     (dsp/contract_handlers.go)               *)
(*   Callers   sendContractMessage (dsp/control/contracts.go)              *)
(*   Workers   reconcileEntry, terminateAttempt (statemachine/reconciler.go)*)
(* What a message or a call does to the negotiation is abstracted to which *)
(* state it moves to and whether it attaches an agreement.                 *)
(***************************************************************************)
EXTENDS ContractStates, FiniteSets

CONSTANTS
  Handlers,      \* concurrent HTTP requests about this negotiation
  Callers,       \* concurrent control-plane calls about it
  Workers,       \* reconciler workers
  Agreements     \* the agreement IDs that can be drawn (uuid.New)

Clients == Handlers \cup Callers \cup Workers

NoAgreement == "none"

ASSUME ClientsDisjoint ==
  /\ Handlers \cap Callers = {}
  /\ Handlers \cap Workers = {}
  /\ Callers \cap Workers = {}

ASSUME NoAgreementAssumption == NoAgreement \notin Agreements

VARIABLES
  row,         \* the stored columns that matter: state and agreement_id
  locked,      \* the locked column
  agreements,  \* the IDs in the agreements table
  issued,      \* the agreement IDs drawn so far
  pc,          \* where each client is
  copy         \* each client's *contract.Negotiation

vars == <<row, locked, agreements, issued, pc, copy>>

\* The columns of the row, and a client's copy of them with its flags.
Columns == [state: States, agreement: Agreements \cup {NoAgreement}]

Copies ==
  [state: States, agreement: Agreements \cup {NoAgreement},
   modified: BOOLEAN, newAgreement: BOOLEAN]

\* contract.FromModel: the flags are not stored.
FromModel(r) ==
  [state |-> r.state, agreement |-> r.agreement,
   modified |-> FALSE, newAgreement |-> FALSE]

\* contract.ToModel.
ToModel(n) == [state |-> n.state, agreement |-> n.agreement]

TypeOK ==
  /\ row \in Columns
  /\ locked \in BOOLEAN
  /\ agreements \subseteq Agreements
  /\ issued \subseteq Agreements
  /\ pc \in [Clients -> {"idle", "held", "ready", "stored", "failed"}]
  /\ copy \in [Clients -> Copies]

Init ==
  /\ row = [state |-> "INITIAL", agreement |-> NoAgreement]
  /\ locked = FALSE
  /\ agreements = {}
  /\ issued = {}
  /\ pc = [c \in Clients |-> "idle"]
  /\ copy = [c \in Clients |-> FromModel(row)]

-----------------------------------------------------------------------------
(* contract_saver.go                                                       *)

\* The row's agreement_id refers to an agreement that is not stored (yet).
Dangling == row.agreement # NoAgreement /\ row.agreement \notin agreements

\* Mutant: the UPDATE without its WHERE locked = false.
GetContractIgnoringLock(c) ==
  /\ pc[c] = "idle"
  /\ ~Dangling
  /\ locked' = TRUE
  /\ pc' = [pc EXCEPT ![c] = "held"]
  /\ copy' = [copy EXCEPT ![c] = FromModel(row)]
  /\ UNCHANGED <<row, agreements, issued>>

\* Mutant: the agreement is not read along with the row.
GetContractWithoutAgreement(c) ==
  /\ pc[c] = "idle"
  /\ ~locked
  /\ locked' = TRUE
  /\ pc' = [pc EXCEPT ![c] = "held"]
  /\ copy' = [copy EXCEPT ![c] = FromModel(row)]
  /\ UNCHANGED <<row, agreements, issued>>

\* getContractLocked: UPDATE ... SET locked = true WHERE locked = false,
\* then the agreement is read.
GetContract(c) ==
  /\ pc[c] = "idle"
  /\ ~locked
  /\ ~Dangling
  /\ locked' = TRUE
  /\ pc' = [pc EXCEPT ![c] = "held"]
  /\ copy' = [copy EXCEPT ![c] = FromModel(row)]
  /\ UNCHANGED <<row, agreements, issued>>

\* getContractLocked: the same UPDATE, but SELECT finds no agreement: the
\* error is returned and `locked' stays set.
GetContractDangling(c) ==
  /\ pc[c] = "idle"
  /\ ~locked
  /\ Dangling
  /\ locked' = TRUE
  /\ UNCHANGED <<row, agreements, issued, pc, copy>>

\* Mutant: the newAgreement flag is not looked at before PutAgreement.
PutContractThenAgreement(c) ==
  /\ pc[c] = "ready"
  /\ row' = IF copy[c].modified THEN ToModel(copy[c]) ELSE row
  /\ locked' = FALSE
  /\ pc' = [pc EXCEPT ![c] = "stored"]
  /\ UNCHANGED <<agreements, issued, copy>>

\* Mutant: processMessage forgets `released = true' after storeNegotiation.
PutContractThenRelease(c) ==
  /\ pc[c] = "ready"
  /\ row' = IF copy[c].modified THEN ToModel(copy[c]) ELSE row
  /\ locked' = FALSE
  /\ pc' = [pc EXCEPT ![c] = IF copy[c].newAgreement THEN "stored"
                             ELSE IF c \in Handlers THEN "failed" ELSE "idle"]
  /\ UNCHANGED <<agreements, issued, copy>>

\* PutContract: an unmodified negotiation is only released; a modified one
\* overwrites the row, and Locked is always written as false.
PutContract(c) ==
  /\ pc[c] = "ready"
  /\ row' = IF copy[c].modified THEN ToModel(copy[c]) ELSE row
  /\ locked' = FALSE
  /\ pc' = [pc EXCEPT ![c] = IF copy[c].newAgreement THEN "stored" ELSE "idle"]
  /\ UNCHANGED <<agreements, issued, copy>>

\* ReleaseContract: clears `locked' by primary key, whoever set it.  A
\* handler defers it for every return before storeNegotiation has succeeded,
\* a worker (Rollback) for every return before Commit has.
ReleaseContract(c) ==
  /\ \/ pc[c] \in {"held", "ready"} /\ c \in Handlers \cup Workers
     \/ pc[c] = "failed"
  /\ locked' = FALSE
  /\ pc' = [pc EXCEPT ![c] = "idle"]
  /\ UNCHANGED <<row, agreements, issued, copy>>

\* storeNegotiation and sendContractMessage: the agreement is inserted after
\* PutContract has given the row back.
PutAgreement(c) ==
  /\ pc[c] = "stored"
  /\ agreements' = agreements \cup {copy[c].agreement}
  /\ pc' = [pc EXCEPT ![c] = "idle"]
  /\ UNCHANGED <<row, locked, issued, copy>>

\* The insert fails (a database error, a cancelled request).  processMessage
\* has not set `released' yet, so its deferred function will release.
PutAgreementFails(c) ==
  /\ pc[c] = "stored"
  /\ pc' = [pc EXCEPT ![c] = IF c \in Handlers THEN "failed" ELSE "idle"]
  /\ UNCHANGED <<row, locked, agreements, issued, copy>>

-----------------------------------------------------------------------------
(* What the clients do with their copy                                     *)

\* Mutant: the state is set without consulting validTransitions.
AdvanceAnywhere(c, target) ==
  /\ pc[c] = "held"
  /\ c \in Handlers \cup Workers
  /\ pc' = [pc EXCEPT ![c] = "ready"]
  /\ copy' = [copy EXCEPT ![c].state = target, ![c].modified = TRUE]
  /\ UNCHANGED <<row, locked, agreements, issued>>

\* Recv accepts a message: verifyAndTransform moves the state.
Advance(c, target) ==
  /\ pc[c] = "held"
  /\ c \in Handlers \cup Workers
  /\ target \in validTransitions[copy[c].state]
  /\ pc' = [pc EXCEPT ![c] = "ready"]
  /\ copy' = [copy EXCEPT ![c].state = target, ![c].modified = TRUE]
  /\ UNCHANGED <<row, locked, agreements, issued>>

\* A handler attaches an agreement together with its move: the received one
\* on the way to AGREED, or a fresh one when an auto-accepting provider
\* answers a REQUESTED or ACCEPTED with sendContractAgreement.
AdvanceWithAgreement(c, target, a) ==
  /\ pc[c] = "held"
  /\ c \in Handlers
  /\ copy[c].state \in {"REQUESTED", "OFFERED", "ACCEPTED"}
  /\ target \in validTransitions[copy[c].state]
  /\ target \in {"REQUESTED", "ACCEPTED", "AGREED"}
  /\ a \notin issued
  /\ issued' = issued \cup {a}
  /\ pc' = [pc EXCEPT ![c] = "ready"]
  /\ copy' = [copy EXCEPT ![c] =
       [state |-> target, agreement |-> a, modified |-> TRUE, newAgreement |-> TRUE]]
  /\ UNCHANGED <<row, locked, agreements>>

\* sendContractMessage: Send only enqueues an entry, the copy is unmodified.
Send(c) ==
  /\ pc[c] = "held"
  /\ c \in Callers
  /\ pc' = [pc EXCEPT ![c] = "ready"]
  /\ UNCHANGED <<row, locked, agreements, issued, copy>>

\* ContractAgree: Send in REQUESTED or ACCEPTED draws a new agreement.
SendAgreement(c, a) ==
  /\ pc[c] = "held"
  /\ c \in Callers
  /\ copy[c].state \in {"REQUESTED", "ACCEPTED"}
  /\ a \notin issued
  /\ issued' = issued \cup {a}
  /\ pc' = [pc EXCEPT ![c] = "ready"]
  /\ copy' = [copy EXCEPT ![c].agreement = a, ![c].modified = TRUE,
                          ![c].newAgreement = TRUE]
  /\ UNCHANGED <<row, locked, agreements>>

\* The client returns without releasing: a control call refused because of
\* the state or a failing Send (contracts.go), or a handler or caller whose
\* request context is cancelled, so that neither PutContract nor the deferred
\* ReleaseContract reaches the database.  Workers run WithoutCancel.
LeaveLocked(c) ==
  /\ pc[c] \in {"held", "ready", "failed"}
  /\ c \in Handlers \cup Callers
  /\ pc' = [pc EXCEPT ![c] = "idle"]
  /\ UNCHANGED <<row, locked, agreements, issued, copy>>

\* The process dies and is restarted on the same database file: the clients
\* are gone, the row and its `locked' column stay.
Crash ==
  /\ \E c \in Clients : pc[c] # "idle"
  /\ pc' = [c \in Clients |-> "idle"]
  /\ UNCHANGED <<row, locked, agreements, issued, copy>>

\* What the clients do when nothing goes wrong around them.
Work(c) ==
  \/ GetContract(c) \/ GetContractDangling(c)
  \/ PutContract(c) \/ ReleaseContract(c) \/ PutAgreement(c)
  \/ Send(c)
  \/ \E target \in States : Advance(c, target)
  \/ \E target \in States, a \in Agreements : AdvanceWithAgreement(c, target, a)
  \/ \E a \in Agreements : SendAgreement(c, a)

Next ==
  \/ \E c \in Clients : Work(c) \/ PutAgreementFails(c) \/ LeaveLocked(c)
  \/ Crash

Spec == Init /\ [][Next]_vars

\* The same clients with no failing insert, no refused or cancelled request
\* and no crash.
FaultFreeSpec == Init /\ [][\E c \in Clients : Work(c)]_vars

-----------------------------------------------------------------------------
(* Properties                                                              *)

Holding(c) == pc[c] \in {"held", "ready"}

\* No two clients work on a read-write copy of the row at the same time, and
\* while one does the column says so: what GetContract WithRW is for
\* (contract_saver.go getContractLocked, PutContract, ReleaseContract).
MutualExclusion ==
  \A c \in Clients :
    Holding(c) => /\ locked
                  /\ \A d \in Clients : Holding(d) => c = d

\* PutContract writes the whole row, so it must not overwrite what another
\* client stored after this one had read it: as long as a client holds its
\* copy, the row still allows the move the client is about to make.
NoLostUpdate ==
  \A c \in Clients :
    /\ pc[c] = "held" => copy[c] = FromModel(row)
    /\ pc[c] = "ready" =>
         /\ copy[c].state \in {row.state} \cup validTransitions[row.state]
         /\ ~copy[c].modified => ToModel(copy[c]) = row

Lifecycle == INSTANCE ContractLifecycle
               WITH state <- row.state, agreement <- row.agreement

\* For an outside reader, the row behaves as one negotiation that moves
\* atomically along validTransitions and whose agreement is fixed from AGREED
\* on, however the clients' steps interleave, fail or are cut short.
RefinesLifecycle == Lifecycle!Spec

\* Nobody works on a negotiation whose agreement is not in the agreements
\* table, although PutContract makes the row available before PutAgreement
\* has stored it (storeNegotiation, sendContractMessage), and although a
\* failed insert makes processMessage release a lock it no longer owns.
AgreementStored == \A c \in Clients : Holding(c) => ~Dangling

\* Whenever `locked' is set, some client is going to clear it: the handlers
\* and the reconciler say they release on every path that does not commit.
NoLeakedLock == locked => \E c \in Clients : Holding(c)

-----------------------------------------------------------------------------
(* The strengthening that makes the properties inductive                   *)

\* An agreement that a client is about to store is new to the table, and a
\* client that attaches none keeps the one of the row.
AgreementFresh ==
  /\ agreements \subseteq issued
  /\ \A c \in Clients : Holding(c) =>
       IF copy[c].newAgreement
         THEN copy[c].agreement \in issued \ agreements
         ELSE copy[c].agreement = row.agreement

\* A ready copy replaces the agreement only on a move that allows it.
AgreementMove ==
  \A c \in Clients : pc[c] = "ready" /\ copy[c].agreement # row.agreement =>
    /\ row.state \in {"REQUESTED", "OFFERED", "ACCEPTED"}
    /\ copy[c].state \in {"REQUESTED", "ACCEPTED", "AGREED"}
    /\ copy[c].modified

\* From PutContract until the insert succeeds the row is dangling, and that
\* keeps every other client out although the row is unlocked.
InsertWindow ==
  \A c \in Clients : pc[c] \in {"stored", "failed"} =>
    /\ Dangling
    /\ row.agreement = copy[c].agreement
    /\ row.agreement \in issued
    /\ \A d \in Clients : d # c => pc[d] = "idle"

IndInv ==
  /\ TypeOK
  /\ MutualExclusion
  /\ NoLostUpdate
  /\ AgreementStored
  /\ AgreementFresh
  /\ AgreementMove
  /\ InsertWindow

=============================================================================
