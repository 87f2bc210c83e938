----------------------------- MODULE Negotiation -----------------------------
(***************************************************************************)
(* The contract negotiation state machine: what a *contract.Negotiation    *)
(* becomes when it receives a message (Recv) and which message it sends    *)
(* next (Send), as operators on records (dsp/statemachine/                 *)
(* contract_transitions.go and contract_messages.go, dsp/contract/         *)
(* negotiation.go).                                                        *)
(*                                                                         *)
(* Offers and their policies are left out: no decision of the code depends *)
(* on them but for the dataset lookup, which is the input `found'.         *)
(***************************************************************************)
EXTENDS ContractStates, Dataspace

\* The two roots a connector offers: the API itself and its /callback prefix.
Bases == {"root", "callback"}

-----------------------------------------------------------------------------
(* The negotiation                                                         *)

\* contract.New: a negotiation that was not stored yet has no row ID.
New(role, ppid, cpid, callback, self, autoAccept) ==
  [ id |-> 0,
    state |-> "INITIAL", ppid |-> ppid, cpid |-> cpid, agreement |-> emptyUUID,
    callback |-> callback, self |-> self, role |-> role, autoAccept |-> autoAccept,
    initial |-> FALSE, modified |-> TRUE, newAgreement |-> FALSE ]

\* Negotiation.ToModel: the columns that are stored, `locked' always as false.
ToModel(n) ==
  [ lock |-> "free",
    state |-> n.state, ppid |-> n.ppid, cpid |-> n.cpid, agreement |-> n.agreement,
    callback |-> n.callback, self |-> n.self, role |-> n.role,
    autoAccept |-> n.autoAccept ]

\* contract.FromModel of the row with the given ID: the flags start out false.
FromModel(r, id) ==
  [ id |-> id,
    state |-> r.state, ppid |-> r.ppid, cpid |-> r.cpid, agreement |-> r.agreement,
    callback |-> r.callback, self |-> r.self, role |-> r.role,
    autoAccept |-> r.autoAccept,
    initial |-> FALSE, modified |-> FALSE, newAgreement |-> FALSE ]

LocalPID(n) == IF n.role = "consumer" THEN n.cpid ELSE n.ppid

RemotePID(n) == IF n.role = "consumer" THEN n.ppid ELSE n.cpid

SetAgreement(n, a) ==
  [n EXCEPT !.agreement = a, !.newAgreement = TRUE, !.modified = TRUE]

\* Negotiation.SetState: whether the table allows it, and its effect.
CanSetState(n, state) == state \in validTransitions[n.state]

SetState(n, state) == [n EXCEPT !.state = state, !.modified = TRUE]

-----------------------------------------------------------------------------
(* Receiving                                                               *)

Accept(n) == [ok |-> TRUE, neg |-> n]

Reject(n) == [ok |-> FALSE, neg |-> n]

\* verifyAndTransform: both PIDs must match, then callback and state are set.
verifyAndTransform(n, m, callback, target) ==
  IF m.ppid = n.ppid /\ m.cpid = n.cpid /\ CanSetState(n, target)
    THEN Accept(SetState([n EXCEPT !.callback = callback], target))
    ELSE Reject(n)

\* processTermination.
processTermination(n, m) == verifyAndTransform(n, m, n.callback, "TERMINATED")

\* A message may name the PID that its receiver has not learned yet.
BackfillProvider(n, m) ==
  IF n.ppid = emptyUUID /\ m.ppid # emptyUUID
    THEN [n EXCEPT !.ppid = m.ppid, !.modified = TRUE] ELSE n

BackfillConsumer(n, m) ==
  IF n.cpid = emptyUUID /\ m.cpid # emptyUUID
    THEN [n EXCEPT !.cpid = m.cpid, !.modified = TRUE] ELSE n

\* ContractNegotiationInitial.processContractOffer: no PID is compared, and
\* the provider PID of the offer is not taken over.
processContractOffer(n, fresh) ==
  Accept([SetState(n, "OFFERED")
            EXCEPT !.cpid = IF n.cpid = emptyUUID THEN fresh ELSE n.cpid,
                   !.initial = TRUE])

\* ContractNegotiationInitial.processContractRequest: the provider PID is
\* drawn anew, replacing the one the row was stored under.
processContractRequest(n, fresh, found) ==
  IF found
    THEN Accept([SetState(n, "REQUESTED") EXCEPT !.ppid = fresh, !.initial = TRUE])
    ELSE Reject(n)

InitialRecv(n, m, fresh, found) ==
  CASE m.type = "request" -> processContractRequest(n, fresh, found)
    [] m.type = "offer"   -> processContractOffer(n, fresh)
    [] OTHER              -> Reject(n)

\* Mutant: the agreement of the message is not attached.
RequestedRecvDropsAgreement(n, m) ==
  CASE m.type = "offer" ->
         verifyAndTransform(BackfillProvider(n, m), m, m.callback, "OFFERED")
    [] m.type = "agreement" ->
         verifyAndTransform(BackfillProvider(n, m), m, m.callback, "AGREED")
    [] m.type = "termination" -> processTermination(n, m)
    [] OTHER -> Reject(n)

RequestedRecv(n, m) ==
  CASE m.type = "offer" ->
         verifyAndTransform(BackfillProvider(n, m), m, m.callback, "OFFERED")
    [] m.type = "agreement" ->
         verifyAndTransform(SetAgreement(BackfillProvider(n, m), m.agreement), m,
                            m.callback, "AGREED")
    [] m.type = "termination" -> processTermination(n, m)
    [] OTHER -> Reject(n)

OfferedRecv(n, m) ==
  CASE m.type = "request" ->
         verifyAndTransform(BackfillConsumer(n, m), m, m.callback, "REQUESTED")
    [] m.type = "event" /\ m.event = "ACCEPTED" ->
         verifyAndTransform(n, m, n.callback, "ACCEPTED")
    [] m.type = "termination" -> processTermination(n, m)
    [] OTHER -> Reject(n)

AcceptedRecv(n, m) ==
  CASE m.type = "agreement" ->
         verifyAndTransform(SetAgreement(n, m.agreement), m, m.callback, "AGREED")
    [] m.type = "termination" -> processTermination(n, m)
    [] OTHER -> Reject(n)

AgreedRecv(n, m) ==
  CASE m.type = "verification" -> verifyAndTransform(n, m, n.callback, "VERIFIED")
    [] m.type = "termination" -> processTermination(n, m)
    [] OTHER -> Reject(n)

VerifiedRecv(n, m) ==
  CASE m.type = "event" /\ m.event = "FINALIZED" ->
         verifyAndTransform(n, m, n.callback, "FINALIZED")
    [] m.type = "termination" -> processTermination(n, m)
    [] OTHER -> Reject(n)

\* GetContractNegotiation(...).Recv(m).  FINALIZED and TERMINATED are final.
Recv(n, m, fresh, found) ==
  CASE n.state = "INITIAL"   -> InitialRecv(n, m, fresh, found)
    [] n.state = "REQUESTED" -> RequestedRecv(n, m)
    [] n.state = "OFFERED"   -> OfferedRecv(n, m)
    [] n.state = "ACCEPTED"  -> AcceptedRecv(n, m)
    [] n.state = "AGREED"    -> AgreedRecv(n, m)
    [] n.state = "VERIFIED"  -> VerifiedRecv(n, m)
    [] OTHER                 -> Reject(n)

-----------------------------------------------------------------------------
(* Sending                                                                 *)

\* A message as the peer decodes it.
Message(n, type, event) ==
  [ type |-> type, event |-> event, ppid |-> n.ppid, cpid |-> n.cpid,
    agreement |-> IF type = "agreement" THEN n.agreement ELSE emptyUUID,
    callback |-> n.self ]

\* makeContractRequestFunction: the ReconciliationEntry an applyFunc adds.
\* The URL is the peer's callback root, the PID in the path and the message.
Entry(n, pid, type, event, target) ==
  [ entityID |-> LocalPID(n), target |-> target,
    base |-> n.callback, pid |-> pid, msg |-> Message(n, type, event) ]

\* What Send returns: the negotiation it leaves and what apply() adds.
Sends(n, e) == [ok |-> TRUE, neg |-> n, entries |-> <<e>>]

SendsNothing(n) == [ok |-> TRUE, neg |-> n, entries |-> <<>>]

SendFails(n) == [ok |-> FALSE, neg |-> n, entries |-> <<>>]

sendContractRequest(n) ==
  Sends(n, Entry(n, n.ppid, "request", "none", "REQUESTED"))

sendContractOffer(n) ==
  Sends(n, Entry(n, n.cpid, "offer", "none", "OFFERED"))

\* Every call draws a new agreement ID.
sendContractAgreement(n, fresh) ==
  LET an == SetAgreement(n, fresh)
  IN  Sends(an, Entry(an, an.cpid, "agreement", "none", "AGREED"))

sendContractEvent(n, pid, state) == Sends(n, Entry(n, pid, "event", state, state))

\* Mutant: the path names the sender's own PID.
sendContractVerificationToSelf(n) ==
  Sends(n, Entry(n, n.cpid, "verification", "none", "VERIFIED"))

sendContractVerification(n) ==
  Sends(n, Entry(n, n.ppid, "verification", "none", "VERIFIED"))

\* ContractNegotiationInitial.Send: exactly one PID must be known.
InitialSend(n, found) ==
  CASE n.cpid # emptyUUID /\ n.ppid = emptyUUID -> sendContractRequest(n)
    [] n.cpid = emptyUUID /\ n.ppid # emptyUUID /\ found -> sendContractOffer(n)
    [] OTHER -> SendFails(n)

\* GetContractNegotiation(...).Send().
Send(n, fresh, found) ==
  CASE n.state = "INITIAL" -> InitialSend(n, found)
    [] n.state = "REQUESTED" /\ n.initial ->
         sendContractOffer([n EXCEPT !.initial = FALSE])
    [] n.state = "REQUESTED" /\ ~n.initial -> sendContractAgreement(n, fresh)
    [] n.state = "OFFERED" /\ n.initial ->
         sendContractRequest([n EXCEPT !.initial = FALSE])
    [] n.state = "OFFERED" /\ ~n.initial -> sendContractEvent(n, n.ppid, "ACCEPTED")
    [] n.state = "ACCEPTED" -> sendContractAgreement(n, fresh)
    [] n.state = "AGREED"   -> sendContractVerification(n)
    [] n.state = "VERIFIED" -> sendContractEvent(n, n.cpid, "FINALIZED")
    [] OTHER -> SendsNothing(n)

\* ContractTerminate: the entry is built from a read-only copy in any state.
TerminationEntry(n) == Entry(n, RemotePID(n), "termination", "none", "TERMINATED")

-----------------------------------------------------------------------------
(* Routing and acknowledgements                                            *)

\* setupContractEndpoints: which handler, if any, a URL reaches.
Route(base, pid, type) ==
  CASE type = "termination" -> "any"
    [] base = "root" /\ type = "request" /\ pid = emptyUUID -> "newRequest"
    [] base = "root" /\ type = "offer" /\ pid = emptyUUID -> "newOffer"
    [] base = "root" /\ type = "request" /\ pid # emptyUUID -> "provider"
    [] base = "root" /\ type \in {"event", "verification"} -> "provider"
    [] base = "callback" /\ type = "offer" /\ pid # emptyUUID -> "consumer"
    [] base = "callback" /\ type \in {"agreement", "event"} -> "consumer"
    [] OTHER -> "none"

\* GetContract's WHERE clause with WithRolePID: only the PID column is compared.
Matches(r, role, pid) ==
  pid # emptyUUID /\ pid = IF role = "provider" THEN r.ppid ELSE r.cpid

\* ApplyResponse: only the missing PID is learned, and only from an
\* acknowledgement that names the known one.
ApplyResponse(n, ack) ==
  CASE n.ppid = emptyUUID /\ ack.cpid = n.cpid /\ ack.ppid # emptyUUID ->
         [n EXCEPT !.ppid = ack.ppid, !.modified = TRUE]
    [] n.cpid = emptyUUID /\ ack.ppid = n.ppid /\ ack.cpid # emptyUUID ->
         [n EXCEPT !.cpid = ack.cpid, !.modified = TRUE]
    [] OTHER -> n

=============================================================================
