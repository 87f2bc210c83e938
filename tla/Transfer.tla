------------------------------ MODULE Transfer ------------------------------
(***************************************************************************)
(* The transfer request state machine: what a *transfer.Request becomes    *)
(* when it receives a message and what it sends next, as operators on      *)
(* records (dsp/statemachine/transfer_request_transitions.go and           *)
(* transfer_messages.go, dsp/transfer/request.go).                         *)
(*                                                                         *)
(* Only what two connectors reach is here: nothing sets SUSPENDED, and     *)
(* Send of a STARTED transfer has no caller that gets to it.  The pointer  *)
(* publishInfo is the set of what it points to, empty when it is nil; so   *)
(* is the data address of a message.                                       *)
(***************************************************************************)
EXTENDS Dataspace, DataAddress

TransferStates ==
  {"INITIAL", "REQUESTED", "STARTED", "SUSPENDED", "COMPLETED", "TERMINATED"}

validTransferTransitions ==
  [ INITIAL    |-> {"REQUESTED", "TERMINATED"},
    REQUESTED  |-> {"STARTED", "TERMINATED"},
    STARTED    |-> {"SUSPENDED", "COMPLETED", "TERMINATED"},
    SUSPENDED  |-> {"STARTED", "TERMINATED"},
    COMPLETED  |-> {},
    TERMINATED |-> {} ]

\* transfer.New: a request that brings its publish info along is a push.
New(role, ppid, cpid, publishInfo) ==
  [ id |-> 0, state |-> "INITIAL", ppid |-> ppid, cpid |-> cpid, role |-> role,
    publishInfo |-> publishInfo, direction |-> IF publishInfo = {} THEN "PULL" ELSE "PUSH" ]

\* Request.ToModel: `locked' is always written as false.  A row belongs to
\* the connector that is its `role'.
ToModel(t) ==
  [ lock |-> "free", state |-> t.state, ppid |-> t.ppid, cpid |-> t.cpid,
    role |-> t.role, publishInfo |-> t.publishInfo, direction |-> t.direction ]

\* transfer.FromModel of row id.
FromModel(r, id) ==
  [ id |-> id, state |-> r.state, ppid |-> r.ppid, cpid |-> r.cpid,
    role |-> r.role, publishInfo |-> r.publishInfo, direction |-> r.direction ]

CanSetState(t, state) == state \in validTransferTransitions[t.state]

\* Which ID the dataset service knows the transfer's endpoint under, and who
\* runs it: the provider of a pull, the consumer of a push.
Publisher(t) == IF t.direction = "PULL" THEN "provider" ELSE "consumer"

\* Mutant: data is published under the consumer PID.
PublishIdOfConsumer(t) == t.cpid

PublishId(t) == IF t.direction = "PULL" THEN t.ppid ELSE t.cpid

\* Mutant: the roles are swapped.
UnpublishesAtPeer(t) == t.role # Publisher(t)

\* unpublishTransfer calls ShutdownTransfer at this connector.
Unpublishes(t) == t.role = Publisher(t)

-----------------------------------------------------------------------------

Reject(t) == [ok |-> FALSE, req |-> t]

verifyAndTransformTransfer(t, m, target) ==
  IF m.ppid = t.ppid /\ m.cpid = t.cpid /\ CanSetState(t, target)
    THEN [ok |-> TRUE, req |-> [t EXCEPT !.state = target]]
    ELSE Reject(t)

\* The provider PID is the row's own.  That the dataset of a pull is found is
\* left to the caller.
InitialRecv(t, m) ==
  IF m.type = "request"
    THEN verifyAndTransformTransfer(t, [m EXCEPT !.ppid = t.ppid], "REQUESTED")
    ELSE Reject(t)

\* What the address of a message says, if there is one.
InfoOfAddress(m) == {DataAddressToPublishInfo(d) : d \in m.address}

\* A start names the provider PID and, for a pull, the address of the data.
RequestedRecv(t, m) ==
  CASE m.type = "start" ->
         verifyAndTransformTransfer(
           [t EXCEPT !.ppid = IF t.ppid = emptyUUID THEN m.ppid ELSE t.ppid,
                     !.publishInfo = IF @ = {} THEN InfoOfAddress(m) ELSE @], m, "STARTED")
    [] m.type = "termination" -> verifyAndTransformTransfer(t, m, "TERMINATED")
    [] OTHER -> Reject(t)

StartedRecv(t, m) ==
  CASE m.type = "completion" -> verifyAndTransformTransfer(t, m, "COMPLETED")
    [] m.type = "termination" -> verifyAndTransformTransfer(t, m, "TERMINATED")
    [] OTHER -> Reject(t)

\* GetTransferRequestNegotiation(...).Recv(m).
Recv(t, m) ==
  CASE t.state = "INITIAL"   -> InitialRecv(t, m)
    [] t.state = "REQUESTED" -> RequestedRecv(t, m)
    [] t.state = "STARTED"   -> StartedRecv(t, m)
    [] OTHER                 -> Reject(t)

\* The entry for row t that is posted to the peer's transfer `pid'.
makeTransferRequestFunction(t, pid, target, type) ==
  [ entityID |-> IF t.role = "consumer" THEN t.cpid ELSE t.ppid,
    pid |-> pid, target |-> target,
    msg |-> [type |-> type, ppid |-> t.ppid, cpid |-> t.cpid,
             address |-> {publishInfoToDataAddress(i) : i \in t.publishInfo}] ]

\* ValidateAndMarshal accepts the message with the address of t.
CanMarshal(t) == \A i \in t.publishInfo : ValidAddress(publishInfoToDataAddress(i))

\* A request names no provider PID; it has a data address if it is a push.
sendTransferRequest(t) == makeTransferRequestFunction(t, emptyUUID, "REQUESTED", "request")

\* Mutant: the start is posted under the sender's own PID.
sendTransferStartToSelf(t) == makeTransferRequestFunction(t, t.ppid, "STARTED", "start")

\* Only the provider, which answers a request, sends a start.
sendTransferStart(t) == makeTransferRequestFunction(t, t.cpid, "STARTED", "start")

=============================================================================
