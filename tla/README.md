# RUN-DSP in TLA+

RUN-DSP is a connector for the IDSA dataspace protocol: consumers negotiate a
contract about a dataset with a provider and then transfer it.  A connector is
one Go process with a database; two connectors talk by HTTP, and each of them is
steered by a gRPC control plane.  This directory models the negotiation, the
transfer and the life of the process of that program, checks the models with TLC,
and proves with TLAPS the safety of the store, of the reconciler and the process
around it, of the transfer between two connectors, and most of that of their
negotiation.

## The system

| Component | State | Operations | Where |
| --- | --- | --- | --- |
| Contract store | rows of `contract_negotiations` with a `locked` column; `agreements` | `GetContract` (read-only or `WithRW`), `PutContract`, `ReleaseContract`, `PutAgreement` | `dsp/persistence/backends/sqlite` |
| Transfer store | rows of `transfer_requests` with a `locked` column | `GetTransfer`, `PutTransfer`, `ReleaseTransfer` | same |
| Contract state machine | a `*contract.Negotiation` | `Recv` and `Send` per state | `dsp/statemachine`, `dsp/contract` |
| Transfer state machine | a `*transfer.Request` | `Recv` and `Send` per state | `dsp/statemachine`, `dsp/transfer` |
| HTTP handlers | the request being served | one handler per message type | `dsp/contract_handlers.go`, `dsp/transfer_handlers.go`, `dsp/routing.go` |
| Reconciler | a deque of entries, a channel, a manager and a worker | `Add`, `manager`, `worker`, `reconcileEntry`, `handleError`, `terminate` | `dsp/statemachine/reconciler.go` |
| Control plane | the call being served | `Contract*`, `GetProviderDataset*Information`, `InitiatePushTransfer`, `Signal*` | `dsp/control` |
| Server command | a context, two WaitGroups, the HTTP and gRPC servers, the variable `err` | `Run`, `setupServices`, `startControl` | `internal/server` |
| Dataset service (external) | published endpoints | `GetDataset`, `PublishDataset`, `ShutdownTransfer` | gRPC |
| Contract service (external) | none here | notified when it has to decide | gRPC |

A handler locks the row, lets the state machine digest the message, possibly lets
it answer at once, stores the result (which unlocks the row), enqueues the answer
and replies.  The reconciler's worker takes an entry, locks the row, posts the
message, and stores the target state only when the peer has acknowledged it.
Control calls do what a handler does, without a message.

What makes this hard: the row is the only synchronisation between handlers, calls
and the worker, and its lock is a column that survives the process; the row is
released before the agreement it refers to is inserted; the peer's next message
can overtake the commit of the last one; answers get lost after the peer has
stored its half; retries, lock timeouts and the time limit of an entry race; the
two workers can wait for each other's rows; giving up ends in a panic; control
calls poll rows that they do not lock; and a signal stops the servers and the
reconciler, which wait for each other's work, in an order that is only partly
fixed.
`PROJECT.json` lists these hazards with the line at which they bite.

What correctness means, per component:

* store: one writer at a time, no lost update, no work on half-stored agreements,
  and the lock is given back;
* state machines: states move along the transition tables;
* two connectors: nobody believes in a state its peer has not reached, both hold
  the same PIDs and the same agreement, one negotiation stays one;
* transfers: what has started is served, what is completed is not;
* reconciler: everything is delivered or given up, once, and nothing runs forever;
* control calls: a download or upload comes back with what the peer has given out;
* server: a signal ends the process, and a clean end cuts nothing off.

## Modules

| Module | Models |
| --- | --- |
| `ContractStates` | contract states and `validTransitions` |
| `ContractLifecycle` | abstract specification: what a reader of the row may see |
| `ContractStore` | one row and any number of handlers, callers and workers |
| `ContractStoreProofs` | the theorems about `ContractStore` |
| `Dataspace` | roles and the empty UUID |
| `Negotiation` | `Recv`, `Send`, message routing and acknowledgements of a negotiation as operators |
| `NegotiationPeers` | two connectors negotiating: stores, handlers, reconcilers, control calls, crashes |
| `NegotiationProofs` | lemmas about the operators of `Negotiation` |
| `NegotiationPeersProofs` | the theorems about the rows of `NegotiationPeers` |
| `NegotiationFlowProofs` | the theorems about what is under way in `NegotiationPeers` |
| `NegotiationHalvesProofs` | the theorems about what the two halves know of each other |
| `Transfer` | `Recv` and `Send` of a transfer as operators |
| `DataAddress` | the conversion of a `PublishInfo` to a `DataAddress` and back |
| `TransferPeers` | two connectors transferring, with the dataset service |
| `TransferPeersProofs` | the theorems about `DataAddress` and `TransferPeers` |
| `Outbox` | abstract specification: what the state machines may expect of the reconciler |
| `Reconciler` | manager, channel, worker and deque; implements `Outbox` |
| `ReconcilerProofs` | the refinement of `Outbox` |
| `Server` | one process from start to end: `Run`, its servers, requests and calls around `Reconciler` |
| `ServerProofs` | the theorems about `Server` |
| `MC...` | the instances for TLC |

`ContractStore` has a program counter `pc` and a private `copy` per client, which
is what `FromModel` returned.  `pc` is `held` after `GetContract`, `ready` when
`Recv`, `Send` or `SetState` has changed the copy, `stored` between `PutContract`
and `PutAgreement`, and `failed` when that insert failed and the deferred release
is due.  The three kinds of clients differ in what they do on failure, which is
where the code differs: handlers and the worker release, callers do not.

`NegotiationPeers` composes everything around two databases.  `table[s]` is the
table of connector `s`; the `lock` of a row says who set the `locked` column,
`leaked` meaning that no live goroutine is going to clear it.  `http[s][k]` is a
request that `s` serves: `arrived` (`RouteRequest`, `CreateNegotiation`), `lock`
(`HandlerLock`, `HandlerNotFound`), `locked` (`HandlerStore`, `HandlerReject`),
`stored` (`HandlerPutAgreement`), `apply` (`HandlerApply`, `HandlerNotifyFails`).
`worker[s]` runs `reconcileEntry`: `acquire`, `send`, `wait`, then `answered`
(`Commit`), `httpError` or `failed` (`Requeue`, `GiveUp`, `PanicHolding`) and
`terminate`.  Statements between which no other actor can observe a difference
are one action: the control call that creates a negotiation, for instance, since
nobody knows its PID before the first message is sent.  `poll[s]` is the download
or upload call that waits at `s` for its negotiation (`Poll`): it reads the row
without a lock, ends with the agreement it has read, and only the download
notices a termination.

`TransferPeers` has the same structure.  Its handlers have the extra step between
`HandlerProcess`, which calls the dataset service, and `HandlerStore`.  Messages
that no RUN-DSP connector sends, completions and terminations, come from outside
(`Receive`).  That the agreement of a transfer is stored at both sides is assumed,
which is what `AgreementKnown`, `CallGetsAgreement` and `Finalizes` show for
negotiations.  The dataset service answers with any of `Infos`; what it said goes
through `DataAddress` twice, and `Poll` returns it to the client of the other
side.  A publish info whose url is neither http nor https makes a message that
`ValidateAndMarshal` refuses (`CanMarshal`), at which point the row is locked and,
for a pull, the data is published already.

`Reconciler` splits what those modules call `Take`.  `manager` is `popped` between
`PopFront` and the decision about the operation, and `send` while it waits at the
channel; `worker` is `busy` for the whole of `reconcileEntry`, of which only the
outcome is left.  An operation that is requeued is not `due` until time has passed
(`Elapse`).  Its refinement mapping, `FateOf`, counts the places that hold an
entry: `pending` is an entry held exactly once.

`Server` adds the main goroutine (`main` is the place in `Run`), the WaitGroup it
shares with the servers (`wg`), the variable `err` that `Run` and the goroutines
of the HTTP services assign without synchronisation, and the requests and control
calls, reduced to when they leave an entry with the reconciler and how long they
keep their server busy.  `Shutdown` is called with the context that the signal
has cancelled, so it closes the listener and returns an error if a request is
being served; `GracefulStop` waits for all calls.

A call (`Downloads`, `Uploads`) leaves a message about its contract and polls
until the negotiation is `FINALIZED`; a download then leaves a transfer request,
an upload waits for its peer's, and both poll until the transfer is `STARTED`
(`call` is `contract`, `negotiating`, `transfer`, `requesting`).  `row[c]` is what
the polled row has come to: `open`, `reached` (what the call looks for),
`terminated`, or `over` (a transfer that went past `STARTED` before the call
looked).  A download's row is moved by the peer's messages (`StoreReceived`), an
upload's by the worker, which stores `FINALIZED` and `STARTED` when a handler's
entry is delivered or given up (`Commit`).  How many messages that takes is left
open; that the call's own entry has been sent before is not (`PeerAsked`).  Only a
download looks for `TERMINATED`, so an upload can poll for good, and so can a
download whose transfer is `over`.

Data is abstracted: UUIDs are natural numbers handed out in order, offers and
policies are left out, URLs are reduced to the root they start with or to their
scheme, and time to the possibility of a timeout.

## Runs

| Run | Shows |
| --- | --- |
| `store` | `MutualExclusion`, `NoLostUpdate`, `AgreementStored` and the refinement of `ContractLifecycle`, with crashes and failing inserts |
| `rest` | downloads and uploads without contract services: `Finalizes` if nothing fails; `PeerFirst`, `HalvesAgree`, `OneNegotiation`, `Routed` and `ComesToRest` with two lost exchanges, retries and a crash |
| `manual` | a download with contract services at both sides and up to three control calls or terminations that race with messages and may be refused, a fault and a lock timeout: `AgreementKnown`, `CallGetsAgreement`, `RowsMoveForward`, `TerminationEndsCall`, `ComesToRest` |
| `transfer` | the safety and liveness of pulls and pushes under faults, a lock timeout, a crash and messages from outside; `CallReturns` says that the waiting client gets the address that the peer's dataset service gave out |
| `server` | one process with an upload: `KeepsPromise` (the refinement of `Outbox`), `GoroutinesCounted` (what the WaitGroup holds, and when it can get negative), `NothingCutOff`, `Settles`, and `ShutdownUnlessStuck`, which names the three ways in which a signal does not end the process: a peer that does not answer, a hand-over to a worker that has left, and a call that polls for what does not come |
| `polling` | `ShutdownUnlessStuck` for a download, with two requests that bring the peer's messages |

Six more runs show where the code does not do what its comments and docs say
(`findings` in `PROJECT.json`):

| Run | What happens |
| --- | --- |
| `store_leak` | A client that locks a row between `PutContract` and `PutAgreement` finds no agreement and leaves the row locked, without any failure. |
| `request_callback` | After `ContractRequest` the provider posts to a path the consumer does not serve: the callback root is only named by the download call. |
| `give_up` | `terminate` stores the target state of the entry instead of `TERMINATED`. |
| `initial` | When the commit of an offer is lost, the consumer's request finds `INITIAL`, and the provider draws a second provider PID for it. |
| `shutdown` | When a signal comes while the manager hands an operation over, the worker may leave first; the manager waits for it forever, and `Run` never gets to close anything. |
| `control_stop` | After a signal a call still polls, and what it polls for takes a message that the reconciler, which has left, does not send: `GracefulStop` does not return, even though all peers answer. |

Three more things that the code does are in the models and have no run of their own.
A silent peer keeps the only worker, and with it every entry for other peers: it is
what the premise of `Settles` excludes.  `SignalTransferComplete` returns as soon as it
finds the transfer and sends nothing.  `AutoAccept` given to a control call is not
stored when nothing else changed (`Called`).

Every property of a passing run is paired with a mutant of the code it is about
(the definitions commented `Mutant:`) under which TLC finds it violated.

### Bounds

* Two handlers, a caller, a worker and two agreements suffice for `store`: the
  properties relate at most two clients and the client that stored last, and the
  theorems cover the rest.
* Two slots per connector: one for the message that holds or waits for a row and
  one for its retry or for a crossing message.  A worker has one request out.
* `MaxAttempts = 2`: a first attempt and a retry; the code has up to 50 within a
  minute.  As waiting for locks alone can use that minute up, `GiveUp` and
  `PanicHolding` are possible at every attempt.  `manual` has one attempt, since
  its faults are the control calls; retries are in `rest`.
* Faults, timeouts, crashes, control calls and messages from outside are counted
  (`Max...`).  A timeout is counted only while the owner of the lock is still
  working; timeouts on a lock that nobody frees (`Stuck`) are always possible.
  Two faults reach a lost answer and the loss of its retry.  Three control calls
  suffice to agree, verify and finalize by hand, with a termination or a refused
  call in the place of any of them.
* `Infos` has a basic and a bearer authentication and an address no message can
  carry.  That the conversion keeps every other description is proved.
* One request, one upload, two attempts and two HTTP services for `server`: the
  request and the call compete for deque and worker, the request's entry is what
  moves the upload's row, and the second service is shut down after the first.
* One download, two requests, one service and one attempt for `polling`: each of the
  two polling loops can get what it looks for from a request, or a termination, or
  nothing.  Retries and the second service are in `server`.
* One negotiation, or one transfer, is started per behaviour.  Two of them share
  only the deque, in which they wait for each other.

### Fairness

In `NegotiationPeers` and `TransferPeers`, as long as some goroutine of a running
process can take a step, one does (weak fairness on `Progress`, which includes the
client call that starts the exchange).  That is weaker than fairness for every
goroutine and is enough because an exchange has finitely many steps.  Nothing is
assumed about operators, messages from outside, failures or the restart of a dead
process, nor about whether an entry is requeued or given up, and whether a lock is
obtained or times out where both are possible.

In `Server` every goroutine has weak fairness of its own, because the reconciler
can turn an operation that is not due around forever.  The cases of a `select`
that compete with others (`ManagerLeaves`, `WorkerLeaves`) have strong fairness:
Go chooses at random among those that are ready.  So has `Elapse`, since time
passes whoever holds the operation.  Clients, signals and failures owe nothing.

Nor do the peers: the worker's HTTP request has no timeout and no context that a
signal could cancel, so nothing makes an exchange end (`WorkerSteps` has no
fairness).  Properties that need answers have them as a premise, `[]<>~PeerSilent`,
and `ShutdownUnlessStuck` has the silent peer as one of its alternatives.  Polling
calls take their steps when the row lets them, and nothing is assumed about what
moves the row.  `NegotiationPeers` and `TransferPeers` assume that every request is
answered, refused or lost at last; the liveness of `rest`, `manual` and `transfer`
is for such peers.

Deadlock is not an error in these runs: an exchange ends, and a system without
requests stands still.

## Proofs

`ContractStoreProofs` proves, for any sets of handlers, callers, workers and
agreements, that `ContractStore` satisfies `TypeOK` (`TypeCorrect`),
`MutualExclusion`, `NoLostUpdate` and `AgreementStored`, and that it implements
`ContractLifecycle` (`Refinement`).  The assumptions are that the kinds of clients
are disjoint and that `"none"` is no agreement ID.

None of these is inductive alone.  A handler whose `PutAgreement` failed clears
the `locked` column although it gave the row back before, possibly while
another client has locked it.  What saves mutual exclusion is that the row then
refers to an agreement that is not in the table, so whoever locks it fails before
working on it.  `IndInv` therefore adds `InsertWindow` (from `PutContract` until
the insert succeeds the row is dangling and all other clients are idle),
`AgreementFresh` (the agreement a client attaches is drawn but not stored, so the
row will dangle) and `AgreementMove` (agreements are attached only where the
lifecycle allows it).  There is one lemma per action; the refinement maps the
state and agreement columns to the variables of `ContractLifecycle`, and every
action but `PutContract` is a stuttering step.

`TransferPeersProofs` proves, for every url and all credentials, that the publish
info a connector reads out of a message gives the same access as the one its peer
put in (`AddressRoundTrip`), by cases on the authentication type.  `SameAccess` is
weaker than equality: a username that a bearer authentication does not need is
dropped on the way.

`ReconcilerProofs` proves that the reconciler implements `Outbox`
(`ReconcilerRefinement`), whatever number of entries and attempts.  The mapping
`FateOf` counts the places that hold an entry, so the inductive invariant says
that no two places hold the same entry (`HeldOnce`) and that what is held is
exactly what was added and is neither delivered nor given up (`HeldIsOpen`).
Starting the goroutines would break that if one of them could already hold
something, so `Shape` adds that without a manager there is no worker either.

`ServerProofs` proves that every step of the process is a step of the reconciler or
leaves it alone (`ServerRunsReconciler`), so that the promise holds in the process
too (`ServerKeepsPromise`), and that `TypeOK` (`ServerTypeCorrect`),
`GoroutinesCounted` (`GoroutinesAreCounted`) and `NothingCutOff`
(`NothingCutOffHolds`) hold for any numbers of requests, downloads and uploads and
for one or two HTTP services.
`GoroutinesCounted` says that the WaitGroup holds one for each goroutine that `Run`
has added and that has not ended.  `Run` adds the HTTP services after it has
launched them, so those that cannot listen may be counted down before: if both do,
or if one does after the control service has ended, the counter gets negative and
the process panics, and the property says that this is the only time it can.
`NothingCutOff` needs to know that, which servers can be serving anything
(`ServersServe`), that `Run` goes on past the shutdown of the dataspace service only
when that serves nothing any more (`DataspaceShut`), and how far `Run` has got
(`Phases`).

`TransferPeersProofs` proves all six safety properties of `TransferPeers`, for any
number of requests served at the same time, any set of endpoint descriptions and
any bounds.  It assumes what the module does, in particular that the name of a slot
is none of the words for other lock owners (`SlotsAssumption`).  The argument is a
chain of inductive invariants, each of which uses those before it:

* `LockInv`: whoever works on a copy, a handler or the worker, has locked the row,
  and the copy is what the row becomes in one move of the table; a worker that
  waits and the request it waits for belong together; a dead process has no memory.
  There is one row per connector, since the request handler inserts under the
  consumer PID.  From it: `TransferTypeCorrect` and `TransferRowsMoveForward`.
* `EndpointInv`: something is published only if the provider's transfer is past
  `INITIAL`, will be when its handler stores it, or is locked for good; so no second
  request gets to `PublishDataset`, and nothing stays published when `COMPLETED`
  is stored.  From it: `TransferOneEndpoint`, `TransferCompletedIsUnpublished`.
* `KnownInv`, `MovesInv`, `PeerInv`: an answered worker has a peer that moved, and
  a worker that could not get its row never will, because the lock was left behind
  or the row has moved past the target.  The latter is why `terminate` stores
  nothing wrong as long as no lock times out under its owner.  From them:
  `TransferPeerFirst`.
* `DirectionInv`, `DataInv`: the two halves agree on the direction, which travels
  as the absence of an address; as long as nobody sends a completion every start
  that is queued, under way or being handled offers the endpoint that is served.
  With `AddressRoundTrip`: `TransferDataAvailable`.

TLC has checked these invariants on the instance of the run `transfer` before they
were proved.

`NegotiationProofs` shows what the state machine keeps, whatever the message: a
negotiation that `Recv` accepts has moved along `validTransitions` and still has the
PIDs it knew, unless it was in `INITIAL` (`RecvMoves`); `Send` leaves the state alone,
and the entry it makes names the negotiation and a target that the table allows
(`SendMoves`).

`NegotiationPeersProofs` proves, for any slots, bounds, services and outcomes of the
dataset lookup, that `NegotiationPeers` satisfies `TypeOK` (`NegotiationTypeCorrect`)
and `RowsMoveForward` (`NegotiationsMoveForward`).  Both rest on `LockInv`
(`LockInvariant`), which is the discipline of the transfers' locks with control calls
added: a handler in `locked` and a worker between `send` and `answered` have the row
locked under their own name, so that the copy they hold still is the row when they
store it, the copy of the worker being one move of the table ahead.  A control call
needs no such clause, as it locks and stores in one step; a termination reads
without a lock, but its entry is checked against the row when the worker gets to it.
The counter of the UUIDs grows in some of the steps, so each step is shown to keep
the invariant over the IDs it ends with (`LockOver`).

`NegotiationFlowProofs` proves `OneNegotiation` (`NegotiationIsOne`), `AgreementKnown`
(`AgreementsAreKnown`) and `CallGetsAgreement` (`CallsGetAgreement`), under the same
assumptions.  They are about what is under way: the entries that a connector is to
send (`Held`: in the deque, at the worker, or left by a handler), the negotiations
that are stored before their agreement is (`Storing`), and the requests at the peer
(`Posted`).  `StepMoves` says once what the steps do to those: each of them
adds nothing and leaves rows and agreements alone (`Quiet`), or is one of the kinds
of steps that `Moves` lists.  The invariants then need one lemma per kind.

* `OneInv`: everything under way, and every row, speaks of the negotiation that one
  of the connectors has started.  If that is the provider, nothing is sent that
  would make it insert another row; if it is the consumer, every request that
  does carries the consumer's PID, which is UNIQUE in the provider's table, so the
  second insert fails.
* `AgreedInv`: an agreement is sent only when the provider has stored it, what the
  consumer is about to store the provider has, and an entry that is to bind a
  connector finds an agreement in the row.  From `VERIFIED` on the agreement of a
  row is stored.  A row in `AGREED` can refer to one that is not, when a second
  `ContractAgree` replaced it, or the process died between the row and its agreement.
* `CallInv`: a call that has returned has read a stored agreement.

`OneInv` was checked by TLC under the faults, retries and the crash of `rest`, and
`AgreedInv` under the calls of `manual`, before they were proved.  For the download
`CallGetsAgreement` speaks of both connectors and for the upload of its own, since
an operator who calls `ContractAgree` at the provider while the last agreement waits
to be delivered has the provider's row refer to another agreement than its peer's.
`HalvesAgree` excepts control calls for the same reason.

`NegotiationHalvesProofs` compares the two halves, from the same account of what is
under way.

* `MessagesAreRouted` is `Routed` for the negotiations that are `Routable`.  One that
  was started by `ContractRequest` is not (see the run `request_callback`), and with control
  calls only downloads are: a provider whose own offer is accepted keeps the
  callback that it was created with, and the calls could send to it.
* `HalvesDoAgree` is `HalvesAgree`.  It takes three invariants.  `PairInvariant`: the
  connector that began the negotiation learns PIDs only from its peer, and all that
  the peer sends, answers and stores carries PIDs that the peer's own row has (`Settled`).
  `NamesInvariant`: an entry names the row that it was made from, so that a worker stores
  into the row whose message was answered.  `OfferInvariant`: a provider that still has an
  offer to deliver has no agreement yet, and holds one offer at most; the agreement that
  is sent is that of the provider's only row, and the consumer's row has that one or
  none.

* `PeersAreFirst` is `PeerFirst`, from the invariant `FirstInv`.  A state is stored when
  the answer has come, so the invariant follows the answer from the row of the peer that
  gives it to the worker that stores it: a row in a state that its connector leads to
  (`Leads`: `ACCEPTED` and `VERIFIED` for the consumer, `AGREED` and `FINALIZED` for the
  provider), a handler that has stored such a state and a worker that has got the answer
  all have a peer that reached it (`RowsLed`, `AnswersReached`).  `WorkersSpent` covers
  the other way in which a worker stores a state: the entry that `terminateAttempt` is
  about to give up finds a row that was left locked or is past its target, so that it
  stores nothing the peer has not answered.  `FlowsDue` says that an entry is under way
  only when the row that it is to move is where the entry starts from or past that.  The
  states `Leads` do not cover the consumer's first request, which the control call sends;
  `FirstRequest` does: while the row is `INITIAL` this request is all that the consumer
  has under way, and once the row has moved nobody acknowledges it any more.  That an
  answer belongs to the entry of the worker that reads it is an invariant of its own
  (`Asked`), and how slots, workers and deques go on in a step is said once (`StepsOn`).

TLC has checked these too, on the runs of `NegotiationPeers`, before they were proved;
`FirstInv` and `Asked` also with two crashes.

Only model-checked: all liveness (`Finalizes`, `TerminationEndsCall`, `ComesToRest`,
`Starts`, `CallReturns`, `Settles`, `ShutdownUnlessStuck`: the prover does not handle
fairness), and the violations.  Every invariant and every action property that a
passing run checks is also a theorem.

## Not modelled

* `GET` handlers and catalogue calls, which only read.
* A client that cancels a polling control call: the loops change nothing, so it
  makes no difference to the rest.  `Server`, where the call keeps the control
  service busy, has it (`CallCancelled`).
* Orderly shutdown in `NegotiationPeers` and `TransferPeers`: for the peer and the
  database it is one of the crashes.
* Suspension: its handlers store nothing, the consumer's one reads a path
  parameter that its route does not have, and the `Signal` calls for it are not
  implemented.
* `sendTransferCompletion`, which nothing reaches.
* The endpoint `ReceiveDataset` opens for a push: the service is not told the
  consumer PID under which `unpublishTransfer` later shuts it down, so nothing in
  this repository relates the two.
* The migration lock, which an interrupted start leaves behind: it lives in the
  migrations library, and nothing else runs at that time.
* Encoding and validation of messages except data addresses, authorization,
  metrics, tracing, configuration, the creation of tables.

## Plan

Both parties in one process on one database, which the comment on duplicate
transfers in `GetProviderDatasetUploadInformation` is about.
