---------------------------- MODULE TransferPeers ----------------------------
(***************************************************************************)
(* Two connectors transferring one dataset under an agreement that both    *)
(* have stored.  As in NegotiationPeers, each has a database, HTTP         *)
(* handlers, a reconciler and a control plane, exchanges can be lost, and  *)
(* processes die and restart.  Beside them stands the dataset service,     *)
(* which publishes the data of a pull under the provider PID.              *)
(*                                                                         *)
(* A transfer differs from a negotiation in that its handlers do not       *)
(* release the row when they fail, that the answer to a message carries    *)
(* nothing back, and that no connector ever sends a completion or a        *)
(* termination: those arrive only from a peer that is operated by other    *)
(* means (Outside).                                                        *)
(***************************************************************************)
EXTENDS Transfer, Sequences, Functions

CONSTANTS
  Infos,        \* what a dataset service may say of where its data is
  Slots,        \* HTTP requests a connector serves at the same time
  Directions,   \* of which one is started: "PULL", "PUSH"
  Outside,      \* the messages that may come from outside
  Signallers,   \* the connectors whose client calls SignalTransferComplete
  MaxAttempts,  \* attempts that fit into maxDuration
  MaxOutside,   \* bound on messages from outside
  MaxFaults,    \* bound on lost exchanges and failed service calls
  MaxTimeouts,  \* bound on lock timeouts although the owner is still working
  MaxCrashes    \* bound on process deaths that are not panics

ASSUME InfosAssumption ==
  \A i \in Infos : i.url.scheme \in Schemes /\ i.auth \in AuthenticationTypes
ASSUME SlotsAssumption == Slots \cap {"free", "worker", "signal", "leaked"} = {}
ASSUME DirectionsAssumption == Directions \subseteq {"PULL", "PUSH"}
ASSUME OutsideAssumption == Outside \subseteq {"completion", "termination"}
ASSUME SignallersAssumption == Signallers \subseteq Roles
ASSUME BoundsAssumption ==
  /\ MaxAttempts \in Nat \ {0}
  /\ MaxOutside \in Nat /\ MaxFaults \in Nat
  /\ MaxTimeouts \in Nat /\ MaxCrashes \in Nat

VARIABLES
  table,      \* [Roles -> Seq(row)]: transfer_requests, by row ID
  published,  \* what the provider's dataset service serves, by publish ID
  queue,      \* [Roles -> Seq(operation)]: the reconciler's deque
  worker,     \* [Roles -> what the reconciler's worker is doing]
  http,       \* [Roles -> [Slots -> the request being served]]
  up,         \* [Roles -> BOOLEAN]: is the process running
  uuid,       \* the next UUID uuid.New returns
  signal,     \* [Roles -> the state of the SignalTransferComplete call]
  poll,       \* [Roles -> the download or upload call that polls the store]
  outside,    \* the messages that came from outside, in order
  faults, timeouts, crashes   \* how much of each bound is used up

vars == <<table, published, queue, worker, http, up, uuid, signal, poll,
          outside, faults, timeouts, crashes>>

bounds == <<outside, faults, timeouts, crashes>>

Idle == [pc |-> "idle"]

\* The rows GetTransfer selects with WithRolePID.
Lookup(s, pid) ==
  {i \in DOMAIN table[s] :
     pid = IF s = "consumer" THEN table[s][i].cpid ELSE table[s][i].ppid}

SetLock(s, i, owner) == table' = [table EXCEPT ![s][i].lock = owner]

\* PutTransfer of a modified request that has a row.
Put(s, t) == table' = [table EXCEPT ![s][t.id] = ToModel(t)]

Operation(entry) == [entry |-> entry, attempts |-> 0]

Fault == faults < MaxFaults /\ faults' = faults + 1

-----------------------------------------------------------------------------
(* Waiting for a lock                                                      *)

\* The rows that a request which needs one finds, locked or not.
Wanted(s, k) == IF http[s][k].pc = "lock" THEN Lookup(s, http[s][k].pid) ELSE {}

\* Nobody is going to free row i of s: the lock was left behind, or it is
\* held by a worker that waits for a lock that was.
Stuck(s, i) ==
  LET p == Peer(s) IN
  \/ table[s][i].lock = "leaked"
  \/ /\ table[s][i].lock = "worker" /\ worker[s].pc = "wait"
     /\ \E j \in Wanted(p, worker[s].slot) : table[p][j].lock = "leaked"

\* getTransferLocked gives up after lockTimeout seconds.
LockTimeout(s, i) ==
  /\ table[s][i].lock # "free"
  /\ \/ Stuck(s, i) /\ UNCHANGED timeouts
     \/ ~Stuck(s, i) /\ timeouts < MaxTimeouts /\ timeouts' = timeouts + 1

-----------------------------------------------------------------------------
(* The control plane                                                       *)

\* GetProviderDatasetDownloadInformation, once the negotiation is finalized.
PullTransfer == New("consumer", emptyUUID, uuid, {})

\* InitiatePushTransfer: ReceiveDataset has said where the data may go.
PushTransfer(info) == New("consumer", emptyUUID, uuid, {info})

\* Who waits for the transfer to start: the download call that began it, or
\* the upload call that has seen its negotiation finalized.
Poller(direction) == IF direction = "PULL" THEN "consumer" ELSE "provider"

\* Both calls: store, lock, Send, store, enqueue.  When Send fails the row
\* stays locked.
Begin ==
  /\ uuid = 1 /\ up["consumer"]
  /\ \E t \in {PullTransfer} \cup {PushTransfer(info) : info \in Infos} :
       LET sent == CanMarshal(t) IN
       /\ t.direction \in Directions
       /\ table' = [table EXCEPT !["consumer"] =
            <<[ToModel(t) EXCEPT !.lock = IF sent THEN "free" ELSE "leaked"]>>]
       /\ queue' = [queue EXCEPT !["consumer"] =
            IF sent THEN <<Operation(sendTransferRequest(t))>> ELSE <<>>]
       /\ poll' = [poll EXCEPT ![Poller(t.direction)] = [pc |-> "polling"]]
  /\ uuid' = uuid + 1
  /\ UNCHANGED <<published, worker, http, up, signal, bounds>>

\* The polling loops: the download looks its own transfer up, the upload looks
\* for any of its agreement (here there is one) and not for TERMINATED.
Poll(s) ==
  /\ poll[s].pc = "polling"
  /\ \E i \in DOMAIN table[s] :
       LET r == table[s][i] IN
       \/ /\ r.state = "STARTED"
          /\ poll' = [poll EXCEPT ![s] =
               [pc |-> "returned", publishInfo |-> r.publishInfo]]
       \/ /\ s = "consumer" /\ r.state = "TERMINATED"
          /\ poll' = [poll EXCEPT ![s] = [pc |-> "aborted"]]
  /\ UNCHANGED <<table, published, queue, worker, http, up, uuid, signal, bounds>>

\* SignalTransferComplete: the transfer is found and locked.
SignalTransferComplete(s) ==
  /\ s \in Signallers /\ signal[s] = "none"
  /\ up[s]
  /\ \E i \in DOMAIN table[s] : table[s][i].lock = "free" /\ SetLock(s, i, "signal")
  /\ signal' = [signal EXCEPT ![s] = "locked"]
  /\ UNCHANGED <<published, queue, worker, http, up, uuid, poll, bounds>>

\* SignalTransferComplete: ReleaseTransfer, and the call returns.
SignalReturns(s) ==
  /\ signal[s] = "locked"
  /\ \E i \in DOMAIN table[s] : table[s][i].lock = "signal" /\ SetLock(s, i, "free")
  /\ signal' = [signal EXCEPT ![s] = "returned"]
  /\ UNCHANGED <<published, queue, worker, http, up, uuid, poll, bounds>>

-----------------------------------------------------------------------------
(* The HTTP handlers of connector s                                        *)

\* Slot k is free again and the worker, if it still waits for the answer,
\* gets it.
Answer(s, k, pc) ==
  LET p == Peer(s) IN
  /\ http' = [http EXCEPT ![s][k] = Idle]
  /\ worker' = IF http[s][k].client = "worker"
                 THEN [worker EXCEPT ![p] =
                         [pc |-> pc, op |-> worker[p].op, tr |-> worker[p].tr]]
                 ELSE worker

\* The handler returns an error status, or panics in transferError.
Refuse(s, k) == Answer(s, k, "httpError")

\* The handler that setupTransferEndpoints finds for a message: a request makes
\* a new transfer, everything else needs the row of the PID in its path.
Dispatch(type) == IF type = "request" THEN "new" ELSE "lock"

\* The start handlers do not go on to Send, the others do.
autoProgress(type) == type # "start"

\* A completion or termination from outside, from a peer that has both PIDs;
\* a completion from one whose transfer has started.
Receive(s, k) ==
  LET p == Peer(s) IN
  /\ up[s] /\ http[s][k].pc = "idle"
  /\ Len(outside) < MaxOutside
  /\ \E type \in Outside, j \in DOMAIN table[p] :
       LET r == table[p][j] IN
       /\ r.ppid # emptyUUID
       /\ type = "completion" => r.state = "STARTED"
       /\ outside' = Append(outside, type)
       /\ http' = [http EXCEPT ![s][k] =
            [pc |-> Dispatch(type), client |-> "outside",
             pid |-> IF s = "consumer" THEN r.cpid ELSE r.ppid,
             msg |-> [type |-> type, ppid |-> r.ppid, cpid |-> r.cpid,
                      address |-> {}]]]
  /\ UNCHANGED <<table, published, queue, worker, up, uuid, signal, poll,
                 faults, timeouts, crashes>>

\* Mutant: the consumer PID column is not UNIQUE.
ConflictOnProvider(s, t) == \E i \in DOMAIN table[s] : table[s][i].ppid = t.ppid

\* The UNIQUE constraints on the PID columns, for a request without a row.
Conflict(s, t) ==
  \E i \in DOMAIN table[s] : table[s][i].ppid = t.ppid \/ table[s][i].cpid = t.cpid

\* providerTransferRequestHandler: the new request is stored before
\* processTransferMessage works on it, unless a row has its consumer PID.
CreateTransfer(s, k) ==
  LET h == http[s][k]
      t == New("provider", uuid, h.msg.cpid, InfoOfAddress(h.msg))
  IN  /\ h.pc = "new"
      /\ IF Conflict(s, t)
           THEN Refuse(s, k) /\ UNCHANGED <<table, uuid>>
           ELSE /\ table' = [table EXCEPT ![s] = Append(@, ToModel(t))]
                /\ uuid' = uuid + 1
                /\ http' = [http EXCEPT ![s][k] =
                     [pc |-> "lock", client |-> h.client, pid |-> t.ppid, msg |-> h.msg]]
                /\ UNCHANGED worker
      /\ UNCHANGED <<published, queue, up, signal, poll, bounds>>

\* processTransferMessage: GetTransfer with WithRW.
HandlerLock(s, k) ==
  LET h == http[s][k] IN
  \E i \in Wanted(s, k) :
    /\ table[s][i].lock = "free"
    /\ SetLock(s, i, k)
    /\ http' = [http EXCEPT ![s][k] =
         [pc |-> "locked", client |-> h.client, msg |-> h.msg,
          tr |-> FromModel(table[s][i], i)]]
    /\ UNCHANGED <<published, queue, worker, up, uuid, signal, poll, bounds>>

\* GetTransfer fails: no such request, or its lock is not to be had.
HandlerNotFound(s, k) ==
  /\ http[s][k].pc = "lock"
  /\ \/ Wanted(s, k) = {} /\ UNCHANGED timeouts
     \/ \E i \in Wanted(s, k) : LockTimeout(s, i)
  /\ Refuse(s, k)
  /\ UNCHANGED <<table, published, queue, up, uuid, signal, poll, outside, faults, crashes>>

\* StartedRecv shuts the endpoint down as soon as a completion comes in, before
\* it verifies the message.
Shutdown(t, m) == t.state = "STARTED" /\ m.type = "completion" /\ Unpublishes(t)

PublishedAfterRecv(t, m) ==
  {e \in published : Shutdown(t, m) => e.id # PublishId(t)}

\* Recv or the Send after it calls the dataset service: GetDataset and
\* PublishDataset for a new pull, or ShutdownTransfer.
AsksService(t, m) == (m.type = "request" /\ t.direction = "PULL") \/ Shutdown(t, m)

\* After Recv made it t, the transfer goes on to Send something: only a
\* REQUESTED transfer does, COMPLETED and TERMINATED do not.
Sends(t, m) == autoProgress(m.type) /\ t.state = "REQUESTED"

Publishes(t, m) == Sends(t, m) /\ t.direction = "PULL"

\* Send of t: PublishDataset, for a pull, says where the data is.
AfterPublish(t, m) ==
  IF Publishes(t, m) THEN {[t EXCEPT !.publishInfo = {info}] : info \in Infos} ELSE {t}

\* What is served after Recv and Send have made the transfer t.
PublishedAfter(h, t) ==
  PublishedAfterRecv(h.tr, h.msg)
    \cup {[id |-> PublishId(t), info |-> i] :
            i \in IF Publishes(t, h.msg) THEN t.publishInfo ELSE {}}

\* processTransferMessage: Recv, and Send of the resulting state.
HandlerProcess(s, k) ==
  LET h == http[s][k]
      recv == Recv(h.tr, h.msg)
  IN  /\ h.pc = "locked"
      /\ recv.ok
      /\ \E t \in AfterPublish(recv.req, h.msg) :
           LET sends == Sends(t, h.msg) IN
           /\ sends => CanMarshal(t)
           /\ published' = PublishedAfter(h, t)
           /\ http' = [http EXCEPT ![s][k] =
                [pc |-> "ready", client |-> h.client, tr |-> t,
                 ops |-> IF sends THEN <<Operation(sendTransferStart(t))>> ELSE <<>>]]
      /\ UNCHANGED <<table, queue, worker, up, uuid, signal, poll, bounds>>

\* processTransferMessage: Recv rejects the message, Recv or Send fails because
\* of the dataset service, or the start cannot be marshalled although its data
\* is published.  The row stays locked.
HandlerReject(s, k) ==
  LET h == http[s][k]
      recv == Recv(h.tr, h.msg)
  IN  /\ h.pc = "locked"
      /\ \/ /\ ~recv.ok
            /\ published' = PublishedAfterRecv(h.tr, h.msg)
            /\ UNCHANGED faults
         \/ /\ AsksService(h.tr, h.msg) /\ Fault
            /\ UNCHANGED published
         \/ /\ recv.ok /\ Sends(recv.req, h.msg)
            /\ \E t \in AfterPublish(recv.req, h.msg) :
                 ~CanMarshal(t) /\ published' = PublishedAfter(h, t)
            /\ UNCHANGED faults
      /\ SetLock(s, h.tr.id, "leaked")
      /\ Refuse(s, k)
      /\ UNCHANGED <<queue, up, uuid, signal, poll, outside, timeouts, crashes>>

\* processTransferMessage: PutTransfer, the answer, and `go apply()'.  That
\* goroutine may run before or after the answer arrives; either way the entry
\* can be taken late, or be lost with the process.
HandlerStore(s, k) ==
  LET h == http[s][k] IN
  /\ h.pc = "ready"
  /\ Put(s, h.tr)
  /\ queue' = [queue EXCEPT ![s] = @ \o h.ops]
  /\ Answer(s, k, "answered")
  /\ UNCHANGED <<published, up, uuid, signal, poll, bounds>>

\* The client is gone and with it the request's context: the next statement
\* fails, and a row that is locked stays locked.
HandlerCancelled(s, k) ==
  LET h == http[s][k] IN
  /\ h.pc \in {"new", "lock", "locked", "ready"}
  /\ h.client = "gone"
  /\ IF h.pc \in {"locked", "ready"} THEN SetLock(s, h.tr.id, "leaked") ELSE UNCHANGED table
  /\ Refuse(s, k)
  /\ UNCHANGED <<published, queue, up, uuid, signal, poll, bounds>>

-----------------------------------------------------------------------------
(* The reconciler of connector s                                           *)

\* Mutant: Attempts is not incremented.
TakeUncounted(s) ==
  /\ up[s] /\ worker[s].pc = "idle" /\ queue[s] # <<>>
  /\ queue' = [queue EXCEPT ![s] = Tail(@)]
  /\ worker' = [worker EXCEPT ![s] = [pc |-> "acquire", op |-> Head(queue[s])]]
  /\ UNCHANGED <<table, published, http, up, uuid, signal, poll, bounds>>

\* manager and worker: an operation is due and is taken off the deque.  A
\* connector has one operation at a time here, so its place does not matter.
Take(s) ==
  /\ up[s] /\ worker[s].pc = "idle" /\ queue[s] # <<>>
  /\ queue' = [queue EXCEPT ![s] = Tail(@)]
  /\ worker' = [worker EXCEPT ![s] =
       [pc |-> "acquire", op |-> [Head(queue[s]) EXCEPT !.attempts = @ + 1]]]
  /\ UNCHANGED <<table, published, http, up, uuid, signal, poll, bounds>>

EntryRows(s, entry) == Lookup(s, entry.entityID)

\* newRequestUpdater can lock row i and move it.
CanUpdate(s, i, entry) ==
  table[s][i].lock = "free" /\ CanSetState(table[s][i], entry.target)

\* Mutant: the row is not locked while the message is on its way.
AcquireUnlocked(s) ==
  LET op == worker[s].op IN
  /\ worker[s].pc = "acquire"
  /\ \E i \in EntryRows(s, op.entry) :
       /\ CanUpdate(s, i, op.entry)
       /\ worker' = [worker EXCEPT ![s] =
            [pc |-> "send", op |-> op,
             tr |-> [FromModel(table[s][i], i) EXCEPT !.state = op.entry.target]]]
  /\ UNCHANGED <<table, published, queue, http, up, uuid, signal, poll, bounds>>

\* reconcileEntry: getStateUpdater.
Acquire(s) ==
  LET op == worker[s].op IN
  /\ worker[s].pc = "acquire"
  /\ \E i \in EntryRows(s, op.entry) :
       /\ CanUpdate(s, i, op.entry)
       /\ SetLock(s, i, "worker")
       /\ worker' = [worker EXCEPT ![s] =
            [pc |-> "send", op |-> op,
             tr |-> [FromModel(table[s][i], i) EXCEPT !.state = op.entry.target]]]
  /\ UNCHANGED <<published, queue, http, up, uuid, signal, poll, bounds>>

\* reconcileEntry: getStateUpdater fails; the row was released again when
\* only the transition is invalid.
AcquireFails(s) ==
  LET op == worker[s].op IN
  /\ worker[s].pc = "acquire"
  /\ \E i \in EntryRows(s, op.entry) :
       \/ LockTimeout(s, i)
       \/ table[s][i].lock = "free" /\ ~CanUpdate(s, i, op.entry) /\ UNCHANGED timeouts
  /\ worker' = [worker EXCEPT ![s] = [pc |-> "failed", op |-> op]]
  /\ UNCHANGED <<table, published, queue, http, up, uuid, signal, poll, outside, faults, crashes>>

\* SendHTTPRequest reaches the peer, where setupTransferEndpoints routes it.
SendHTTPRequest(s, k) ==
  LET p == Peer(s)
      w == worker[s]
      entry == w.op.entry
  IN  /\ w.pc = "send"
      /\ up[p] /\ http[p][k].pc = "idle"
      /\ http' = [http EXCEPT ![p][k] =
           [pc |-> Dispatch(entry.msg.type),
            client |-> "worker", pid |-> entry.pid, msg |-> entry.msg]]
      /\ worker' = [worker EXCEPT ![s] =
           [pc |-> "wait", op |-> w.op, tr |-> w.tr, slot |-> k]]
      /\ UNCHANGED <<table, published, queue, up, uuid, signal, poll, bounds>>

\* SendHTTPRequest fails before anything reaches the peer, or after: then
\* the handler's answer is lost.
SendFails(s) ==
  LET p == Peer(s)
      w == worker[s]
  IN  /\ \/ w.pc = "send" /\ ~up[p] /\ UNCHANGED <<faults, http>>
         \/ w.pc = "send" /\ up[p] /\ Fault /\ UNCHANGED http
         \/ /\ w.pc = "wait" /\ Fault
            /\ http' = [http EXCEPT ![p][w.slot].client = "gone"]
      /\ worker' = [worker EXCEPT ![s] = [pc |-> "httpError", op |-> w.op, tr |-> w.tr]]
      /\ UNCHANGED <<table, published, queue, up, uuid, signal, poll, outside, timeouts, crashes>>

\* Mutant: the target state is stored whatever became of the message.
CommitAnyway(s) ==
  LET w == worker[s] IN
  /\ w.pc \in {"answered", "httpError"}
  /\ Put(s, w.tr)
  /\ worker' = [worker EXCEPT ![s] = Idle]
  /\ UNCHANGED <<published, queue, http, up, uuid, signal, poll, bounds>>

\* reconcileEntry: Commit; requestUpdater.ApplyResponse does nothing.
Commit(s) ==
  LET w == worker[s] IN
  /\ w.pc = "answered"
  /\ Put(s, w.tr)
  /\ worker' = [worker EXCEPT ![s] = Idle]
  /\ UNCHANGED <<published, queue, http, up, uuid, signal, poll, bounds>>

\* Mutant: the comparison with the limit is off by one.
RequeueOnceMore(s) ==
  LET w == worker[s] IN
  /\ w.pc \in {"failed", "httpError"}
  /\ w.op.attempts <= MaxAttempts
  /\ queue' = [queue EXCEPT ![s] = Append(@, w.op)]
  /\ IF w.pc = "httpError" THEN SetLock(s, w.tr.id, "free") ELSE UNCHANGED table
  /\ worker' = [worker EXCEPT ![s] = Idle]
  /\ UNCHANGED <<published, http, up, uuid, signal, poll, bounds>>

\* handleError: there is time for another attempt.  The deferred Rollback
\* releases the row if reconcileEntry held it.
Requeue(s) ==
  LET w == worker[s] IN
  /\ w.pc \in {"failed", "httpError"}
  /\ w.op.attempts < MaxAttempts
  /\ queue' = [queue EXCEPT ![s] = Append(@, w.op)]
  /\ IF w.pc = "httpError" THEN SetLock(s, w.tr.id, "free") ELSE UNCHANGED table
  /\ worker' = [worker EXCEPT ![s] = Idle]
  /\ UNCHANGED <<published, http, up, uuid, signal, poll, bounds>>

\* handleError gives up after getStateUpdater failed: terminate.
GiveUp(s) ==
  /\ worker[s].pc = "failed"
  /\ worker' = [worker EXCEPT ![s].pc = "terminate"]
  /\ UNCHANGED <<table, published, queue, http, up, uuid, signal, poll, bounds>>

\* terminateAttempt: lock the row, set entry.TargetState and store it.
Terminate(s) ==
  LET entry == worker[s].op.entry IN
  /\ worker[s].pc = "terminate"
  /\ \E i \in EntryRows(s, entry) :
       CanUpdate(s, i, entry) /\ table' = [table EXCEPT ![s][i].state = entry.target]
  /\ worker' = [worker EXCEPT ![s] = Idle]
  /\ UNCHANGED <<published, queue, http, up, uuid, signal, poll, bounds>>

-----------------------------------------------------------------------------
(* Death and restart of a process                                          *)

\* The memory of connector s is gone, its peer's connections break, and the
\* rows its goroutines had locked stay locked but for those `released'.
Die(s, released) ==
  LET p == Peer(s)
      w == worker[p]
  IN  /\ up' = [up EXCEPT ![s] = FALSE]
      /\ queue' = [queue EXCEPT ![s] = <<>>]
      /\ table' = [table EXCEPT ![s] =
           [i \in DOMAIN @ |-> IF @[i].lock = "free" \/ i \in released
                                 THEN [@[i] EXCEPT !.lock = "free"]
                                 ELSE [@[i] EXCEPT !.lock = "leaked"]]]
      /\ http' = [http EXCEPT
           ![s] = [k \in Slots |-> Idle],
           ![p] = [k \in Slots |-> IF @[k].pc # "idle" /\ @[k].client = "worker"
                                     THEN [@[k] EXCEPT !.client = "gone"] ELSE @[k]]]
      /\ worker' = [worker EXCEPT
           ![s] = Idle,
           ![p] = IF w.pc = "wait"
                    THEN [pc |-> "httpError", op |-> w.op, tr |-> w.tr] ELSE w]
      /\ signal' = [signal EXCEPT ![s] = IF @ = "locked" THEN "none" ELSE @]
      /\ poll' = [poll EXCEPT ![s] = IF @.pc = "polling" THEN [pc |-> "failed"] ELSE @]
      /\ UNCHANGED <<published, uuid>>

\* handleError gives up after the HTTP request failed: terminate cannot lock
\* the row that reconcileEntry holds and panics; the deferred Rollback
\* releases the row on the way out.
PanicHolding(s) ==
  /\ worker[s].pc = "httpError"
  /\ Die(s, {worker[s].tr.id})
  /\ UNCHANGED bounds

\* terminate panics because its ten attempts fail.
PanicTerminating(s) ==
  LET entry == worker[s].op.entry IN
  /\ worker[s].pc = "terminate"
  /\ \A i \in EntryRows(s, entry) :
       \/ Stuck(s, i)
       \/ table[s][i].lock = "free" /\ ~CanUpdate(s, i, entry)
  /\ Die(s, {})
  /\ UNCHANGED bounds

Crash(s) ==
  /\ up[s] /\ crashes < MaxCrashes
  /\ crashes' = crashes + 1
  /\ Die(s, {})
  /\ UNCHANGED <<outside, faults, timeouts>>

\* The process starts again on its database: nothing unlocks rows, refills
\* the deque or looks for endpoints that are still published.
Restart(s) ==
  /\ ~up[s]
  /\ up' = [up EXCEPT ![s] = TRUE]
  /\ UNCHANGED <<table, published, queue, worker, http, uuid, signal, poll, bounds>>

-----------------------------------------------------------------------------

Init ==
  /\ table = [s \in Roles |-> <<>>]
  /\ published = {}
  /\ queue = [s \in Roles |-> <<>>]
  /\ worker = [s \in Roles |-> Idle]
  /\ http = [s \in Roles |-> [k \in Slots |-> Idle]]
  /\ up = [s \in Roles |-> TRUE]
  /\ uuid = 1
  /\ signal = [s \in Roles |-> "none"]
  /\ poll = [s \in Roles |-> Idle]
  /\ outside = <<>>
  /\ faults = 0 /\ timeouts = 0 /\ crashes = 0

Handle(s, k) ==
  \/ CreateTransfer(s, k)
  \/ HandlerLock(s, k) \/ HandlerNotFound(s, k)
  \/ HandlerProcess(s, k) \/ HandlerReject(s, k) \/ HandlerStore(s, k)

Reconcile(s) ==
  \/ Take(s)
  \/ Acquire(s) \/ AcquireFails(s)
  \/ \E k \in Slots : SendHTTPRequest(s, k)
  \/ SendFails(s)
  \/ Commit(s) \/ Requeue(s)
  \/ GiveUp(s) \/ Terminate(s) \/ PanicHolding(s) \/ PanicTerminating(s)

\* What the running processes do by themselves.
Progress ==
  \/ Begin
  \/ \E s \in Roles :
       \/ Reconcile(s)
       \/ SignalReturns(s) \/ Poll(s)
       \/ \E k \in Slots : Handle(s, k)

Next ==
  \/ Progress
  \/ \E s \in Roles :
       \/ SignalTransferComplete(s)
       \/ Crash(s) \/ Restart(s)
       \/ \E k \in Slots : HandlerCancelled(s, k) \/ Receive(s, k)

Spec == Init /\ [][Next]_vars

\* As long as some goroutine of a running process can take a step, one does.
\* Nothing need arrive from outside, nothing need fail and nobody need restart
\* a dead process.
Fairness == WF_vars(Progress)

FairSpec == Spec /\ Fairness

-----------------------------------------------------------------------------
(* Properties                                                              *)

IDs == 0..(uuid - 1)

Rows ==
  [ lock: {"free", "worker", "signal", "leaked"} \cup Slots, state: TransferStates,
    ppid: IDs, cpid: IDs, role: Roles, direction: {"PULL", "PUSH"},
    publishInfo: {{}} \cup {{i} : i \in
      Infos \cup {DataAddressToPublishInfo(publishInfoToDataAddress(i)) : i \in Infos}} ]

\* Rows, deques and processes have the shape the code gives them.
TypeOK ==
  /\ \A s \in Roles :
       /\ table[s] \in Seq(Rows)
       /\ \A i \in DOMAIN table[s] : table[s][i].role = s
       /\ \A i \in DOMAIN queue[s] : queue[s][i].attempts \in 0..(MaxAttempts - 1)
       /\ up[s] \in BOOLEAN
       /\ ~up[s] => queue[s] = <<>> /\ worker[s] = Idle
  /\ published \subseteq [id: IDs, info: Infos]
  /\ signal \in [Roles -> {"none", "locked", "returned"}]
  /\ outside \in Seq(Outside) /\ Len(outside) <= MaxOutside
  /\ faults \in 0..MaxFaults /\ timeouts \in 0..MaxTimeouts /\ crashes \in 0..MaxCrashes

\* The rows of the two connectors that are halves of one transfer.
Halves ==
  {h \in Range(table["consumer"]) \X Range(table["provider"]) : h[1].cpid = h[2].cpid}

\* A connector commits a state it reached by sending only when the peer has
\* reached it, so no provider believes in a transfer that its consumer does
\* not know of (reconcileEntry stores TargetState after the answer and keeps
\* the row locked until then).  A lock that times out although its owner is
\* still working is excepted: terminate then stores TargetState unanswered.
PeerFirst ==
  timeouts = 0 => \A h \in Halves :
    /\ h[1].state \in {"REQUESTED", "STARTED"} => h[2].state # "INITIAL"
    /\ h[2].state = "STARTED" => h[1].state \in {"STARTED", "COMPLETED", "TERMINATED"}

\* A consumer whose pull has started was given an endpoint that is served,
\* unless somebody sent a completion: the dataset is published before the
\* start is sent and nothing else takes it away (Requested.Send,
\* unpublishTransfer).
DataAvailable ==
  \A h \in Halves :
    h[1].state = "STARTED" /\ h[1].direction = "PULL" /\ "completion" \notin Range(outside) =>
      \E e \in published :
        /\ h[1].ppid = h[2].ppid /\ h[1].ppid = e.id
        /\ \E i \in h[1].publishInfo : SameAccess(i, e.info)

\* A pull that is COMPLETED at the provider is no longer served, also when
\* the start is retried or crosses the completion (Started.Recv).
CompletedIsUnpublished ==
  \A i \in DOMAIN table["provider"] :
    LET r == table["provider"][i] IN
    r.state = "COMPLETED" => \A e \in published : e.id # r.ppid

\* However often a request is retried, at most one endpoint is published for
\* it: the UNIQUE consumer PID stands between a retry and PublishDataset.
OneEndpoint == \A i, j \in published : i = j

\* Once stored, a state only moves along validTransferTransitions, whoever
\* stores it from its own copy: a handler, the reconciler or terminate.
RowsMoveForward ==
  [][\A s \in Roles : \A i \in DOMAIN table[s] :
       LET r == table[s][i]
           r1 == table'[s][i]
       IN  /\ r1.state \in {r.state} \cup validTransferTransitions[r.state]
           /\ r.ppid \in {emptyUUID, r1.ppid}]_vars

NothingFails ==
  /\ faults = 0 /\ timeouts = 0 /\ crashes = 0
  /\ "termination" \notin Range(outside)
  /\ \A r \in Range(table["consumer"]) : CanMarshal(r)
  /\ \A e \in published : ValidAddress(publishInfoToDataAddress(e.info))

\* Without failures a transfer that was requested is started at both
\* connectors, also when a completion crosses the answer to the start.
Starts ==
  []NothingFails =>
    <>(\E h \in Halves : h[1].state = "STARTED" /\ h[2].state = "STARTED")

\* What the dataset services have said of where the data is: at the provider
\* for a download, in the row of the consumer for an upload.
Origin(s) ==
  IF s = "consumer" THEN {e.info : e \in published}
                    ELSE UNION {r.publishInfo : r \in Range(table["consumer"])}

\* Without failures and outside messages the client that asked for the data,
\* or for the place to put it, gets what the dataset service of the peer has
\* said, after two conversions and two databases
\* (GetProviderDatasetDownloadInformation,
\* GetProviderDatasetUploadInformation).
CallReturns ==
  [](NothingFails /\ outside = <<>>) =>
    <>(\E s \in Roles :
         /\ poll[s].pc = "returned"
         /\ \E i \in poll[s].publishInfo, j \in Origin(s) : SameAccess(i, j))

\* Nothing is retried or waited for forever, even though rejected messages
\* leave rows locked.
ComesToRest ==
  <>[](\A s \in Roles : /\ queue[s] = <<>> /\ worker[s] = Idle
                        /\ \A k \in Slots : http[s][k] = Idle)

=============================================================================
