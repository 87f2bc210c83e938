--------------------------- MODULE NegotiationPeers ---------------------------
(***************************************************************************)
(* Two connectors negotiating one contract.  Each has a database (the      *)
(* negotiations with their locked column and the agreements), HTTP         *)
(* handlers, a reconciler that delivers its messages one at a time, and a  *)
(* control plane; they talk by HTTP requests that can be lost, answered    *)
(* late or cut off, and each process can die and be restarted on its       *)
(* database.                                                               *)
(*                                                                         *)
(* A request occupies a slot of the connector it is sent to from the       *)
(* moment it is sent; the sender's worker waits for the answer unless the  *)
(* connection breaks, after which the handler runs on with a context that  *)
(* is cancelled at some point, or never.                                   *)
(* The manager goroutine and its timer are folded into Take.               *)
(***************************************************************************)
EXTENDS Negotiation, Sequences, Functions

CONSTANTS
  Slots,        \* HTTP requests a connector serves at the same time
  Starts,       \* the control calls of which one starts the negotiation
  Service,      \* [Roles -> BOOLEAN]: is a contract service configured
  Found,        \* the possible outcomes of the provider's GetDataset
  CallAuto,     \* the AutoAccept flags a control call may carry
  Terminators,  \* the connectors whose operator may call ContractTerminate
  Refusals,     \* whether operators also make calls the state does not allow
  MaxAttempts,  \* attempts that fit into maxDuration
  MaxCalls,     \* bound on control calls after the first
  MaxFaults,    \* bound on lost or failed exchanges
  MaxTimeouts,  \* bound on lock timeouts although the owner is still working
  MaxCrashes    \* bound on process deaths that are not panics

\* The lock of a row is the slot of its handler or one of these names.
ASSUME SlotsAssumption == Slots \cap {"free", "worker", "leaked"} = {}
ASSUME StartsAssumption == Starts \subseteq {"download", "upload", "request", "offer"}
ASSUME ServiceAssumption == Service \in [Roles -> BOOLEAN]
ASSUME FlagsAssumption ==
  Found \subseteq BOOLEAN /\ CallAuto \subseteq BOOLEAN /\ Refusals \in BOOLEAN
ASSUME TerminatorsAssumption == Terminators \subseteq Roles
ASSUME BoundsAssumption ==
  /\ MaxAttempts \in Nat \ {0}
  /\ MaxCalls \in Nat /\ MaxFaults \in Nat
  /\ MaxTimeouts \in Nat /\ MaxCrashes \in Nat

VARIABLES
  table,       \* [Roles -> Seq(row)]: contract_negotiations, by row ID; the
               \* `lock' of a row says who set its locked column ("free": false)
  agreements,  \* [Roles -> set of agreement IDs]: the agreements table
  queue,       \* [Roles -> Seq(operation)]: the reconciler's deque
  worker,      \* [Roles -> what the reconciler's worker is doing]
  http,        \* [Roles -> [Slots -> the request being served]]
  control,     \* [Roles -> the control call being served]
  poll,        \* [Roles -> the download or upload call that polls the store]
  up,          \* [Roles -> BOOLEAN]: is the process running
  uuid,        \* the next UUID uuid.New returns
  calls, faults, timeouts, crashes   \* how much of each bound is used up

vars == <<table, agreements, queue, worker, http, control, poll, up, uuid,
          calls, faults, timeouts, crashes>>

store == <<table, agreements>>
bounds == <<calls, faults, timeouts, crashes>>

Idle == [pc |-> "idle"]

\* The rows GetContract selects.  The PID columns are UNIQUE, so there is at
\* most one.
Lookup(s, role, pid) == {i \in DOMAIN table[s] : Matches(table[s][i], role, pid)}

\* Row i refers to an agreement that is not stored (yet).
Dangling(s, i) == table[s][i].agreement \notin agreements[s] \cup {emptyUUID}

\* Mutant: the locked column is not part of the condition.
FreeIgnoringLock(s, i) == ~Dangling(s, i)

\* GetContract with WithRW can succeed now.
Free(s, i) == table[s][i].lock = "free" /\ ~Dangling(s, i)

SetLock(s, i, owner) == table' = [table EXCEPT ![s][i].lock = owner]

\* PutContract of a modified negotiation that has a row.
Put(s, n) == table' = [table EXCEPT ![s][n.id] = ToModel(n)]

\* The operations reconciler.Add makes of the entries of an applyFunc.
Operations(entries) == [i \in DOMAIN entries |-> [entry |-> entries[i], attempts |-> 0]]

Fault == faults < MaxFaults /\ faults' = faults + 1

-----------------------------------------------------------------------------
(* Waiting for a lock                                                      *)

\* The role under which a request looks up its row;
\* contractTerminationHandler tries the provider PID first.
LookupRole(s, h) ==
  IF h.route = "any"
    THEN IF Lookup(s, "provider", h.pid) # {} THEN "provider" ELSE "consumer"
    ELSE h.route

\* The rows that a request which needs one finds, locked or not.
Wanted(s, k) ==
  LET h == http[s][k] IN
  IF h.pc = "lock" THEN Lookup(s, LookupRole(s, h), h.pid) ELSE {}

\* The locked rows of the peer for which the worker of s waits.
WaitsFor(s) ==
  LET p == Peer(s) IN
  IF worker[s].pc = "wait"
    THEN {j \in Wanted(p, worker[s].slot) : table[p][j].lock # "free"}
    ELSE {}

\* Nobody is going to free row i of s: the lock was left behind, or the two
\* workers hold the rows that they wait for.
Stuck(s, i) ==
  LET p == Peer(s) IN
  \/ table[s][i].lock = "leaked"
  \/ /\ table[s][i].lock = "worker"
     /\ \E j \in WaitsFor(s) :
          \/ table[p][j].lock = "leaked"
          \/ table[p][j].lock = "worker" /\ i \in WaitsFor(p)

\* getContractLocked gives up after lockTimeout seconds.
LockTimeout(s, i) ==
  /\ table[s][i].lock # "free"
  /\ \/ Stuck(s, i) /\ UNCHANGED timeouts
     \/ ~Stuck(s, i) /\ timeouts < MaxTimeouts /\ timeouts' = timeouts + 1

-----------------------------------------------------------------------------
(* The control plane starts the negotiation                                *)

\* GetProviderDatasetDownloadInformation: only this call names the callback
\* root as its own address.
DownloadNegotiation ==
  New("consumer", emptyUUID, uuid, "root", "callback", ~Service["consumer"])

\* GetProviderDatasetUploadInformation.
UploadNegotiation ==
  New("provider", uuid, emptyUUID, "root", "root", ~Service["provider"])

\* ContractRequest without a PID.
RequestNegotiation(auto) ==
  New("consumer", emptyUUID, uuid, "root", "root", auto \/ ~Service["consumer"])

\* ContractOffer without a PID.
OfferNegotiation(auto) ==
  New("provider", uuid, emptyUUID, "root", "root", auto \/ ~Service["provider"])

\* Mutant: the callback prefix is forgotten for downloads too.
FirstNegotiationAtRoot(start, auto) ==
  IF start \in {"offer", "upload"} THEN OfferNegotiation(auto) ELSE RequestNegotiation(auto)

\* The negotiation that the first control call stores.
FirstNegotiation(start, auto) ==
  CASE start = "download" -> DownloadNegotiation
    [] start = "upload"   -> UploadNegotiation
    [] start = "request"  -> RequestNegotiation(auto)
    [] start = "offer"    -> OfferNegotiation(auto)

\* The calls that stay to see the negotiation finalized.
Polling(start, n) ==
  IF start \in {"download", "upload"} THEN [pc |-> "polling", pid |-> LocalPID(n)] ELSE Idle

\* The call, up to the polling loop of the download or upload: store, lock,
\* Send, store, enqueue.
Begin ==
  /\ uuid = 1
  /\ \E start \in Starts, found \in Found, auto \in CallAuto :
       LET first == FirstNegotiation(start, auto)
           sent == Send(first, uuid, found)
       IN
       /\ up[first.role]
       /\ table' = [table EXCEPT ![first.role] =
            <<[ToModel(first) EXCEPT !.lock = IF sent.ok THEN "free" ELSE "leaked"]>>]
       /\ queue' = [queue EXCEPT ![first.role] = Operations(sent.entries)]
       /\ poll' = [poll EXCEPT ![first.role] =
            IF sent.ok THEN Polling(start, first) ELSE [pc |-> "failed"]]
  /\ uuid' = uuid + 1
  /\ UNCHANGED <<agreements, worker, http, control, up, bounds>>

\* The agreement that comes with a negotiation read without WithRW.
ReadAgreement(s, i) == IF Dangling(s, i) THEN emptyUUID ELSE table[s][i].agreement

\* Mutant: the loop does not look for TERMINATED.
PollsOn(s) ==
  /\ poll[s].pc = "polling"
  /\ \E i \in Lookup(s, s, poll[s].pid) :
       /\ table[s][i].state = "FINALIZED"
       /\ poll' = [poll EXCEPT ![s] = [pc |-> "finalized", agreement |-> ReadAgreement(s, i)]]
  /\ UNCHANGED <<store, queue, worker, http, control, up, uuid, bounds>>

\* Mutant: the loop ends as soon as the negotiation is agreed.
PollsUntilAgreed(s) ==
  /\ poll[s].pc = "polling"
  /\ \E i \in Lookup(s, s, poll[s].pid) :
       /\ table[s][i].state \in {"AGREED", "VERIFIED", "FINALIZED"}
       /\ poll' = [poll EXCEPT ![s] = [pc |-> "finalized", agreement |-> ReadAgreement(s, i)]]
  /\ UNCHANGED <<store, queue, worker, http, control, up, uuid, bounds>>

\* The polling loop of the download (consumer) and of the upload (provider),
\* which only FINALIZED ends, or an error; the download also looks for
\* TERMINATED.  The loop changes nothing, so a call that its client cancels is
\* like one that never polled.
Poll(s) ==
  LET rows == Lookup(s, s, poll[s].pid) IN
  /\ poll[s].pc = "polling"
  /\ \/ rows = {} /\ poll' = [poll EXCEPT ![s] = [pc |-> "failed"]]
     \/ \E i \in rows :
          /\ table[s][i].state = "FINALIZED"
          /\ poll' = [poll EXCEPT ![s] = [pc |-> "finalized", agreement |-> ReadAgreement(s, i)]]
     \/ /\ s = "consumer" /\ \E i \in rows : table[s][i].state = "TERMINATED"
        /\ poll' = [poll EXCEPT ![s] = [pc |-> "aborted"]]
  /\ UNCHANGED <<store, queue, worker, http, control, up, uuid, bounds>>

-----------------------------------------------------------------------------
(* The HTTP handlers of connector s                                        *)

\* Slot k is free again and its client, if it still waits, gets the answer.
Answer(s, k, pc, ack) ==
  LET p == Peer(s) IN
  /\ http' = [http EXCEPT ![s][k] = Idle]
  /\ worker' = IF http[s][k].live
                 THEN [worker EXCEPT ![p] = [pc |-> pc, op |-> worker[p].op,
                                             neg |-> worker[p].neg, ack |-> ack]]
                 ELSE worker

NoAck == [ppid |-> emptyUUID, cpid |-> emptyUUID]

\* The handler returns a non-2xx status.
Refuse(s, k) == Answer(s, k, "httpError", NoAck)

\* The mux dispatches the request; the PID is parsed from the path.
RouteRequest(s, k) ==
  LET h == http[s][k]
      route == Route(h.req.base, h.req.pid, h.req.msg.type)
  IN  /\ h.pc = "arrived"
      /\ route \notin {"newRequest", "newOffer"}
      /\ IF route = "none"
           THEN Refuse(s, k)
           ELSE /\ http' = [http EXCEPT ![s][k] =
                     [pc |-> "lock", req |-> h.req, live |-> h.live,
                      route |-> route, pid |-> h.req.pid]]
                /\ UNCHANGED worker
      /\ UNCHANGED <<store, queue, control, poll, up, uuid, bounds>>

\* Mutant: only provider_pid is UNIQUE.
ConflictOnProvider(s, n) ==
  \E i \in DOMAIN table[s] \ {n.id} : n.ppid # emptyUUID /\ table[s][i].ppid = n.ppid

\* The UNIQUE constraints on the PID columns; NULLs do not count.
Conflict(s, n) ==
  \E i \in DOMAIN table[s] \ {n.id} :
    \/ n.ppid # emptyUUID /\ table[s][i].ppid = n.ppid
    \/ n.cpid # emptyUUID /\ table[s][i].cpid = n.cpid

\* providerContractRequestHandler: the negotiation made of a request.
NegotiationOfRequest(s, m) == New("provider", uuid, m.cpid, m.callback, "root", ~Service[s])

\* consumerContractOfferHandler: the negotiation made of an offer.
NegotiationOfOffer(s, m) == New("consumer", m.ppid, uuid, m.callback, "callback", ~Service[s])

\* A new negotiation is stored before processMessage works on it.  The insert
\* fails when the negotiation is already there.
CreateNegotiation(s, k) ==
  LET h == http[s][k]
      m == h.req.msg
      route == Route(h.req.base, h.req.pid, m.type)
      n == IF route = "newRequest" THEN NegotiationOfRequest(s, m) ELSE NegotiationOfOffer(s, m)
  IN  /\ h.pc = "arrived"
      /\ route \in {"newRequest", "newOffer"}
      /\ IF Conflict(s, n)
           THEN Refuse(s, k) /\ UNCHANGED <<table, uuid>>
           ELSE /\ table' = [table EXCEPT ![s] = Append(@, ToModel(n))]
                /\ uuid' = uuid + 1
                /\ http' = [http EXCEPT ![s][k] =
                     [pc |-> "lock", req |-> h.req, live |-> h.live,
                      route |-> n.role, pid |-> LocalPID(n)]]
                /\ UNCHANGED worker
      /\ UNCHANGED <<agreements, queue, control, poll, up, bounds>>

\* processMessage: GetContract with WithRW.
HandlerLock(s, k) ==
  LET h == http[s][k] IN
  \E i \in Wanted(s, k) :
    /\ Free(s, i)
    /\ SetLock(s, i, k)
    /\ http' = [http EXCEPT ![s][k] = [pc |-> "locked", req |-> h.req, live |-> h.live,
                                       neg |-> FromModel(table[s][i], i)]]
    /\ UNCHANGED <<agreements, queue, worker, control, poll, up, uuid, bounds>>

\* GetContract fails: no such negotiation, the lock is not to be had, or the
\* lock was taken and then the agreement is not found (the lock stays).
HandlerNotFound(s, k) ==
  /\ http[s][k].pc = "lock"
  /\ \/ Wanted(s, k) = {} /\ UNCHANGED <<table, timeouts>>
     \/ \E i \in Wanted(s, k) :
          \/ LockTimeout(s, i) /\ UNCHANGED table
          \/ /\ table[s][i].lock = "free" /\ Dangling(s, i)
             /\ SetLock(s, i, "leaked") /\ UNCHANGED timeouts
  /\ Refuse(s, k)
  /\ UNCHANGED <<agreements, queue, control, poll, up, uuid, calls, faults, crashes>>

\* processMessage: Recv, and Send right after it for a negotiation that is
\* accepted automatically or a connector without contract service.
Process(s, n, m, found) ==
  LET r == Recv(n, m, uuid, found)
  IN  IF r.ok
        THEN IF r.neg.autoAccept \/ ~Service[s]
               THEN Send(r.neg, uuid, found) ELSE SendsNothing(r.neg)
        ELSE SendFails(n)

\* The counter moves on when n took the fresh UUID.
UuidAfter(n) == IF uuid \in {n.ppid, n.cpid, n.agreement} THEN uuid + 1 ELSE uuid

\* processMessage: the message is accepted and PutContract stores the result
\* and gives the row back.
HandlerStore(s, k) ==
  LET h == http[s][k] IN
  /\ h.pc = "locked"
  /\ \E found \in Found :
       LET out == Process(s, h.neg, h.req.msg, found) IN
       /\ out.ok
       /\ Put(s, out.neg)
       /\ uuid' = UuidAfter(out.neg)
       /\ http' = [http EXCEPT ![s][k] =
            [pc |-> IF out.neg.newAgreement THEN "stored" ELSE "apply",
             req |-> h.req, live |-> h.live, neg |-> out.neg, entries |-> out.entries]]
  /\ UNCHANGED <<agreements, queue, worker, control, poll, up, bounds>>

\* processMessage: Recv or Send fails; the deferred function releases the row.
HandlerReject(s, k) ==
  LET h == http[s][k] IN
  /\ h.pc = "locked"
  /\ \E found \in Found : ~Process(s, h.neg, h.req.msg, found).ok
  /\ SetLock(s, h.neg.id, "free")
  /\ Refuse(s, k)
  /\ UNCHANGED <<agreements, queue, control, poll, up, uuid, bounds>>

\* storeNegotiation: PutAgreement.
HandlerPutAgreement(s, k) ==
  LET h == http[s][k] IN
  /\ h.pc = "stored"
  /\ agreements' = [agreements EXCEPT ![s] = @ \cup {h.neg.agreement}]
  /\ http' = [http EXCEPT ![s][k].pc = "apply"]
  /\ UNCHANGED <<table, queue, worker, control, poll, up, uuid, bounds>>

\* processMessage: apply() enqueues the answer, or notifies the contract
\* service, and the ContractNegotiation is returned.
HandlerApply(s, k) ==
  LET h == http[s][k] IN
  /\ h.pc = "apply"
  /\ queue' = [queue EXCEPT ![s] = @ \o Operations(h.entries)]
  /\ Answer(s, k, "answered", [ppid |-> h.neg.ppid, cpid |-> h.neg.cpid])
  /\ UNCHANGED <<store, control, poll, up, uuid, bounds>>

\* processMessage: the contract service cannot be notified; the client gets
\* an error although the negotiation was stored.
HandlerNotifyFails(s, k) ==
  LET h == http[s][k] IN
  /\ h.pc = "apply"
  /\ Service[s] /\ ~h.neg.autoAccept
  /\ IF h.live THEN Fault ELSE UNCHANGED faults
  /\ Refuse(s, k)
  /\ UNCHANGED <<store, queue, control, poll, up, uuid, calls, timeouts, crashes>>

\* The client is gone and with it the request's context: the next statement
\* fails, and so does the deferred ReleaseContract.
HandlerCancelled(s, k) ==
  LET h == http[s][k] IN
  /\ h.pc \in {"arrived", "lock", "locked", "stored"}
  /\ ~h.live
  /\ IF h.pc = "locked" THEN SetLock(s, h.neg.id, "leaked") ELSE UNCHANGED table
  /\ Refuse(s, k)
  /\ UNCHANGED <<agreements, queue, control, poll, up, uuid, bounds>>

-----------------------------------------------------------------------------
(* The reconciler of connector s                                           *)

\* Mutant: Attempts is not incremented.
TakeUncounted(s, i) ==
  /\ up[s] /\ worker[s].pc = "idle"
  /\ i \in DOMAIN queue[s]
  /\ \A j \in 1..(i - 1) : queue[s][j].attempts > 0
  /\ queue' = [queue EXCEPT ![s] = SubSeq(@, 1, i - 1) \o SubSeq(@, i + 1, Len(@))]
  /\ worker' = [worker EXCEPT ![s] = [pc |-> "acquire", op |-> queue[s][i]]]
  /\ UNCHANGED <<store, http, control, poll, up, uuid, bounds>>

\* manager and worker: an operation is taken off the deque.  Operations that
\* wait for their next attempt are passed over, new ones are always due.
Take(s, i) ==
  /\ up[s] /\ worker[s].pc = "idle"
  /\ i \in DOMAIN queue[s]
  /\ \A j \in 1..(i - 1) : queue[s][j].attempts > 0
  /\ queue' = [queue EXCEPT ![s] = SubSeq(@, 1, i - 1) \o SubSeq(@, i + 1, Len(@))]
  /\ worker' = [worker EXCEPT ![s] =
       [pc |-> "acquire", op |-> [queue[s][i] EXCEPT !.attempts = @ + 1]]]
  /\ UNCHANGED <<store, http, control, poll, up, uuid, bounds>>

\* The row of an entry, and whether newNegotiationUpdater can move it.
EntryRows(s, entry) == Lookup(s, s, entry.entityID)

\* Mutant: the error of SetState is ignored.
CanUpdateAnyway(s, i, entry) == Free(s, i)

CanUpdate(s, i, entry) == Free(s, i) /\ CanSetState(table[s][i], entry.target)

\* reconcileEntry: getStateUpdater.
Acquire(s) ==
  LET op == worker[s].op IN
  /\ worker[s].pc = "acquire"
  /\ \E i \in EntryRows(s, op.entry) :
       /\ CanUpdate(s, i, op.entry)
       /\ SetLock(s, i, "worker")
       /\ worker' = [worker EXCEPT ![s] =
            [pc |-> "send", op |-> op,
             neg |-> SetState(FromModel(table[s][i], i), op.entry.target)]]
  /\ UNCHANGED <<agreements, queue, http, control, poll, up, uuid, bounds>>

\* reconcileEntry: getStateUpdater fails.  The row was released again when
\* the transition is invalid, and stays locked when the agreement is missing.
AcquireFails(s) ==
  LET op == worker[s].op
      rows == EntryRows(s, op.entry)
  IN  /\ worker[s].pc = "acquire"
      /\ \/ rows = {} /\ UNCHANGED <<table, timeouts>>
         \/ \E i \in rows :
              \/ LockTimeout(s, i) /\ UNCHANGED table
              \/ /\ Free(s, i) /\ ~CanUpdate(s, i, op.entry)
                 /\ UNCHANGED <<table, timeouts>>
              \/ /\ table[s][i].lock = "free" /\ Dangling(s, i)
                 /\ SetLock(s, i, "leaked") /\ UNCHANGED timeouts
      /\ worker' = [worker EXCEPT ![s] = [pc |-> "failed", op |-> op]]
      /\ UNCHANGED <<agreements, queue, http, control, poll, up, uuid, calls, faults, crashes>>

\* SendHTTPRequest reaches the peer.
SendHTTPRequest(s, k) ==
  LET p == Peer(s)
      w == worker[s]
  IN  /\ w.pc = "send"
      /\ up[p] /\ http[p][k].pc = "idle"
      /\ http' = [http EXCEPT ![p][k] =
           [pc |-> "arrived", live |-> TRUE,
            req |-> [base |-> w.op.entry.base, pid |-> w.op.entry.pid,
                     msg |-> w.op.entry.msg]]]
      /\ worker' = [worker EXCEPT ![s] =
           [pc |-> "wait", op |-> w.op, neg |-> w.neg, slot |-> k]]
      /\ UNCHANGED <<store, queue, control, poll, up, uuid, bounds>>

\* SendHTTPRequest fails before anything reaches the peer.
SendFailsEarly(s) ==
  /\ worker[s].pc = "send"
  /\ \/ ~up[Peer(s)] /\ UNCHANGED faults
     \/ up[Peer(s)] /\ Fault
  /\ worker' = [worker EXCEPT ![s] =
       [pc |-> "httpError", op |-> worker[s].op, neg |-> worker[s].neg, ack |-> NoAck]]
  /\ UNCHANGED <<store, queue, http, control, poll, up, uuid, calls, timeouts, crashes>>

\* The connection breaks while the worker waits: whatever the handler at the
\* other side does, its answer is lost.
ConnectionLost(s) ==
  LET w == worker[s] IN
  /\ w.pc = "wait"
  /\ Fault
  /\ http' = [http EXCEPT ![Peer(s)][w.slot].live = FALSE]
  /\ worker' = [worker EXCEPT ![s] =
       [pc |-> "httpError", op |-> w.op, neg |-> w.neg, ack |-> NoAck]]
  /\ UNCHANGED <<store, queue, control, poll, up, uuid, calls, timeouts, crashes>>

\* reconcileEntry: ApplyResponse and Commit.
Commit(s) ==
  LET w == worker[s] IN
  /\ w.pc = "answered"
  /\ Put(s, ApplyResponse(w.neg, w.ack))
  /\ worker' = [worker EXCEPT ![s] = Idle]
  /\ UNCHANGED <<agreements, queue, http, control, poll, up, uuid, bounds>>

\* Mutant: the comparison with the limit is off by one.
RequeueOnceMore(s) ==
  LET w == worker[s] IN
  /\ w.pc \in {"failed", "httpError"}
  /\ w.op.attempts <= MaxAttempts
  /\ queue' = [queue EXCEPT ![s] = Append(@, w.op)]
  /\ IF w.pc = "httpError" THEN SetLock(s, w.neg.id, "free") ELSE UNCHANGED table
  /\ worker' = [worker EXCEPT ![s] = Idle]
  /\ UNCHANGED <<agreements, http, control, poll, up, uuid, bounds>>

\* handleError: there is time for another attempt.  The deferred Rollback
\* releases the row if reconcileEntry held it.
Requeue(s) ==
  LET w == worker[s] IN
  /\ w.pc \in {"failed", "httpError"}
  /\ w.op.attempts < MaxAttempts
  /\ queue' = [queue EXCEPT ![s] = Append(@, w.op)]
  /\ IF w.pc = "httpError" THEN SetLock(s, w.neg.id, "free") ELSE UNCHANGED table
  /\ worker' = [worker EXCEPT ![s] = Idle]
  /\ UNCHANGED <<agreements, http, control, poll, up, uuid, bounds>>

\* handleError gives up after getStateUpdater failed: terminate.  Waiting for
\* locks or for slow answers can use up maxDuration at any attempt.
GiveUp(s) ==
  /\ worker[s].pc = "failed"
  /\ worker' = [worker EXCEPT ![s].pc = "terminate"]
  /\ UNCHANGED <<store, queue, http, control, poll, up, uuid, bounds>>

\* terminateAttempt: lock the row, set entry.TargetState and store it.
Terminate(s) ==
  LET entry == worker[s].op.entry IN
  /\ worker[s].pc = "terminate"
  /\ \E i \in EntryRows(s, entry) :
       CanUpdate(s, i, entry) /\ table' = [table EXCEPT ![s][i].state = entry.target]
  /\ worker' = [worker EXCEPT ![s] = Idle]
  /\ UNCHANGED <<agreements, queue, http, control, poll, up, uuid, bounds>>

-----------------------------------------------------------------------------
(* Death and restart of a process                                          *)

\* The memory of connector s is gone; its peer's connections break.  A row
\* that a goroutine of s had locked stays locked in the database, but for
\* those that deferred functions release.
Die(s, released) ==
  LET p == Peer(s) IN
  /\ up' = [up EXCEPT ![s] = FALSE]
  /\ queue' = [queue EXCEPT ![s] = <<>>]
  /\ control' = [control EXCEPT ![s] = Idle]
  /\ poll' = [poll EXCEPT ![s] = IF @.pc = "polling" THEN [pc |-> "failed"] ELSE @]
  /\ table' = [table EXCEPT ![s] =
       [i \in DOMAIN @ |-> IF @[i].lock = "free" \/ i \in released
                             THEN [@[i] EXCEPT !.lock = "free"]
                             ELSE [@[i] EXCEPT !.lock = "leaked"]]]
  /\ http' = [http EXCEPT ![s] = [k \in Slots |-> Idle],
                          ![p] = [k \in Slots |->
                                    IF http[p][k].pc = "idle" THEN Idle
                                    ELSE [http[p][k] EXCEPT !.live = FALSE]]]
  /\ worker' = [worker EXCEPT
       ![s] = Idle,
       ![p] = IF worker[p].pc = "wait"
                THEN [pc |-> "httpError", op |-> worker[p].op,
                      neg |-> worker[p].neg, ack |-> NoAck]
                ELSE worker[p]]
  /\ UNCHANGED <<agreements, uuid>>

\* handleError gives up after the HTTP request failed: terminate runs while
\* reconcileEntry still holds the row, so none of its attempts can lock it
\* and it panics; the deferred Rollback releases the row on the way out.
PanicHolding(s) ==
  /\ worker[s].pc = "httpError"
  /\ Die(s, {worker[s].neg.id})
  /\ UNCHANGED bounds

\* terminate panics because its ten attempts fail: the target state cannot
\* be set, the lock is never freed, or the agreement is missing.
PanicTerminating(s) ==
  LET entry == worker[s].op.entry IN
  /\ worker[s].pc = "terminate"
  /\ \A i \in EntryRows(s, entry) :
       \/ Stuck(s, i)
       \/ table[s][i].lock = "free" /\ ~CanUpdate(s, i, entry)
  /\ Die(s, {})
  /\ UNCHANGED bounds

Crash(s) ==
  /\ up[s] /\ crashes < MaxCrashes
  /\ crashes' = crashes + 1
  /\ Die(s, {})
  /\ UNCHANGED <<calls, faults, timeouts>>

\* The process starts again on its database: nothing unlocks rows and
\* nothing refills the deque.
Restart(s) ==
  /\ ~up[s]
  /\ up' = [up EXCEPT ![s] = TRUE]
  /\ UNCHANGED <<store, queue, worker, http, control, poll, uuid, bounds>>

-----------------------------------------------------------------------------
(* Control calls on a negotiation that exists                              *)

\* The calls of contracts.go: the role, the states they are valid in and
\* whether they set the initial flag.
ControlCalls ==
  { [role |-> "consumer", from |-> {"INITIAL", "OFFERED"},   initial |-> TRUE],
    [role |-> "provider", from |-> {"INITIAL", "REQUESTED"}, initial |-> TRUE],
    [role |-> "consumer", from |-> {"OFFERED"},              initial |-> FALSE],
    [role |-> "provider", from |-> {"REQUESTED", "ACCEPTED"}, initial |-> FALSE],
    [role |-> "consumer", from |-> {"AGREED"},               initial |-> FALSE],
    [role |-> "provider", from |-> {"VERIFIED"},             initial |-> FALSE] }

\* What sendContractMessage works on after GetContract.
Called(s, i, c, auto) ==
  [FromModel(table[s][i], i) EXCEPT !.initial = c.initial, !.autoAccept = @ \/ auto]

CallBegins(s, i) ==
  /\ up[s] /\ control[s].pc = "idle" /\ Free(s, i)
  /\ calls < MaxCalls /\ calls' = calls + 1

\* sendContractMessage: Send, then PutContract, which stores nothing when
\* the negotiation is unmodified.  A new agreement is stored afterwards.
Call(s, i, c, auto) ==
  LET n == Called(s, i, c, auto)
      out == Send(n, uuid, TRUE)
  IN  /\ c.role = s
      /\ CallBegins(s, i)
      /\ n.state \in c.from /\ out.ok
      /\ IF out.neg.modified THEN Put(s, out.neg) ELSE UNCHANGED table
      /\ uuid' = UuidAfter(out.neg)
      /\ IF out.neg.newAgreement
           THEN /\ control' = [control EXCEPT ![s] =
                     [pc |-> "stored", neg |-> out.neg, entries |-> out.entries]]
                /\ UNCHANGED queue
           ELSE /\ queue' = [queue EXCEPT ![s] = @ \o Operations(out.entries)]
                /\ UNCHANGED control
      /\ UNCHANGED <<agreements, worker, http, poll, up, faults, timeouts, crashes>>

\* sendContractMessage: PutAgreement and apply.
CallPutAgreement(s) ==
  /\ control[s].pc = "stored"
  /\ agreements' = [agreements EXCEPT ![s] = @ \cup {control[s].neg.agreement}]
  /\ queue' = [queue EXCEPT ![s] = @ \o Operations(control[s].entries)]
  /\ control' = [control EXCEPT ![s] = Idle]
  /\ UNCHANGED <<table, worker, http, poll, up, uuid, bounds>>

\* sendContractMessage: the state is not one of validFromStates, or Send
\* fails; the row is not released.
CallRefused(s, i, c) ==
  LET n == Called(s, i, c, FALSE) IN
  /\ Refusals /\ c.role = s
  /\ CallBegins(s, i)
  /\ n.state \notin c.from \/ ~Send(n, uuid, TRUE).ok
  /\ SetLock(s, i, "leaked")
  /\ UNCHANGED <<agreements, queue, worker, http, control, poll, up, uuid, faults, timeouts, crashes>>

\* ContractTerminate: a read-only look at the row, then the entry.
ContractTerminate(s, i) ==
  /\ s \in Terminators
  /\ up[s]
  /\ calls < MaxCalls /\ calls' = calls + 1
  /\ queue' = [queue EXCEPT ![s] =
       @ \o Operations(<<TerminationEntry(FromModel(table[s][i], i))>>)]
  /\ UNCHANGED <<store, worker, http, control, poll, up, uuid, faults, timeouts, crashes>>

-----------------------------------------------------------------------------

Init ==
  /\ table = [s \in Roles |-> <<>>]
  /\ agreements = [s \in Roles |-> {}]
  /\ queue = [s \in Roles |-> <<>>]
  /\ worker = [s \in Roles |-> Idle]
  /\ http = [s \in Roles |-> [k \in Slots |-> Idle]]
  /\ control = [s \in Roles |-> Idle]
  /\ poll = [s \in Roles |-> Idle]
  /\ up = [s \in Roles |-> TRUE]
  /\ uuid = 1
  /\ calls = 0 /\ faults = 0 /\ timeouts = 0 /\ crashes = 0

Handle(s, k) ==
  \/ RouteRequest(s, k) \/ CreateNegotiation(s, k)
  \/ HandlerLock(s, k) \/ HandlerNotFound(s, k)
  \/ HandlerStore(s, k) \/ HandlerReject(s, k)
  \/ HandlerPutAgreement(s, k) \/ HandlerApply(s, k)

Reconcile(s) ==
  \/ \E i \in DOMAIN queue[s] : Take(s, i)
  \/ Acquire(s) \/ AcquireFails(s)
  \/ \E k \in Slots : SendHTTPRequest(s, k)
  \/ SendFailsEarly(s)
  \/ Commit(s) \/ Requeue(s)
  \/ GiveUp(s) \/ Terminate(s) \/ PanicHolding(s) \/ PanicTerminating(s)

Operate(s) ==
  \E i \in DOMAIN table[s] :
    \/ \E c \in ControlCalls :
         CallRefused(s, i, c) \/ \E auto \in CallAuto : Call(s, i, c, auto)
    \/ ContractTerminate(s, i)

\* What the running processes do by themselves.
Progress ==
  \/ Begin
  \/ \E s \in Roles :
       \/ Reconcile(s)
       \/ CallPutAgreement(s) \/ Poll(s)
       \/ \E k \in Slots : Handle(s, k)

Next ==
  \/ Progress
  \/ \E s \in Roles :
       \/ Operate(s)
       \/ ConnectionLost(s) \/ Crash(s) \/ Restart(s)
       \/ \E k \in Slots : HandlerNotifyFails(s, k) \/ HandlerCancelled(s, k)

Spec == Init /\ [][Next]_vars

\* As long as some goroutine of a running process can take a step, one does.
\* Operators need not call, nothing need fail and nobody need restart a dead
\* process.
Fairness == WF_vars(Progress)

FairSpec == Spec /\ Fairness

-----------------------------------------------------------------------------
(* Properties                                                              *)

IDs == 0..(uuid - 1)

Rows ==
  [ lock: {"free", "worker", "leaked"} \cup Slots, state: States, ppid: IDs, cpid: IDs,
    agreement: IDs, callback: Bases, self: Bases, role: Roles, autoAccept: BOOLEAN ]

\* Rows, deques and processes have the shape the code gives them, and every
\* ID in the databases was drawn by uuid.New.
TypeOK ==
  /\ \A s \in Roles :
       /\ table[s] \in Seq(Rows)
       /\ \A i \in DOMAIN table[s] : table[s][i].role = s
       /\ agreements[s] \subseteq IDs
       /\ \A i \in DOMAIN queue[s] : queue[s][i].attempts \in 0..(MaxAttempts - 1)
       /\ up[s] \in BOOLEAN
       /\ ~up[s] => queue[s] = <<>> /\ worker[s] = Idle
  /\ uuid \in Nat
  /\ calls \in 0..MaxCalls /\ faults \in 0..MaxFaults
  /\ timeouts \in 0..MaxTimeouts /\ crashes \in 0..MaxCrashes

\* The rows of the two connectors that are halves of one negotiation.
Halves ==
  {h \in Range(table["consumer"]) \X Range(table["provider"]) : h[1].cpid = h[2].cpid}

\* A connector commits a state it reached by sending only when the peer has
\* reached it: the reconciler stores TargetState after the acknowledgement,
\* and until then its lock keeps the peer's next message from overtaking it
\* (reconcileEntry, processMessage).  In particular nobody is bound alone: a
\* provider is AGREED or FINALIZED only if its consumer is.  A lock that times
\* out although its owner is still working is excepted: terminate then stores
\* TargetState unanswered.  So are operators' calls: an entry can be queued
\* when its row has yet to be moved by another one, be given up because the
\* target cannot be set, and find the row moved on when terminate stores it.
PeerFirst ==
  calls = 0 /\ timeouts = 0 => \A h \in Halves :
    LET c == h[1].state
        p == h[2].state
    IN  /\ c = "REQUESTED" => p # "INITIAL"
        /\ c = "ACCEPTED" => p \notin {"INITIAL", "REQUESTED", "OFFERED"}
        /\ p = "AGREED" => c \in {"AGREED", "VERIFIED", "FINALIZED", "TERMINATED"}
        /\ c = "VERIFIED" => p \in {"VERIFIED", "FINALIZED", "TERMINATED"}
        /\ p = "FINALIZED" => c = "FINALIZED"

\* The two halves never contradict each other: a consumer that knows a
\* provider PID knows its peer's, and the agreement it holds is the one the
\* provider holds and had stored before it was sent (ApplyResponse,
\* verifyAndTransform, sendContractAgreement, storeNegotiation).  An operator
\* who calls ContractAgree while the last agreement waits to be delivered has
\* the provider's replaced, and so that case is excepted.
HalvesAgree ==
  calls = 0 => \A h \in Halves :
    /\ h[1].ppid \in {emptyUUID, h[2].ppid}
    /\ h[1].agreement # emptyUUID =>
         /\ h[1].agreement = h[2].agreement
         /\ h[2].agreement \in agreements["provider"]

\* The consumer is never bound to an agreement that its provider has not
\* stored, whichever calls and messages cross (sendContractAgreement,
\* processMessage, sendContractMessage).
AgreementKnown ==
  /\ agreements["consumer"] \subseteq agreements["provider"]
  /\ \A s \in Roles : \A i \in DOMAIN table[s] :
       table[s][i].state \in {"AGREED", "VERIFIED", "FINALIZED"} =>
         table[s][i].agreement # emptyUUID

\* A retried or crossing request never starts a second negotiation at the
\* provider (providerContractRequestHandler inserts before it looks, so only
\* the UNIQUE PID columns stand in the way).
OneNegotiation == Len(table["provider"]) <= 1

\* Every message is posted to a path that setupContractEndpoints routes, as
\* the tables of docs/statemachines/contract_negotiation.md have it.
Routed ==
  \A s \in Roles, k \in Slots :
    http[s][k].pc = "arrived" =>
      Route(http[s][k].req.base, http[s][k].req.pid, http[s][k].req.msg.type) # "none"

\* Once stored, a state only moves along validTransitions, whoever stores
\* it: handlers, the reconciler or a control call, each from its own copy.
\* PIDs are learned once and kept.
RowsMoveForward ==
  [][\A s \in Roles : \A i \in DOMAIN table[s] :
       LET r == table[s][i]
           r1 == table'[s][i]
       IN  /\ r1.state \in {r.state} \cup validTransitions[r.state]
           /\ r.state # "INITIAL" => /\ r.ppid \in {emptyUUID, r1.ppid}
                                     /\ r.cpid \in {emptyUUID, r1.cpid}]_vars

\* A call that returns after FINALIZED has read, without a lock, an agreement
\* that is stored, for a download at both connectors:
\* GetProviderDatasetDownloadInformation dereferences it to start the transfer,
\* GetProviderDatasetUploadInformation to find the one that is started.
CallGetsAgreement ==
  \A s \in Roles :
    poll[s].pc = "finalized" => poll[s].agreement \in agreements[s] \cap agreements["provider"]

Undisturbed == faults = 0 /\ timeouts = 0 /\ crashes = 0

\* Without contract services, operators and failures, a negotiation that was
\* started is finalized at both connectors, and the call that started it
\* comes back with the agreement.
Finalizes ==
  [](Undisturbed /\ calls = 0) =>
    <>(\E h \in Halves :
         /\ h[1].state = "FINALIZED" /\ h[2].state = "FINALIZED"
         /\ \A s \in Roles :
              poll[s] \in {Idle, [pc |-> "finalized", agreement |-> h[1].agreement]})

\* A termination at either connector ends the download that waits for the
\* negotiation (ContractTerminate, GetProviderDatasetDownloadInformation).
TerminationEndsCall ==
  []Undisturbed =>
    ((\E s \in Roles : \E r \in Range(table[s]) : r.state = "TERMINATED") ~>
       poll["consumer"].pc # "polling")

\* Nothing is retried or waited for forever: whatever is lost, crosses or
\* times out, deques, workers and handlers come to rest.
ComesToRest ==
  <>[](\A s \in Roles : /\ queue[s] = <<>> /\ worker[s] = Idle
                        /\ \A k \in Slots : http[s][k] = Idle)

\* When the reconciler gives up on an entry, the negotiation is terminated:
\* terminate's "try 10 times to update the state to terminated".
GivenUpIsTerminated ==
  [][\A s \in Roles :
       worker[s].pc = "terminate" /\ worker'[s].pc = "idle" /\ up'[s] =>
         \E i \in EntryRows(s, worker[s].op.entry) : table'[s][i].state = "TERMINATED"]_vars

\* A message that finds its negotiation in INITIAL is the one that made it:
\* "This is the initial request, we can assume all data is freshly made based
\* on the request" (processContractRequest, processContractOffer).
InitialIsFresh ==
  \A s \in Roles, k \in Slots :
    LET h == http[s][k] IN
    h.pc = "locked" /\ h.neg.state = "INITIAL" =>
      Route(h.req.base, h.req.pid, h.req.msg.type) \in {"newRequest", "newOffer"}

=============================================================================
