------------------------- MODULE TransferPeersProofs -------------------------
(***************************************************************************)
(* Proofs about TransferPeers for any number of requests served at the     *)
(* same time, any descriptions of endpoints and any bounds.                *)
(***************************************************************************)
EXTENDS TransferPeers, SequenceTheorems, TLAPS

-----------------------------------------------------------------------------
(* The conversion of DataAddress, for every description of an endpoint     *)

Description(url, auth, username, password) ==
  [url |-> url, auth |-> auth, username |-> username, password |-> password]

\* What arrives: the url, the authentication type and what it uses.
LEMMA WhatArrives ==
  ASSUME NEW pi, pi.auth \in AuthenticationTypes
  PROVE  DataAddressToPublishInfo(publishInfoToDataAddress(pi)) =
           IF pi.auth = "BASIC" THEN Description(pi.url, "BASIC", pi.username, pi.password)
           ELSE IF pi.auth = "BEARER" THEN Description(pi.url, "BEARER", "", pi.password)
           ELSE Description(pi.url, "UNSPECIFIED", "", "")
<1> DEFINE d == publishInfoToDataAddress(pi)
           p == d.endpointProperties
<1>1. d.endpoint = pi.url
  BY DEF publishInfoToDataAddress
<1>2. CASE pi.auth = "BASIC"
  <2>1. p = [username |-> pi.username, password |-> pi.password, authType |-> "basic"]
    BY <1>2 DEF publishInfoToDataAddress
  <2>2. "authType" \in DOMAIN p /\ p["authType"] # "bearer"
    BY <2>1
  <2>3. p["username"] = pi.username /\ p["password"] = pi.password
    BY <2>1
  <2> QED
    BY <1>1, <1>2, <2>2, <2>3 DEF DataAddressToPublishInfo, Description
<1>3. CASE pi.auth = "BEARER"
  <2>1. p = [authorization |-> pi.password, authType |-> "bearer"]
    BY <1>3 DEF publishInfoToDataAddress
  <2>2. "authType" \in DOMAIN p /\ p["authType"] = "bearer" /\ p["authorization"] = pi.password
    BY <2>1
  <2> QED
    BY <1>1, <1>3, <2>2 DEF DataAddressToPublishInfo, Description
<1>4. CASE pi.auth = "UNSPECIFIED"
  <2>1. p = << >>
    BY <1>4 DEF publishInfoToDataAddress
  <2>2. "authType" \notin DOMAIN p
    BY <2>1
  <2> QED
    BY <1>1, <1>4, <2>2 DEF DataAddressToPublishInfo, Description
<1> QED
  BY <1>2, <1>3, <1>4 DEF AuthenticationTypes

\* Whatever url and credentials a dataset service gives, the connector that
\* reads the data address out of a message can open the same data
\* (publishInfoToDataAddress, DataAddressToPublishInfo).
THEOREM AddressRoundTrip ==
  ASSUME NEW pi, pi.auth \in AuthenticationTypes
  PROVE  SameAccess(DataAddressToPublishInfo(publishInfoToDataAddress(pi)), pi)
<1> DEFINE arrived == DataAddressToPublishInfo(publishInfoToDataAddress(pi))
<1>1. arrived =
        IF pi.auth = "BASIC" THEN Description(pi.url, "BASIC", pi.username, pi.password)
        ELSE IF pi.auth = "BEARER" THEN Description(pi.url, "BEARER", "", pi.password)
        ELSE Description(pi.url, "UNSPECIFIED", "", "")
  BY WhatArrives
<1> HIDE DEF arrived
<1>2. SameAccess(arrived, pi)
  BY <1>1 DEF SameAccess, Description, AuthenticationTypes
<1> QED
  BY <1>2 DEF arrived

\* A description that has arrived can be sent on, and arrives unchanged.
LEMMA ArrivesUnchanged ==
  ASSUME NEW pi, pi.auth \in AuthenticationTypes
  PROVE  LET arrived == DataAddressToPublishInfo(publishInfoToDataAddress(pi)) IN
         /\ arrived.auth \in AuthenticationTypes
         /\ DataAddressToPublishInfo(publishInfoToDataAddress(arrived)) = arrived
<1> DEFINE arrived == DataAddressToPublishInfo(publishInfoToDataAddress(pi))
<1>1. arrived =
        IF pi.auth = "BASIC" THEN Description(pi.url, "BASIC", pi.username, pi.password)
        ELSE IF pi.auth = "BEARER" THEN Description(pi.url, "BEARER", "", pi.password)
        ELSE Description(pi.url, "UNSPECIFIED", "", "")
  BY WhatArrives
<1> HIDE DEF arrived
<1>2. arrived.auth \in AuthenticationTypes
  BY <1>1 DEF Description, AuthenticationTypes
<1>3. DataAddressToPublishInfo(publishInfoToDataAddress(arrived)) =
        IF arrived.auth = "BASIC"
          THEN Description(arrived.url, "BASIC", arrived.username, arrived.password)
        ELSE IF arrived.auth = "BEARER" THEN Description(arrived.url, "BEARER", "", arrived.password)
        ELSE Description(arrived.url, "UNSPECIFIED", "", "")
  BY <1>2, WhatArrives
<1>4. DataAddressToPublishInfo(publishInfoToDataAddress(arrived)) = arrived
  BY <1>1, <1>3 DEF Description
<1> QED
  BY <1>2, <1>4 DEF arrived

-----------------------------------------------------------------------------
(* Who works on which copy                                                 *)

Clients == {"worker", "outside", "gone"}
Locks == {"free", "worker", "signal", "leaked"} \cup Slots

\* What a description becomes on its way through a message.
Received(i) == DataAddressToPublishInfo(publishInfoToDataAddress(i))

KnownInfos == Infos \cup {Received(i) : i \in Infos}
InfoSets == {{}} \cup {{i} : i \in KnownInfos}
AddressSets == {{}} \cup {{publishInfoToDataAddress(i)} : i \in KnownInfos}

\* The first UUID is the transfer's consumer PID, the second its provider PID;
\* only the consumer can be without the latter.
PpidsOf(s) == IF s = "consumer" THEN {emptyUUID, 2} ELSE {2}

RowsOf(s) ==
  [ lock: Locks, state: TransferStates, ppid: PpidsOf(s), cpid: {1}, role: {s},
    publishInfo: InfoSets, direction: {"PULL", "PUSH"} ]

CopiesOf(s) ==
  [ id: {1}, state: TransferStates, ppid: PpidsOf(s), cpid: {1}, role: {s},
    publishInfo: InfoSets, direction: {"PULL", "PUSH"} ]

\* The messages the peer's reconciler sends to s, and all that s may get.
SentTo(s) ==
  IF s = "provider"
    THEN [type: {"request"}, ppid: {emptyUUID}, cpid: {1}, address: AddressSets]
    ELSE [type: {"start"}, ppid: {2}, cpid: {1}, address: AddressSets]

MessagesTo(s) ==
  SentTo(s) \cup [type: {"completion", "termination"}, ppid: {2}, cpid: {1}, address: {{}}]

OwnPid(s) == IF s = "consumer" THEN 1 ELSE 2

EntriesOf(s) ==
  [ entityID: {OwnPid(s)}, pid: {IF s = "consumer" THEN emptyUUID ELSE 1},
    target: {IF s = "consumer" THEN "REQUESTED" ELSE "STARTED"}, msg: SentTo(Peer(s)) ]

OperationsOf(s) == [entry: EntriesOf(s), attempts: 0..MaxAttempts]
QueuedOf(s) == [entry: EntriesOf(s), attempts: 0..(MaxAttempts - 1)]

-----------------------------------------------------------------------------
(* The transfer state machine                                              *)

\* A description that has arrived can be sent on without becoming another.
LEMMA ReceivedIsKnown ==
  ASSUME NEW i \in KnownInfos
  PROVE  Received(i) \in KnownInfos
  <1>1. CASE i \in Infos
    BY <1>1 DEF KnownInfos
  <1>2. ASSUME NEW j \in Infos, i = Received(j) PROVE Received(i) = i
    BY <1>2, ArrivesUnchanged, InfosAssumption DEF Received
  <1> QED
    BY <1>1, <1>2 DEF KnownInfos

\* The address of a message is read into a publish info, if there is one.
LEMMA AddressIsRead ==
  ASSUME NEW m, m.address \in AddressSets
  PROVE  InfoOfAddress(m) \in InfoSets
  <1>1. CASE m.address = {}
    BY <1>1 DEF InfoOfAddress, InfoSets
  <1>2. ASSUME NEW i \in KnownInfos, m.address = {publishInfoToDataAddress(i)}
        PROVE  InfoOfAddress(m) = {Received(i)}
    BY <1>2 DEF InfoOfAddress, Received
  <1> QED
    BY <1>1, <1>2, ReceivedIsKnown DEF AddressSets, InfoSets

\* A publish info is written into the address of a message.
LEMMA InfoIsWritten ==
  ASSUME NEW infos \in InfoSets
  PROVE  {publishInfoToDataAddress(i) : i \in infos} \in AddressSets
  <1>1. CASE infos = {}
    BY <1>1 DEF AddressSets
  <1>2. ASSUME NEW i \in KnownInfos, infos = {i}
        PROVE  {publishInfoToDataAddress(j) : j \in infos} = {publishInfoToDataAddress(i)}
    BY <1>2
  <1> QED
    BY <1>1, <1>2 DEF AddressSets, InfoSets

Moved(t, u, from, to) == t.state \in from /\ u = [t EXCEPT !.state = to]

Started(t, m, u) ==
  /\ t.state = "REQUESTED"
  /\ u = [t EXCEPT !.state = "STARTED", !.ppid = m.ppid,
                   !.publishInfo = IF @ = {} THEN InfoOfAddress(m) ELSE @]

\* The moves of Recv: a message that does not fit the state is rejected.
LEMMA RecvMoves ==
  ASSUME NEW s \in Roles, NEW t \in CopiesOf(s), NEW m \in MessagesTo(s), Recv(t, m).ok
  PROVE  LET u == Recv(t, m).req IN
         \/ m.type = "request" /\ Moved(t, u, {"INITIAL"}, "REQUESTED")
         \/ m.type = "start" /\ Started(t, m, u)
         \/ m.type = "completion" /\ Moved(t, u, {"STARTED"}, "COMPLETED")
         \/ m.type = "termination" /\ Moved(t, u, {"REQUESTED", "STARTED"}, "TERMINATED")
  <1> DEFINE u == Recv(t, m).req
  <1>1. ASSUME NEW n, NEW c, NEW target, verifyAndTransformTransfer(c, n, target).ok
        PROVE  /\ verifyAndTransformTransfer(c, n, target).req = [c EXCEPT !.state = target]
               /\ n.ppid = c.ppid
    BY <1>1 DEF verifyAndTransformTransfer, Reject
  <1>2. CASE t.state = "INITIAL"
    <2>1. Recv(t, m) = InitialRecv(t, m)
      BY <1>2 DEF Recv
    <2>2. m.type = "request"
      BY <2>1 DEF InitialRecv, Reject
    <2> QED
      BY <1>1, <1>2, <2>1, <2>2 DEF InitialRecv, Moved
  <1>3. CASE t.state = "REQUESTED"
    <2>1. Recv(t, m) = RequestedRecv(t, m)
      BY <1>3 DEF Recv
    <2>2. CASE m.type = "start"
      <3> DEFINE c == [t EXCEPT !.ppid = IF t.ppid = emptyUUID THEN m.ppid ELSE t.ppid,
                                !.publishInfo = IF @ = {} THEN InfoOfAddress(m) ELSE @]
      <3>1. Recv(t, m) = verifyAndTransformTransfer(c, m, "STARTED")
        BY <2>1, <2>2 DEF RequestedRecv
      <3> HIDE DEF c
      <3>2. u = [c EXCEPT !.state = "STARTED"] /\ m.ppid = c.ppid
        BY <1>1, <3>1
      <3>3. (IF t.ppid = emptyUUID THEN m.ppid ELSE t.ppid) = m.ppid
        <4>1. c.ppid = IF t.ppid = emptyUUID THEN m.ppid ELSE t.ppid
          BY DEF CopiesOf, c
        <4> QED
          BY <3>2, <4>1
      <3>4. u = [t EXCEPT !.state = "STARTED", !.ppid = m.ppid,
                          !.publishInfo = IF @ = {} THEN InfoOfAddress(m) ELSE @]
        BY <3>2, <3>3 DEF CopiesOf, c
      <3> QED
        BY <1>3, <2>2, <3>4 DEF Started
    <2>3. CASE m.type = "termination"
      BY <1>1, <1>3, <2>1, <2>3 DEF RequestedRecv, Moved
    <2>4. CASE m.type \notin {"start", "termination"}
      BY <2>1, <2>4 DEF RequestedRecv, Reject
    <2> QED
      BY <2>2, <2>3, <2>4
  <1>4. CASE t.state = "STARTED"
    <2>1. Recv(t, m) = StartedRecv(t, m)
      BY <1>4 DEF Recv
    <2>2. CASE m.type = "completion"
      BY <1>1, <1>4, <2>1, <2>2 DEF StartedRecv, Moved
    <2>3. CASE m.type = "termination"
      BY <1>1, <1>4, <2>1, <2>3 DEF StartedRecv, Moved
    <2>4. CASE m.type \notin {"completion", "termination"}
      BY <2>1, <2>4 DEF StartedRecv, Reject
    <2> QED
      BY <2>2, <2>3, <2>4
  <1>5. CASE t.state \notin {"INITIAL", "REQUESTED", "STARTED"}
    BY <1>5 DEF Recv, Reject
  <1> QED
    BY <1>2, <1>3, <1>4, <1>5

-----------------------------------------------------------------------------
(* The inductive invariant                                                 *)

Busy == {"send", "wait", "answered", "httpError"}

WorkersOf(s) ==
  {Idle}
    \cup [pc: {"acquire", "failed", "terminate"}, op: OperationsOf(s)]
    \cup [pc: {"send", "answered", "httpError"}, op: OperationsOf(s), tr: CopiesOf(s)]
    \cup [pc: {"wait"}, op: OperationsOf(s), tr: CopiesOf(s), slot: Slots]

\* Only the provider gets requests, and only it has something to send when
\* it has handled a message.
OpsOf(s) == {<<>>} \cup {<<op>> : op \in IF s = "provider" THEN QueuedOf(s) ELSE {}}

HandlersOf(s) ==
  {Idle}
    \cup [pc: IF s = "provider" THEN {"new"} ELSE {}, client: Clients, pid: {emptyUUID},
          msg: SentTo(s)]
    \cup [pc: {"lock"}, client: Clients, pid: {OwnPid(s)}, msg: MessagesTo(s)]
    \cup [pc: {"locked"}, client: Clients, msg: MessagesTo(s), tr: CopiesOf(s)]
    \cup [pc: {"ready"}, client: Clients, tr: CopiesOf(s), ops: OpsOf(s)]

Has(s) == table[s] # <<>>
Row(s) == table[s][1]

TablesShape ==
  /\ DOMAIN table = Roles
  /\ \A s \in Roles : table[s] = <<>> \/ \E r \in RowsOf(s) : table[s] = <<r>>
  /\ uuid = IF ~Has("consumer") THEN 1 ELSE IF ~Has("provider") THEN 2 ELSE 3

WorkersShape ==
  /\ DOMAIN queue = Roles /\ \A s \in Roles : queue[s] \in Seq(QueuedOf(s))
  /\ DOMAIN worker = Roles /\ \A s \in Roles : worker[s] \in WorkersOf(s)

HandlersShape ==
  /\ DOMAIN http = Roles
  /\ \A s \in Roles : DOMAIN http[s] = Slots /\ \A k \in Slots : http[s][k] \in HandlersOf(s)

\* A process that is down has no memory.
DownIsEmpty ==
  /\ up \in [Roles -> BOOLEAN]
  /\ \A s \in Roles : ~up[s] => queue[s] = <<>> /\ worker[s] = Idle
                                  /\ \A k \in Slots : http[s][k] = Idle

\* Nothing happens before the consumer has begun the transfer.
QuietBefore ==
  ~Has("consumer") =>
    /\ ~Has("provider")
    /\ \A s \in Roles : queue[s] = <<>> /\ worker[s] = Idle
                          /\ \A k \in Slots : http[s][k] = Idle

BoundsShape ==
  /\ signal \in [Roles -> {"none", "locked", "returned"}]
  /\ outside \in Seq(Outside) /\ Len(outside) <= MaxOutside
  /\ faults \in 0..MaxFaults /\ timeouts \in 0..MaxTimeouts /\ crashes \in 0..MaxCrashes

\* A request that the worker's client waits for is the worker's own.
Waiting ==
  \A s \in Roles :
    /\ \A k \in Slots : http[s][k] # Idle /\ http[s][k].client = "worker" =>
         worker[Peer(s)].pc = "wait" /\ worker[Peer(s)].slot = k
    /\ worker[s].pc = "wait" =>
         http[Peer(s)][worker[s].slot] # Idle /\ http[Peer(s)][worker[s].slot].client = "worker"

\* Whoever works on a copy has locked the row, and the copy is what the row
\* becomes in one move.
HandlersHold ==
  \A s \in Roles, k \in Slots :
    LET h == http[s][k] IN
    /\ h.pc \in {"locked", "ready"} => Has(s) /\ Row(s).lock = k
    /\ h.pc = "locked" => h.tr = FromModel(Row(s), 1)
    /\ h.pc = "ready" => /\ h.tr.state \in validTransferTransitions[Row(s).state]
                         /\ Row(s).ppid \in {emptyUUID, h.tr.ppid}
                         /\ h.tr.direction = Row(s).direction

WorkersHold ==
  \A s \in Roles :
    LET w == worker[s] IN
    w.pc \in Busy =>
      /\ Has(s) /\ Row(s).lock = "worker"
      /\ w.tr = [FromModel(Row(s), 1) EXCEPT !.state = w.op.entry.target]
      /\ w.op.entry.target \in validTransferTransitions[Row(s).state]

LockInv ==
  /\ TablesShape /\ WorkersShape /\ HandlersShape /\ DownIsEmpty /\ QuietBefore
  /\ Waiting /\ HandlersHold /\ WorkersHold

-----------------------------------------------------------------------------
(* The tables                                                              *)

\* A table has at most one row.
LEMMA OneRow ==
  ASSUME TablesShape, NEW s \in Roles
  PROVE  /\ \A i \in DOMAIN table[s] : i = 1 /\ Has(s) /\ table[s][i] = Row(s)
         /\ Has(s) => Row(s) \in RowsOf(s) /\ table[s] = <<Row(s)>> /\ DOMAIN table[s] = {1}
         /\ ~Has(s) => DOMAIN table[s] = {}
  <1>1. CASE table[s] = <<>>
    BY <1>1 DEF Has
  <1>2. ASSUME NEW r \in RowsOf(s), table[s] = <<r>>
        PROVE  DOMAIN table[s] = {1} /\ Row(s) = r /\ Has(s)
    BY <1>2 DEF Has, Row
  <1> QED
    BY <1>1, <1>2 DEF TablesShape, Row

\* A row that is written takes the place of the old one.
LEMMA RowWritten ==
  ASSUME TablesShape, NEW s \in Roles, Has(s), NEW r \in RowsOf(s),
         table' = [table EXCEPT ![s] = [table[s] EXCEPT ![1] = r]], uuid' = uuid
  PROVE  /\ TablesShape' /\ Row(s)' = r
         /\ \A x \in Roles : (Has(x)' <=> Has(x)) /\ (x # s => table'[x] = table[x])
  <1>1. [table[s] EXCEPT ![1] = r] = <<r>>
    <2>1. table[s] = <<Row(s)>>
      BY OneRow
    <2> QED
      BY <2>1
  <1>2. /\ table'[s] = <<r>> /\ DOMAIN table' = Roles
        /\ \A x \in Roles : x # s => table'[x] = table[x]
    BY <1>1 DEF TablesShape
  <1>3. \A x \in Roles : Has(x)' <=> Has(x)
    BY <1>2 DEF Has
  <1>4. TablesShape'
    BY <1>2, <1>3 DEF TablesShape, Roles
  <1> QED
    BY <1>2, <1>3, <1>4 DEF Row

\* Two rows that differ in the lock only.
SameData(r, r1) ==
  /\ r1.state = r.state /\ r1.ppid = r.ppid /\ r1.direction = r.direction
  /\ r1.publishInfo = r.publishInfo /\ FromModel(r1, 1) = FromModel(r, 1)

\* SetLock changes the lock of the row and nothing else.
LEMMA LockWritten ==
  ASSUME TablesShape, NEW s \in Roles, NEW i \in DOMAIN table[s], NEW o \in Locks,
         SetLock(s, i, o), uuid' = uuid
  PROVE  /\ TablesShape' /\ Has(s) /\ i = 1 /\ table[s][i] = Row(s)
         /\ Row(s)'.lock = o /\ SameData(Row(s), Row(s)')
         /\ \A x \in Roles : (Has(x)' <=> Has(x)) /\ (x # s => table'[x] = table[x])
  <1> DEFINE r == [Row(s) EXCEPT !.lock = o]
  <1>1. i = 1 /\ Has(s) /\ Row(s) \in RowsOf(s)
    BY OneRow
  <1>2. r \in RowsOf(s) /\ r.lock = o /\ SameData(Row(s), r)
    BY <1>1 DEF RowsOf, SameData, FromModel
  <1>3. table' = [table EXCEPT ![s] = [table[s] EXCEPT ![1] = r]]
    BY <1>1 DEF SetLock, Row
  <1> HIDE DEF r
  <1>4. /\ TablesShape' /\ Row(s)' = r
        /\ \A x \in Roles : (Has(x)' <=> Has(x)) /\ (x # s => table'[x] = table[x])
    BY <1>1, <1>2, <1>3, RowWritten
  <1> QED
    BY <1>1, <1>2, <1>4 DEF Row

\* PutTransfer writes the copy, unlocked.
LEMMA CopyWritten ==
  ASSUME TablesShape, NEW s \in Roles, Has(s), NEW t \in CopiesOf(s), Put(s, t), uuid' = uuid
  PROVE  /\ TablesShape' /\ Row(s)' = ToModel(t)
         /\ \A x \in Roles : (Has(x)' <=> Has(x)) /\ (x # s => table'[x] = table[x])
  <1>1. t.id = 1 /\ ToModel(t) \in RowsOf(s)
    BY DEF CopiesOf, ToModel, RowsOf, Locks
  <1>2. table' = [table EXCEPT ![s] = [table[s] EXCEPT ![1] = ToModel(t)]]
    BY <1>1 DEF Put
  <1> QED
    BY <1>1, <1>2, RowWritten

-----------------------------------------------------------------------------
(* Every step keeps the lock invariant                                     *)

\* What the records in a handler's slot and in the worker's hands look like.
LEMMA SlotShapes ==
  ASSUME HandlersShape, NEW s \in Roles, NEW k \in Slots
  PROVE  LET h == http[s][k] IN
         /\ h.pc \in {"idle", "new", "lock", "locked", "ready"}
         /\ h.pc = "idle" <=> h = Idle
         /\ h.pc = "new" => s = "provider" /\ h.client \in Clients /\ h.msg \in SentTo(s)
         /\ h.pc = "lock" => h.client \in Clients /\ h.pid = OwnPid(s) /\ h.msg \in MessagesTo(s)
         /\ h.pc = "locked" => h.client \in Clients /\ h.msg \in MessagesTo(s) /\ h.tr \in CopiesOf(s)
         /\ h.pc = "ready" => h.client \in Clients /\ h.tr \in CopiesOf(s) /\ h.ops \in OpsOf(s)
  BY DEF HandlersShape, HandlersOf, Idle

\* The same for the worker.
LEMMA WorkerShapes ==
  ASSUME WorkersShape, NEW s \in Roles
  PROVE  LET w == worker[s] IN
         /\ w.pc \in {"idle", "acquire", "failed", "terminate"} \cup Busy
         /\ w.pc = "idle" <=> w = Idle
         /\ w.pc # "idle" => w.op \in OperationsOf(s)
         /\ w.pc \in Busy => w.tr \in CopiesOf(s)
         /\ w.pc = "wait" => w.slot \in Slots
  BY DEF WorkersShape, WorkersOf, Idle, Busy

\* The provider's start is an entry of the deque.
LEMMA StartIsQueued ==
  ASSUME NEW t \in CopiesOf("provider")
  PROVE  Operation(sendTransferStart(t)) \in QueuedOf("provider")
  <1>1. {publishInfoToDataAddress(i) : i \in t.publishInfo} \in AddressSets
    BY InfoIsWritten DEF CopiesOf
  <1>2. t.ppid = 2 /\ t.cpid = 1 /\ t.role = "provider"
    BY DEF CopiesOf, PpidsOf
  <1> DEFINE a == {publishInfoToDataAddress(i) : i \in t.publishInfo}
  <1>3. sendTransferStart(t) =
          [ entityID |-> 2, pid |-> 1, target |-> "STARTED",
            msg |-> [type |-> "start", ppid |-> 2, cpid |-> 1, address |-> a] ]
    BY <1>2 DEF sendTransferStart, makeTransferRequestFunction
  <1> HIDE DEF a
  <1>4. sendTransferStart(t) \in EntriesOf("provider")
    BY <1>1, <1>3 DEF EntriesOf, OwnPid, SentTo, Peer, a
  <1> QED
    BY <1>4, BoundsAssumption DEF Operation, QueuedOf

\* The consumer's request is an entry of the deque.
LEMMA RequestIsQueued ==
  ASSUME NEW t, t.role = "consumer", t.cpid = 1, t.ppid = emptyUUID, t.publishInfo \in InfoSets
  PROVE  Operation(sendTransferRequest(t)) \in QueuedOf("consumer")
  <1> DEFINE a == {publishInfoToDataAddress(i) : i \in t.publishInfo}
  <1>1. a \in AddressSets
    BY InfoIsWritten
  <1>2. sendTransferRequest(t) =
          [ entityID |-> 1, pid |-> emptyUUID, target |-> "REQUESTED",
            msg |-> [type |-> "request", ppid |-> emptyUUID, cpid |-> 1, address |-> a] ]
    BY DEF sendTransferRequest, makeTransferRequestFunction
  <1> HIDE DEF a
  <1>3. sendTransferRequest(t) \in EntriesOf("consumer")
    BY <1>1, <1>2 DEF EntriesOf, OwnPid, SentTo, Peer
  <1> QED
    BY <1>3, BoundsAssumption DEF Operation, QueuedOf

\* LockInv is about the rows and about who works on them.
LEMMA FrameKeeps ==
  ASSUME LockInv, UNCHANGED <<table, queue, worker, http, up, uuid>>
  PROVE  LockInv'
  <1> USE DEF LockInv
  <1>1. TablesShape' /\ WorkersShape' /\ HandlersShape'
    BY DEF TablesShape, WorkersShape, HandlersShape, Has
  <1>2. DownIsEmpty' /\ QuietBefore' /\ Waiting'
    BY DEF DownIsEmpty, QuietBefore, Waiting, Has
  <1>3. HandlersHold' /\ WorkersHold'
    BY DEF HandlersHold, WorkersHold, Has, Row
  <1> QED
    BY <1>1, <1>2, <1>3

\* One slot of connector s gets a new content.
LEMMA SlotWritten ==
  ASSUME HandlersShape, NEW s \in Roles, NEW k \in Slots, NEW n \in HandlersOf(s),
         http' = [http EXCEPT ![s][k] = n]
  PROVE  /\ HandlersShape' /\ http'[s][k] = n
         /\ \A x \in Roles, y \in Slots : x # s \/ y # k => http'[x][y] = http[x][y]
  BY DEF HandlersShape

\* The worker of connector s goes over to something else.
LEMMA WorkerWritten ==
  ASSUME WorkersShape, NEW s \in Roles, NEW n \in WorkersOf(s),
         worker' = [worker EXCEPT ![s] = n]
  PROVE  /\ DOMAIN worker' = Roles /\ worker'[s] = n
         /\ \A x \in Roles : worker'[x] \in WorkersOf(x) /\ (x # s => worker'[x] = worker[x])
  BY DEF WorkersShape

\* What a message makes of the transfer, and what there is to send.
LEMMA Processed ==
  ASSUME NEW s \in Roles, NEW c \in CopiesOf(s), NEW m \in MessagesTo(s), Recv(c, m).ok,
         NEW t \in AfterPublish(Recv(c, m).req, m)
  PROVE  /\ t \in CopiesOf(s) /\ t.direction = c.direction
         /\ t.state \in validTransferTransitions[c.state] /\ c.ppid \in {emptyUUID, t.ppid}
         /\ m.type = "request" =>
              /\ s = "provider" /\ c.state = "INITIAL" /\ t.state = "REQUESTED"
              /\ Operation(sendTransferStart(t)) \in QueuedOf(s)
              /\ c.direction = "PULL" => \E i \in Infos : t.publishInfo = {i}
         /\ m.type = "start" =>
              /\ s = "consumer" /\ c.state = "REQUESTED" /\ t.state = "STARTED" /\ t.ppid = 2
              /\ t.publishInfo = IF c.publishInfo = {} THEN InfoOfAddress(m) ELSE c.publishInfo
         /\ m.type = "completion" => c.state = "STARTED" /\ t.state = "COMPLETED"
         /\ m.type = "termination" => t.state = "TERMINATED"
         /\ m.type # "start" /\ m.type # "request" => t.publishInfo = c.publishInfo /\ t.ppid = c.ppid
         /\ Sends(t, m) <=> m.type = "request"
         /\ Publishes(t, m) <=> m.type = "request" /\ c.direction = "PULL"
  <1> DEFINE u == Recv(c, m).req
  <1>1. /\ m.type \in {"request", "start", "completion", "termination"}
        /\ m.type = "request" => s = "provider"
        /\ m.type = "start" => s = "consumer" /\ m.ppid = 2
        /\ m.address \in AddressSets
    BY DEF MessagesTo, SentTo, Roles, AddressSets
  <1>2. CASE m.type = "request"
    <2>1. c.state = "INITIAL" /\ u = [c EXCEPT !.state = "REQUESTED"]
      BY <1>2, RecvMoves DEF Moved
    <2>2. u \in CopiesOf(s) /\ u.state = "REQUESTED" /\ u.ppid = c.ppid /\ u.direction = c.direction
      BY <2>1 DEF CopiesOf, TransferStates
    <2>3. CASE c.direction = "PULL"
      <3>1. PICK i \in Infos : t = [u EXCEPT !.publishInfo = {i}]
        BY <1>2, <2>2, <2>3 DEF AfterPublish, Publishes, Sends, autoProgress
      <3> HIDE DEF u
      <3>2. /\ t \in CopiesOf(s) /\ t.state = u.state /\ t.ppid = u.ppid
            /\ t.direction = u.direction /\ t.publishInfo = {i}
        BY <2>2, <3>1 DEF CopiesOf, InfoSets, KnownInfos
      <3> QED
        BY <1>1, <1>2, <2>1, <2>2, <2>3, <3>2, StartIsQueued
        DEF validTransferTransitions, Sends, Publishes, autoProgress
    <2>4. CASE c.direction # "PULL"
      <3>1. t = u
        BY <1>2, <2>2, <2>4 DEF AfterPublish, Publishes, Sends, autoProgress
      <3> HIDE DEF u
      <3> QED
        BY <1>1, <1>2, <2>1, <2>2, <2>4, <3>1, StartIsQueued
        DEF validTransferTransitions, Sends, Publishes, autoProgress
    <2> QED
      BY <2>3, <2>4
  <1>3. CASE m.type = "start"
    <2>1. /\ c.state = "REQUESTED"
          /\ u = [c EXCEPT !.state = "STARTED", !.ppid = m.ppid,
                           !.publishInfo = IF @ = {} THEN InfoOfAddress(m) ELSE @]
      BY <1>3, RecvMoves DEF Started
    <2>2. InfoOfAddress(m) \in InfoSets
      BY <1>1, AddressIsRead
    <2>3. /\ u \in CopiesOf(s) /\ u.state = "STARTED" /\ u.ppid = 2 /\ u.direction = c.direction
          /\ u.publishInfo = IF c.publishInfo = {} THEN InfoOfAddress(m) ELSE c.publishInfo
      BY <1>1, <1>3, <2>1, <2>2 DEF CopiesOf, TransferStates, PpidsOf
    <2>4. t = u
      BY <1>3, <2>3 DEF AfterPublish, Publishes, Sends
    <2>5. c.ppid \in {emptyUUID, 2}
      BY DEF CopiesOf, PpidsOf
    <2> HIDE DEF u
    <2> QED
      BY <1>1, <1>3, <2>1, <2>3, <2>4, <2>5
      DEF validTransferTransitions, Sends, Publishes, autoProgress
  <1>4. CASE m.type \in {"completion", "termination"}
    <2> DEFINE target == IF m.type = "completion" THEN "COMPLETED" ELSE "TERMINATED"
    <2>1. /\ c.state = "STARTED" \/ (m.type = "termination" /\ c.state = "REQUESTED")
          /\ u = [c EXCEPT !.state = target]
      BY <1>4, RecvMoves DEF Moved
    <2>2. /\ u \in CopiesOf(s) /\ u.state = target /\ u.ppid = c.ppid
          /\ u.direction = c.direction /\ u.publishInfo = c.publishInfo
      BY <2>1 DEF CopiesOf, TransferStates
    <2>3. t = u
      BY <1>4, <2>2 DEF AfterPublish, Publishes, Sends
    <2> HIDE DEF u
    <2> QED
      BY <1>4, <2>1, <2>2, <2>3 DEF validTransferTransitions, Sends, Publishes
  <1> QED
    BY <1>1, <1>2, <1>3, <1>4

\* A handler that locks the row works on a copy of it.
LEMMA HandlerLockKeeps ==
  ASSUME NEW s \in Roles, NEW k \in Slots, LockInv, HandlerLock(s, k)
  PROVE  LockInv'
  <1> USE DEF LockInv
  <1> DEFINE h == http[s][k]
  <1>1. PICK i \in Wanted(s, k) :
          /\ table[s][i].lock = "free" /\ SetLock(s, i, k)
          /\ http' = [http EXCEPT ![s][k] =
               [pc |-> "locked", client |-> h.client, msg |-> h.msg,
                tr |-> FromModel(table[s][i], i)]]
          /\ UNCHANGED <<published, queue, worker, up, uuid, signal, poll, bounds>>
    BY DEF HandlerLock
  <1>2. h.pc = "lock" /\ i \in DOMAIN table[s]
    BY <1>1 DEF Wanted, Lookup
  <1>3. i = 1 /\ Has(s) /\ table[s][i] = Row(s) /\ Row(s) \in RowsOf(s)
    BY <1>2, OneRow
  <1>4. /\ TablesShape' /\ Row(s)'.lock = k /\ SameData(Row(s), Row(s)')
        /\ \A x \in Roles : (Has(x)' <=> Has(x)) /\ (x # s => table'[x] = table[x])
    BY <1>1, <1>2, LockWritten DEF Locks
  <1>5. h.client \in Clients /\ h.msg \in MessagesTo(s) /\ h # Idle
    BY <1>2, SlotShapes
  <1> DEFINE n == [pc |-> "locked", client |-> h.client, msg |-> h.msg, tr |-> FromModel(Row(s), 1)]
  <1>6. FromModel(Row(s), 1) \in CopiesOf(s)
    BY <1>3 DEF FromModel, RowsOf, CopiesOf
  <1>7. /\ http'[s][k] = n /\ DOMAIN http' = Roles
        /\ \A x \in Roles : DOMAIN http'[x] = Slots
        /\ \A x \in Roles, y \in Slots : x # s \/ y # k => http'[x][y] = http[x][y]
    BY <1>1, <1>3 DEF HandlersShape
  <1>8. n \in HandlersOf(s)
    BY <1>5, <1>6 DEF HandlersOf
  <1>9. HandlersShape'
    BY <1>7, <1>8 DEF HandlersShape
  <1>10. WorkersShape'
    BY <1>1 DEF WorkersShape
  <1>11. DownIsEmpty' /\ QuietBefore'
    BY <1>1, <1>3, <1>4, <1>5, <1>7 DEF DownIsEmpty, QuietBefore, Roles
  <1>12. Waiting'
    BY <1>1, <1>5, <1>7 DEF Waiting, Idle, Peer, Roles
  <1>13. HandlersHold'
    BY <1>1, <1>3, <1>4, <1>7, SlotsAssumption, SMTT(40) DEF HandlersHold, SameData, Row
  <1>14. WorkersHold'
    BY <1>1, <1>3, <1>4 DEF WorkersHold, SameData, Row
  <1> QED
    BY <1>4, <1>9, <1>10, <1>11, <1>12, <1>13, <1>14

\* The answer frees the slot; the worker, if it waits for it, goes on with the
\* operation and the copy that it had.
LEMMA Answered ==
  ASSUME LockInv, NEW s \in Roles, NEW k \in Slots, http[s][k] # Idle,
         NEW pc \in {"answered", "httpError"}, Answer(s, k, pc)
  PROVE  /\ HandlersShape' /\ http'[s][k] = Idle
         /\ \A x \in Roles, y \in Slots : x # s \/ y # k => http'[x][y] = http[x][y]
         /\ DOMAIN worker' = Roles /\ worker'[s] = worker[s]
         /\ http[s][k].client # "worker" => worker' = worker
         /\ http[s][k].client = "worker" =>
              /\ worker[Peer(s)].pc = "wait" /\ worker'[Peer(s)].pc = pc
              /\ worker'[Peer(s)].op = worker[Peer(s)].op
              /\ worker'[Peer(s)].tr = worker[Peer(s)].tr
         /\ \A x \in Roles : worker'[x] \in WorkersOf(x)
         /\ \A x \in Roles : worker'[x].pc \in Busy =>
              /\ worker[x].pc \in Busy /\ worker'[x].op = worker[x].op /\ worker'[x].tr = worker[x].tr
         /\ \A x \in Roles : worker[x] = Idle => worker'[x] = Idle
         /\ Waiting'
  <1> USE DEF LockInv
  <1> DEFINE p == Peer(s)
  <1>1. p \in Roles /\ p # s /\ \A x \in Roles : x = s \/ x = p
    BY DEF Peer, Roles
  <1>2. http' = [http EXCEPT ![s][k] = Idle]
    BY DEF Answer
  <1>3. Idle \in HandlersOf(s) /\ \A x \in Roles : worker[x].pc = "wait" => worker[x].slot \in Slots
    BY WorkerShapes DEF HandlersOf
  <1>4. /\ HandlersShape' /\ http'[s][k] = Idle
        /\ \A x \in Roles, y \in Slots : x # s \/ y # k => http'[x][y] = http[x][y]
    BY <1>3, <1>2, SlotWritten
  <1>5. CASE http[s][k].client # "worker"
    <2>1. worker' = worker
      BY <1>5 DEF Answer
    <2>2. Waiting'
      BY <1>3, <1>1, <1>4, <1>5, <2>1 DEF Waiting, Peer, Roles
    <2> QED
      BY <1>4, <1>5, <2>1, <2>2 DEF WorkersShape
  <1>6. CASE http[s][k].client = "worker"
    <2> DEFINE n == [pc |-> pc, op |-> worker[p].op, tr |-> worker[p].tr]
    <2>1. worker' = [worker EXCEPT ![p] = n]
      BY <1>6 DEF Answer
    <2>2. worker[p].pc = "wait" /\ worker[p].slot = k
      BY <1>6 DEF Waiting
    <2>3. worker[p].op \in OperationsOf(p) /\ worker[p].tr \in CopiesOf(p) /\ worker[p] # Idle
      BY <1>1, <2>2, WorkerShapes DEF Busy
    <2>4. n \in WorkersOf(p)
      BY <2>3 DEF WorkersOf
    <2>5. /\ DOMAIN worker' = Roles /\ worker'[p] = n
          /\ \A x \in Roles : worker'[x] \in WorkersOf(x) /\ (x # p => worker'[x] = worker[x])
      BY <1>1, <2>1, <2>4, WorkerWritten
    <2>6. Waiting'
      BY <1>3, <1>1, <1>4, <2>2, <2>5 DEF Waiting, Peer, Roles
    <2> QED
      BY <1>1, <1>4, <1>6, <2>2, <2>3, <2>5, <2>6 DEF Busy
  <1> QED
    BY <1>5, <1>6

\* A handler that works on no copy refuses.
LEMMA RefuseKeeps ==
  ASSUME NEW s \in Roles, NEW k \in Slots, LockInv, http[s][k].pc \in {"new", "lock"},
         Answer(s, k, "httpError"), UNCHANGED <<table, queue, up, uuid>>
  PROVE  LockInv'
  <1> USE DEF LockInv
  <1>1. http[s][k] # Idle
    BY DEF Idle
  <1>2. /\ HandlersShape' /\ http'[s][k] = Idle
        /\ \A x \in Roles, y \in Slots : x # s \/ y # k => http'[x][y] = http[x][y]
        /\ DOMAIN worker' = Roles
        /\ \A x \in Roles : worker'[x] \in WorkersOf(x)
        /\ \A x \in Roles : worker'[x].pc \in Busy =>
             /\ worker[x].pc \in Busy /\ worker'[x].op = worker[x].op /\ worker'[x].tr = worker[x].tr
        /\ \A x \in Roles : worker[x] = Idle => worker'[x] = Idle
        /\ Waiting'
    BY <1>1, Answered
  <1>3. TablesShape' /\ WorkersShape'
    BY <1>2 DEF TablesShape, WorkersShape, Has
  <1>4. DownIsEmpty' /\ QuietBefore'
    BY <1>2 DEF DownIsEmpty, QuietBefore, Has
  <1>5. HandlersHold'
    BY <1>2, SMTT(40) DEF HandlersHold, Has, Row, Idle
  <1>6. WorkersHold'
    BY <1>2 DEF WorkersHold, Has, Row
  <1> QED
    BY <1>2, <1>3, <1>4, <1>5, <1>6

\* A message from outside takes a free slot.
LEMMA ReceiveKeeps ==
  ASSUME NEW s \in Roles, NEW k \in Slots, LockInv, Receive(s, k)
  PROVE  LockInv'
  <1> USE DEF LockInv
  <1> DEFINE p == Peer(s)
  <1>1. p \in Roles /\ p # s /\ \A x \in Roles : x = s \/ x = p
    BY DEF Peer, Roles
  <1>2. PICK type \in Outside, j \in DOMAIN table[p] :
          /\ table[p][j].ppid # emptyUUID
          /\ http' = [http EXCEPT ![s][k] =
               [pc |-> Dispatch(type), client |-> "outside",
                pid |-> IF s = "consumer" THEN table[p][j].cpid ELSE table[p][j].ppid,
                msg |-> [type |-> type, ppid |-> table[p][j].ppid, cpid |-> table[p][j].cpid,
                         address |-> {}]]]
    BY DEF Receive
  <1>3. Has(p) /\ table[p][j] = Row(p) /\ Row(p) \in RowsOf(p)
    BY <1>1, <1>2, OneRow
  <1>4. Row(p).ppid = 2 /\ Row(p).cpid = 1
    BY <1>2, <1>3 DEF RowsOf, PpidsOf
  <1> DEFINE n == [pc |-> "lock", client |-> "outside", pid |-> OwnPid(s),
                   msg |-> [type |-> type, ppid |-> 2, cpid |-> 1, address |-> {}]]
  <1>5. http' = [http EXCEPT ![s][k] = n] /\ n \in HandlersOf(s)
    BY <1>2, <1>3, <1>4, OutsideAssumption
    DEF Dispatch, OwnPid, HandlersOf, MessagesTo, Clients
  <1>6. n.pc = "lock" /\ n.client = "outside" /\ n # Idle
    BY DEF Idle
  <1> HIDE DEF n
  <1>7. /\ HandlersShape' /\ http'[s][k] = n
        /\ \A x \in Roles, y \in Slots : x # s \/ y # k => http'[x][y] = http[x][y]
    BY <1>5, SlotWritten, ZenonT(60)
  <1>8. /\ UNCHANGED <<table, queue, worker, up, uuid>> /\ up[s]
        /\ http[s][k] = Idle
        /\ \A x \in Roles : worker[x].pc = "wait" => worker[x].slot \in Slots
    BY SlotShapes, WorkerShapes DEF Receive
  <1>9. TablesShape' /\ WorkersShape'
    BY <1>8 DEF TablesShape, WorkersShape, Has
  <1>10. Has("consumer")
    BY <1>1, <1>3 DEF QuietBefore, Roles
  <1>11. DownIsEmpty' /\ QuietBefore'
    BY <1>7, <1>8, <1>10 DEF DownIsEmpty, QuietBefore, Has
  <1>12. Waiting'
    BY <1>1, <1>6, <1>7, <1>8 DEF Waiting, Peer, Roles
  <1>13. HandlersHold' /\ WorkersHold'
    BY <1>6, <1>7, <1>8 DEF HandlersHold, WorkersHold, Has, Row
  <1> QED
    BY <1>7, <1>9, <1>11, <1>12, <1>13

\* A request makes the provider's row, unless there is one.
LEMMA CreateEffect ==
  ASSUME NEW s \in Roles, NEW k \in Slots, LockInv, CreateTransfer(s, k)
  PROVE  LET h == http[s][k]
             r == ToModel(New("provider", 2, 1, InfoOfAddress(h.msg)))
         IN  /\ s = "provider" /\ h.pc = "new" /\ h # Idle /\ Has("consumer")
             /\ h.client \in Clients /\ h.msg \in SentTo(s)
             /\ \/ Answer(s, k, "httpError") /\ UNCHANGED <<table, uuid>>
                \/ /\ ~Has(s) /\ table' = [table EXCEPT ![s] = <<r>>] /\ r \in RowsOf(s)
                   /\ uuid' = 3 /\ worker' = worker
                   /\ http' = [http EXCEPT ![s][k] =
                        [pc |-> "lock", client |-> h.client, pid |-> 2, msg |-> h.msg]]
             /\ UNCHANGED <<published, queue, up, signal, poll, bounds>>
  <1> USE DEF LockInv
  <1> DEFINE h == http[s][k]
             t == New("provider", uuid, h.msg.cpid, InfoOfAddress(h.msg))
             r == ToModel(New("provider", 2, 1, InfoOfAddress(h.msg)))
             n == [pc |-> "lock", client |-> h.client, pid |-> 2, msg |-> h.msg]
  <1>1. h.pc = "new" /\ UNCHANGED <<published, queue, up, signal, poll, bounds>>
    BY DEF CreateTransfer
  <1>2. s = "provider" /\ h.client \in Clients /\ h.msg \in SentTo(s) /\ h # Idle
    BY <1>1, SlotShapes
  <1>3. Has("consumer")
    BY <1>2 DEF QuietBefore
  <1>4. ASSUME Conflict(s, t)
        PROVE  Answer(s, k, "httpError") /\ UNCHANGED <<table, uuid>>
    BY <1>4 DEF CreateTransfer, Refuse
  <1>5. ASSUME ~Conflict(s, t)
        PROVE  /\ ~Has(s) /\ table' = [table EXCEPT ![s] = <<r>>] /\ r \in RowsOf(s)
               /\ uuid' = 3 /\ worker' = worker /\ http' = [http EXCEPT ![s][k] = n]
    <2>1. h.msg.cpid = 1 /\ InfoOfAddress(h.msg) \in InfoSets
      BY <1>2, AddressIsRead DEF SentTo
    <2>2. ASSUME Has(s) PROVE FALSE
      <3>1. 1 \in DOMAIN table[s] /\ table[s][1].cpid = 1
        BY <2>2, OneRow DEF RowsOf, Row
      <3>2. t.cpid = 1
        BY <2>1 DEF New
      <3> QED
        BY <1>5, <3>1, <3>2 DEF Conflict
    <2>3. uuid = 2
      BY <1>2, <1>3, <2>2 DEF TablesShape
    <2>4. t = New("provider", 2, 1, InfoOfAddress(h.msg)) /\ t.ppid = 2
      BY <2>1, <2>3 DEF New
    <2>5. r \in RowsOf(s)
      BY <1>2, <2>1 DEF New, ToModel, RowsOf, Locks, TransferStates, PpidsOf
    <2>6. /\ table' = [table EXCEPT ![s] = Append(table[s], r)]
          /\ uuid' = 3 /\ worker' = worker /\ http' = [http EXCEPT ![s][k] = n]
      <3>1. /\ table' = [table EXCEPT ![s] = Append(table[s], ToModel(t))]
            /\ uuid' = uuid + 1 /\ worker' = worker
            /\ http' = [http EXCEPT ![s][k] =
                 [pc |-> "lock", client |-> h.client, pid |-> t.ppid, msg |-> h.msg]]
        BY <1>5 DEF CreateTransfer
      <3> HIDE DEF t, h
      <3> QED
        BY <2>3, <2>4, <3>1
    <2> HIDE DEF r
    <2>7. Append(table[s], r) = <<r>>
      <3>1. table[s] = <<>>
        BY <2>2 DEF Has
      <3>2. Append(<<>>, r) = <<r>>
        OBVIOUS
      <3> QED
        BY <3>1, <3>2
    <2> QED
      BY <2>2, <2>5, <2>6, <2>7
  <1> HIDE DEF t, h, n, r
  <1>6. \/ Answer(s, k, "httpError") /\ UNCHANGED <<table, uuid>>
        \/ /\ ~Has(s) /\ table' = [table EXCEPT ![s] = <<r>>] /\ r \in RowsOf(s)
           /\ uuid' = 3 /\ worker' = worker /\ http' = [http EXCEPT ![s][k] = n]
    BY <1>4, <1>5
  <1> QED
    BY <1>1, <1>2, <1>3, <1>6 DEF h, n, r

\* providerTransferRequestHandler keeps the invariant.
LEMMA CreateTransferKeeps ==
  ASSUME NEW s \in Roles, NEW k \in Slots, LockInv, CreateTransfer(s, k)
  PROVE  LockInv'
  <1> USE DEF LockInv
  <1> DEFINE h == http[s][k]
             r == ToModel(New("provider", 2, 1, InfoOfAddress(h.msg)))
             n == [pc |-> "lock", client |-> h.client, pid |-> 2, msg |-> h.msg]
  <1>1. /\ s = "provider" /\ h.pc = "new" /\ h # Idle /\ Has("consumer")
        /\ h.client \in Clients /\ h.msg \in SentTo(s) /\ UNCHANGED <<queue, up>>
    BY CreateEffect
  <1>2. \/ Answer(s, k, "httpError") /\ UNCHANGED <<table, uuid>>
        \/ /\ ~Has(s) /\ table' = [table EXCEPT ![s] = <<r>>] /\ r \in RowsOf(s)
           /\ uuid' = 3 /\ worker' = worker /\ http' = [http EXCEPT ![s][k] = n]
    BY CreateEffect
  <1>3. CASE Answer(s, k, "httpError") /\ UNCHANGED <<table, uuid>>
    BY <1>1, <1>3, RefuseKeeps
  <1>4. CASE /\ ~Has(s) /\ table' = [table EXCEPT ![s] = <<r>>] /\ r \in RowsOf(s)
             /\ uuid' = 3 /\ worker' = worker /\ http' = [http EXCEPT ![s][k] = n]
    <2>1. n \in HandlersOf(s) /\ n # Idle /\ n.pc = "lock" /\ n.client = http[s][k].client
      BY <1>1 DEF HandlersOf, OwnPid, Idle, MessagesTo
    <2> HIDE DEF n, h, r
    <2>2. table'[s] = <<r>> /\ DOMAIN table' = Roles /\ \A x \in Roles : x # s => table'[x] = table[x]
      BY <1>4 DEF TablesShape
    <2>3. Has(s)' /\ \A x \in Roles : x # s => (Has(x)' <=> Has(x))
      BY <2>2 DEF Has
    <2>4. TablesShape'
      BY <1>1, <1>4, <2>2, <2>3 DEF TablesShape, Roles
    <2>5. /\ HandlersShape' /\ http'[s][k] = n
          /\ \A x \in Roles, y \in Slots : x # s \/ y # k => http'[x][y] = http[x][y]
      BY <1>4, <2>1, SlotWritten
    <2>6. WorkersShape'
      BY <1>1, <1>4 DEF WorkersShape
    <2>7. DownIsEmpty' /\ QuietBefore'
      BY <1>1, <1>4, <2>3, <2>5 DEF DownIsEmpty, QuietBefore, Roles, h
    <2>8. Waiting'
      BY <1>1, <1>4, <2>1, <2>5 DEF Waiting, Peer, Roles, h
    <2>9. HandlersHold'
      BY <1>4, <2>1, <2>2, <2>3, <2>5, SMTT(40) DEF HandlersHold, Row
    <2>10. WorkersHold'
      BY <1>4, <2>2, <2>3, ZenonT(60) DEF WorkersHold, Row
    <2> QED
      BY <2>4, <2>5, <2>6, <2>7, <2>8, <2>9, <2>10
  <1> QED
    BY <1>2, <1>3, <1>4

\* A handler that fails while it works on a copy leaves the row locked.
LEMMA LeakKeeps ==
  ASSUME NEW s \in Roles, NEW k \in Slots, LockInv, http[s][k].pc \in {"locked", "ready"},
         SetLock(s, http[s][k].tr.id, "leaked"),
         Answer(s, k, "httpError"), UNCHANGED <<queue, up, uuid>>
  PROVE  LockInv'
  <1> USE DEF LockInv
  <1>1. http[s][k] # Idle /\ http[s][k].tr \in CopiesOf(s) /\ Has(s) /\ Row(s).lock = k
    BY SlotShapes DEF Idle, HandlersHold
  <1>2. http[s][k].tr.id = 1 /\ 1 \in DOMAIN table[s]
    BY <1>1, OneRow DEF CopiesOf
  <1>3. /\ TablesShape' /\ Row(s)'.lock = "leaked" /\ SameData(Row(s), Row(s)')
        /\ \A x \in Roles : (Has(x)' <=> Has(x)) /\ (x # s => table'[x] = table[x])
    BY <1>2, LockWritten DEF Locks
  <1>4. /\ HandlersShape' /\ http'[s][k] = Idle
        /\ \A x \in Roles, y \in Slots : x # s \/ y # k => http'[x][y] = http[x][y]
        /\ DOMAIN worker' = Roles
        /\ \A x \in Roles : worker'[x] \in WorkersOf(x)
        /\ \A x \in Roles : worker'[x].pc \in Busy =>
             /\ worker[x].pc \in Busy /\ worker'[x].op = worker[x].op /\ worker'[x].tr = worker[x].tr
        /\ \A x \in Roles : worker[x] = Idle => worker'[x] = Idle
        /\ Waiting'
    BY <1>1, Answered
  <1>5. WorkersShape'
    BY <1>4 DEF WorkersShape
  <1>6. DownIsEmpty' /\ QuietBefore'
    BY <1>3, <1>4 DEF DownIsEmpty, QuietBefore, Roles
  <1>7. HandlersHold'
    BY <1>1, <1>3, <1>4, SMTT(40) DEF HandlersHold, SameData, Row, Idle
  <1>8. WorkersHold'
    BY <1>1, <1>3, <1>4, SlotsAssumption DEF WorkersHold, SameData, Row
  <1> QED
    BY <1>3, <1>4, <1>5, <1>6, <1>7, <1>8

\* A handler that finds no row, or not its lock, refuses.
LEMMA HandlerNotFoundKeeps ==
  ASSUME NEW s \in Roles, NEW k \in Slots, LockInv, HandlerNotFound(s, k)
  PROVE  LockInv'
  BY RefuseKeeps DEF HandlerNotFound, Refuse

\* Recv rejects the message, or a service does.
LEMMA HandlerRejectKeeps ==
  ASSUME NEW s \in Roles, NEW k \in Slots, LockInv, HandlerReject(s, k)
  PROVE  LockInv'
  BY LeakKeeps DEF HandlerReject, Refuse

\* The client is gone before or after the row was locked.
LEMMA HandlerCancelledKeeps ==
  ASSUME NEW s \in Roles, NEW k \in Slots, LockInv, HandlerCancelled(s, k)
  PROVE  LockInv'
  <1>1. CASE http[s][k].pc \in {"new", "lock"}
    BY <1>1, RefuseKeeps DEF HandlerCancelled, Refuse
  <1>2. CASE http[s][k].pc \in {"locked", "ready"}
    BY <1>2, LeakKeeps DEF HandlerCancelled, Refuse
  <1> QED
    BY <1>1, <1>2 DEF HandlerCancelled

\* Recv and Send turn the copy into what the row may become next.
LEMMA HandlerProcessKeeps ==
  ASSUME NEW s \in Roles, NEW k \in Slots, LockInv, HandlerProcess(s, k)
  PROVE  LockInv'
  <1> USE DEF LockInv
  <1> DEFINE h == http[s][k]
  <1>1. /\ h.pc = "locked" /\ Recv(h.tr, h.msg).ok
        /\ UNCHANGED <<table, queue, worker, up, uuid>>
    BY DEF HandlerProcess
  <1>2. PICK t \in AfterPublish(Recv(h.tr, h.msg).req, h.msg) :
          http' = [http EXCEPT ![s][k] =
            [pc |-> "ready", client |-> h.client, tr |-> t,
             ops |-> IF Sends(t, h.msg) THEN <<Operation(sendTransferStart(t))>> ELSE <<>>]]
    BY DEF HandlerProcess
  <1>3. h.client \in Clients /\ h.msg \in MessagesTo(s) /\ h.tr \in CopiesOf(s) /\ h # Idle
    BY <1>1, SlotShapes DEF Idle
  <1>4. Has(s) /\ Row(s).lock = k /\ h.tr = FromModel(Row(s), 1)
    BY <1>1 DEF HandlersHold
  <1>5. /\ t \in CopiesOf(s) /\ t.direction = h.tr.direction
        /\ t.state \in validTransferTransitions[h.tr.state] /\ h.tr.ppid \in {emptyUUID, t.ppid}
        /\ Sends(t, h.msg) => s = "provider" /\ Operation(sendTransferStart(t)) \in QueuedOf(s)
    BY <1>1, <1>3, Processed
  <1> DEFINE ops == IF Sends(t, h.msg) THEN <<Operation(sendTransferStart(t))>> ELSE <<>>
             n == [pc |-> "ready", client |-> h.client, tr |-> t, ops |-> ops]
  <1>6. ops \in OpsOf(s)
    BY <1>5 DEF OpsOf
  <1> HIDE DEF ops
  <1>7. n \in HandlersOf(s)
    BY <1>3, <1>5, <1>6 DEF HandlersOf
  <1>8. n.pc = "ready" /\ n.client = http[s][k].client /\ n.tr = t /\ n # Idle
    BY DEF Idle
  <1>9. /\ HandlersShape' /\ http'[s][k] = n
        /\ \A x \in Roles, y \in Slots : x # s \/ y # k => http'[x][y] = http[x][y]
    BY <1>2, <1>7, SlotWritten, ZenonT(60) DEF ops
  <1> HIDE DEF n
  <1>10. TablesShape' /\ WorkersShape'
    BY <1>1 DEF TablesShape, WorkersShape, Has
  <1>11. DownIsEmpty' /\ QuietBefore'
    BY <1>1, <1>3, <1>9 DEF DownIsEmpty, QuietBefore, Roles, Has
  <1>12. Waiting'
    BY <1>1, <1>3, <1>8, <1>9, WorkerShapes DEF Waiting, Peer, Roles
  <1>13. /\ t.state \in validTransferTransitions[Row(s).state]
         /\ Row(s).ppid \in {emptyUUID, t.ppid} /\ t.direction = Row(s).direction
    BY <1>4, <1>5 DEF FromModel
  <1>14. HandlersHold'
    BY <1>1, <1>4, <1>8, <1>9, <1>13 DEF HandlersHold, Has, Row
  <1>15. WorkersHold'
    BY <1>1 DEF WorkersHold, Has, Row
  <1> QED
    BY <1>9, <1>10, <1>11, <1>12, <1>14, <1>15

\* The copy becomes the row, which is free again.
LEMMA HandlerStoreKeeps ==
  ASSUME NEW s \in Roles, NEW k \in Slots, LockInv, HandlerStore(s, k)
  PROVE  LockInv'
  <1> USE DEF LockInv
  <1> DEFINE h == http[s][k]
  <1>1. /\ h.pc = "ready" /\ Put(s, h.tr) /\ Answer(s, k, "answered")
        /\ queue' = [queue EXCEPT ![s] = queue[s] \o h.ops] /\ UNCHANGED <<up, uuid>>
    BY DEF HandlerStore
  <1>2. h # Idle /\ h.tr \in CopiesOf(s) /\ h.ops \in OpsOf(s) /\ Has(s) /\ Row(s).lock = k
    BY <1>1, SlotShapes DEF Idle, HandlersHold
  <1>3. /\ TablesShape' /\ Row(s)' = ToModel(h.tr)
        /\ \A x \in Roles : (Has(x)' <=> Has(x)) /\ (x # s => table'[x] = table[x])
    BY <1>1, <1>2, CopyWritten
  <1>4. /\ HandlersShape' /\ http'[s][k] = Idle
        /\ \A x \in Roles, y \in Slots : x # s \/ y # k => http'[x][y] = http[x][y]
        /\ DOMAIN worker' = Roles
        /\ \A x \in Roles : worker'[x] \in WorkersOf(x)
        /\ \A x \in Roles : worker'[x].pc \in Busy =>
             /\ worker[x].pc \in Busy /\ worker'[x].op = worker[x].op /\ worker'[x].tr = worker[x].tr
        /\ \A x \in Roles : worker[x] = Idle => worker'[x] = Idle
        /\ Waiting'
    BY <1>1, <1>2, Answered
  <1>5. queue[s] \o h.ops \in Seq(QueuedOf(s))
    <2>1. h.ops \in Seq(QueuedOf(s))
      <3>1. h.ops = <<>> \/ \E op \in QueuedOf(s) : h.ops = <<op>>
        BY <1>2 DEF OpsOf
      <3>2. ASSUME NEW op \in QueuedOf(s) PROVE <<op>> \in Seq(QueuedOf(s))
        OBVIOUS
      <3>3. <<>> \in Seq(QueuedOf(s))
        OBVIOUS
      <3> HIDE DEF h
      <3> QED
        BY <3>1, <3>2, <3>3, Zenon
    <2> QED
      BY <2>1 DEF WorkersShape
  <1>6. WorkersShape'
    BY <1>1, <1>4, <1>5 DEF WorkersShape
  <1>7. up[s] /\ Has("consumer")
    BY <1>2 DEF DownIsEmpty, QuietBefore
  <1>8. DownIsEmpty' /\ QuietBefore'
    BY <1>1, <1>3, <1>4, <1>7 DEF DownIsEmpty, QuietBefore, Roles, WorkersShape
  <1>9. HandlersHold'
    BY <1>2, <1>3, <1>4 DEF HandlersHold, Row, Idle
  <1>10. WorkersHold'
    <2>1. worker'[s].pc \notin Busy
      BY <1>2, <1>4, SlotsAssumption DEF WorkersHold
    <2> QED
      BY <1>3, <1>4, <2>1 DEF WorkersHold, Row
  <1> QED
    BY <1>3, <1>4, <1>6, <1>8, <1>9, <1>10

\* The control plane locks and unlocks a row that nobody works on.
LEMMA LockOnlyKeeps ==
  ASSUME NEW s \in Roles, NEW i \in DOMAIN table[s], NEW o \in {"free", "signal"}, LockInv,
         table[s][i].lock \in {"free", "signal"}, SetLock(s, i, o),
         UNCHANGED <<queue, worker, http, up, uuid>>
  PROVE  LockInv'
  <1> USE DEF LockInv
  <1>1. /\ TablesShape' /\ Has(s) /\ table[s][i] = Row(s)
        /\ Row(s)'.lock = o /\ SameData(Row(s), Row(s)')
        /\ \A x \in Roles : (Has(x)' <=> Has(x)) /\ (x # s => table'[x] = table[x])
    BY LockWritten DEF Locks
  <1>2. WorkersShape' /\ HandlersShape'
    BY DEF WorkersShape, HandlersShape
  <1>3. DownIsEmpty' /\ QuietBefore' /\ Waiting'
    BY <1>1 DEF DownIsEmpty, QuietBefore, Waiting, Roles
  <1>4. HandlersHold'
    BY <1>1, SlotsAssumption DEF HandlersHold, SameData, Row
  <1>5. WorkersHold'
    BY <1>1 DEF WorkersHold, SameData, Row
  <1> QED
    BY <1>1, <1>2, <1>3, <1>4, <1>5

\* SignalTransferComplete, before and after it has the lock.
LEMMA SignalKeeps ==
  ASSUME NEW s \in Roles, LockInv, SignalTransferComplete(s) \/ SignalReturns(s)
  PROVE  LockInv'
  <1>1. CASE SignalTransferComplete(s)
    <2>1. PICK i \in DOMAIN table[s] : table[s][i].lock = "free" /\ SetLock(s, i, "signal")
      BY <1>1 DEF SignalTransferComplete
    <2> QED
      BY <1>1, <2>1, LockOnlyKeeps DEF SignalTransferComplete
  <1>2. CASE SignalReturns(s)
    <2>1. PICK i \in DOMAIN table[s] : table[s][i].lock = "signal" /\ SetLock(s, i, "free")
      BY <1>2 DEF SignalReturns
    <2> QED
      BY <1>2, <2>1, LockOnlyKeeps DEF SignalReturns
  <1> QED
    BY <1>1, <1>2

\* The transfer that a call begins, and what the consumer's table and deque
\* become.
LEMMA BeginEffect ==
  ASSUME LockInv, Begin
  PROVE  /\ ~Has("consumer") /\ ~Has("provider")
         /\ \E r \in RowsOf("consumer") :
              /\ table' = [table EXCEPT !["consumer"] = <<r>>]
              /\ r.state = "INITIAL" /\ r.ppid = emptyUUID /\ r.lock \in {"free", "leaked"}
              /\ r.direction = "PULL" <=> r.publishInfo = {}
              /\ \/ queue' = [queue EXCEPT !["consumer"] = <<>>]
                 \/ \E op \in QueuedOf("consumer") :
                      /\ queue' = [queue EXCEPT !["consumer"] = <<op>>]
                      /\ op.entry.msg.address =
                           {publishInfoToDataAddress(i) : i \in r.publishInfo}
         /\ up["consumer"] /\ uuid' = 2
         /\ UNCHANGED <<published, worker, http, up, signal, bounds>>
  <1> USE DEF LockInv
  <1>1. uuid = 1 /\ up["consumer"] /\ uuid' = 2 /\ UNCHANGED <<published, worker, http, up, signal, bounds>>
    BY DEF Begin
  <1>2. ~Has("consumer") /\ ~Has("provider")
    BY <1>1 DEF TablesShape, QuietBefore
  <1>3. PICK t \in {PullTransfer} \cup {PushTransfer(info) : info \in Infos} :
          LET sent == CanMarshal(t) IN
          /\ table' = [table EXCEPT !["consumer"] =
               <<[ToModel(t) EXCEPT !.lock = IF sent THEN "free" ELSE "leaked"]>>]
          /\ queue' = [queue EXCEPT !["consumer"] =
               IF sent THEN <<Operation(sendTransferRequest(t))>> ELSE <<>>]
    BY DEF Begin
  <1>4. /\ t.state = "INITIAL" /\ t.ppid = emptyUUID /\ t.cpid = 1 /\ t.role = "consumer"
        /\ t.publishInfo \in InfoSets /\ t.direction \in {"PULL", "PUSH"}
        /\ t.direction = "PULL" <=> t.publishInfo = {}
    BY <1>1 DEF PullTransfer, PushTransfer, New, InfoSets, KnownInfos
  <1> DEFINE r == [ToModel(t) EXCEPT !.lock = IF CanMarshal(t) THEN "free" ELSE "leaked"]
  <1>5. /\ r \in RowsOf("consumer") /\ r.state = "INITIAL" /\ r.ppid = emptyUUID
        /\ r.lock \in {"free", "leaked"}
        /\ r.publishInfo = t.publishInfo /\ r.direction = t.direction
    BY <1>4 DEF ToModel, RowsOf, Locks, TransferStates, PpidsOf
  <1> HIDE DEF r
  <1>6. /\ Operation(sendTransferRequest(t)) \in QueuedOf("consumer")
        /\ Operation(sendTransferRequest(t)).entry.msg.address =
             {publishInfoToDataAddress(i) : i \in t.publishInfo}
    BY <1>4, RequestIsQueued DEF Operation, sendTransferRequest, makeTransferRequestFunction
  <1>7. \/ queue' = [queue EXCEPT !["consumer"] = <<>>]
        \/ queue' = [queue EXCEPT !["consumer"] = <<Operation(sendTransferRequest(t))>>]
    BY <1>3
  <1>8. table' = [table EXCEPT !["consumer"] = <<r>>]
    BY <1>3 DEF r
  <1> QED
    BY <1>1, <1>2, <1>4, <1>5, <1>6, <1>7, <1>8

\* The consumer begins the transfer.
LEMMA BeginKeeps ==
  ASSUME LockInv, Begin
  PROVE  LockInv'
  <1> USE DEF LockInv
  <1>1. PICK r \in RowsOf("consumer") : table' = [table EXCEPT !["consumer"] = <<r>>]
    BY BeginEffect
  <1>2. /\ ~Has("provider") /\ ~Has("consumer") /\ up["consumer"] /\ uuid' = 2
        /\ UNCHANGED <<worker, http, up>>
        /\ \/ queue' = [queue EXCEPT !["consumer"] = <<>>]
           \/ \E op \in QueuedOf("consumer") : queue' = [queue EXCEPT !["consumer"] = <<op>>]
    BY BeginEffect
  <1>3. \A s \in Roles : worker[s] = Idle /\ \A k \in Slots : http[s][k] = Idle
    BY <1>2 DEF QuietBefore
  <1>4. /\ table'["consumer"] = <<r>> /\ table'["provider"] = table["provider"]
        /\ DOMAIN table' = Roles
    BY <1>1 DEF TablesShape, Roles
  <1>5. Has("consumer")' /\ ~Has("provider")'
    BY <1>2, <1>4 DEF Has
  <1>6. TablesShape'
    BY <1>2, <1>4, <1>5 DEF TablesShape, Roles
  <1>7. /\ queue'["consumer"] \in Seq(QueuedOf("consumer"))
        /\ queue'["provider"] = queue["provider"] /\ DOMAIN queue' = Roles
    <2>1. <<>> \in Seq(QueuedOf("consumer"))
      OBVIOUS
    <2>2. \A op \in QueuedOf("consumer") : <<op>> \in Seq(QueuedOf("consumer"))
      OBVIOUS
    <2> QED
      BY <1>2, <2>1, <2>2, Zenon DEF WorkersShape, Roles
  <1>8. WorkersShape'
    BY <1>2, <1>7 DEF WorkersShape, Roles
  <1>9. HandlersShape' /\ DownIsEmpty' /\ QuietBefore'
    BY <1>2, <1>3, <1>5, <1>7 DEF HandlersShape, DownIsEmpty, QuietBefore, Roles
  <1>10. Waiting' /\ HandlersHold' /\ WorkersHold'
    BY <1>2, <1>3 DEF Waiting, HandlersHold, WorkersHold, Idle, Busy
  <1> QED
    BY <1>6, <1>8, <1>9, <1>10

\* The worker goes over to something else, neither of them waiting for an
\* answer.
LEMMA WorkerMoves ==
  ASSUME LockInv, NEW s \in Roles, NEW n \in WorkersOf(s), worker' = [worker EXCEPT ![s] = n],
         worker[s].pc # "wait", n.pc # "wait", n = Idle \/ worker[s] # Idle \/ queue[s] # <<>>,
         http' = http
  PROVE  /\ DOMAIN worker' = Roles /\ worker'[s] = n
         /\ \A x \in Roles : worker'[x] \in WorkersOf(x) /\ (x # s => worker'[x] = worker[x])
         /\ HandlersShape' /\ Waiting'
         /\ n # Idle => up[s] /\ Has("consumer")
  <1> USE DEF LockInv
  <1>1. /\ DOMAIN worker' = Roles /\ worker'[s] = n
        /\ \A x \in Roles : worker'[x] \in WorkersOf(x) /\ (x # s => worker'[x] = worker[x])
    BY WorkerWritten
  <1>2. HandlersShape'
    BY DEF HandlersShape
  <1>3. Waiting'
    BY <1>1, WorkerShapes DEF Waiting, Peer, Roles
  <1>4. n # Idle => up[s] /\ Has("consumer")
    BY DEF DownIsEmpty, QuietBefore
  <1> QED
    BY <1>1, <1>2, <1>3, <1>4

\* The worker takes an operation that has an attempt left.
LEMMA TakeKeeps ==
  ASSUME NEW s \in Roles, LockInv, Take(s)
  PROVE  LockInv'
  <1> USE DEF LockInv
  <1> DEFINE op == [Head(queue[s]) EXCEPT !.attempts = @ + 1]
             n == [pc |-> "acquire", op |-> op]
  <1>1. /\ up[s] /\ worker[s].pc = "idle" /\ queue[s] # <<>>
        /\ queue' = [queue EXCEPT ![s] = Tail(queue[s])] /\ worker' = [worker EXCEPT ![s] = n]
        /\ UNCHANGED <<table, http, up, uuid>>
    BY DEF Take
  <1>2. Head(queue[s]) \in QueuedOf(s) /\ Tail(queue[s]) \in Seq(QueuedOf(s))
    BY <1>1, HeadTailProperties DEF WorkersShape
  <1>3. op \in OperationsOf(s)
    <2>1. ASSUME NEW o \in QueuedOf(s) PROVE [o EXCEPT !.attempts = @ + 1] \in OperationsOf(s)
      BY BoundsAssumption DEF QueuedOf, OperationsOf
    <2> QED
      BY <1>2, <2>1
  <1> HIDE DEF op
  <1>4. n \in WorkersOf(s) /\ n.pc = "acquire"
    BY <1>3 DEF WorkersOf
  <1> HIDE DEF n
  <1>5. /\ DOMAIN worker' = Roles /\ worker'[s] = n
        /\ \A x \in Roles : worker'[x] \in WorkersOf(x) /\ (x # s => worker'[x] = worker[x])
        /\ HandlersShape' /\ Waiting' /\ (n # Idle => up[s] /\ Has("consumer"))
    BY <1>1, <1>4, WorkerMoves
  <1>6. n # Idle
    BY <1>4 DEF Idle
  <1>7. TablesShape' /\ WorkersShape'
    BY <1>1, <1>2, <1>5 DEF TablesShape, WorkersShape, Has
  <1>8. DownIsEmpty' /\ QuietBefore'
    BY <1>1, <1>5, <1>6 DEF DownIsEmpty, QuietBefore, Has, WorkersShape
  <1>9. HandlersHold' /\ WorkersHold'
    BY <1>1, <1>4, <1>5, SMTT(40) DEF HandlersHold, WorkersHold, Has, Row, Busy
  <1> QED
    BY <1>5, <1>7, <1>8, <1>9

\* The worker gives up the row, or never had it.
LEMMA WorkerFailsKeeps ==
  ASSUME NEW s \in Roles, LockInv, AcquireFails(s) \/ GiveUp(s)
  PROVE  LockInv'
  <1> USE DEF LockInv
  <1>1. PICK pc \in {"failed", "terminate"} :
          /\ worker[s].pc \in {"acquire", "failed"}
          /\ worker' = [worker EXCEPT ![s] = [pc |-> pc, op |-> worker[s].op]]
          /\ UNCHANGED <<table, queue, http, up, uuid>>
    <2>1. CASE AcquireFails(s)
      BY <2>1 DEF AcquireFails
    <2>2. CASE GiveUp(s)
      <3>1. worker[s] \in [pc: {"acquire", "failed", "terminate"}, op: OperationsOf(s)]
        BY <2>2 DEF GiveUp, WorkersShape, WorkersOf, Idle
      <3>2. [worker[s] EXCEPT !.pc = "terminate"] = [pc |-> "terminate", op |-> worker[s].op]
        BY <3>1
      <3> QED
        BY <2>2, <3>2 DEF GiveUp
    <2> QED
      BY <2>1, <2>2
  <1> DEFINE n == [pc |-> pc, op |-> worker[s].op]
  <1>2. worker[s].op \in OperationsOf(s) /\ worker[s] # Idle
    BY <1>1, WorkerShapes DEF Idle
  <1>3. n \in WorkersOf(s) /\ n.pc = pc
    BY <1>2 DEF WorkersOf
  <1> HIDE DEF n
  <1>4. /\ DOMAIN worker' = Roles /\ worker'[s] = n
        /\ \A x \in Roles : worker'[x] \in WorkersOf(x) /\ (x # s => worker'[x] = worker[x])
        /\ HandlersShape' /\ Waiting'
    BY <1>1, <1>2, <1>3, WorkerMoves DEF n
  <1>5. TablesShape' /\ WorkersShape'
    BY <1>1, <1>4 DEF TablesShape, WorkersShape, Has
  <1>6. DownIsEmpty' /\ QuietBefore'
    BY <1>1, <1>2, <1>4 DEF DownIsEmpty, QuietBefore, Has
  <1>7. HandlersHold' /\ WorkersHold'
    BY <1>1, <1>3, <1>4, SMTT(40) DEF HandlersHold, WorkersHold, Has, Row, Busy
  <1> QED
    BY <1>4, <1>5, <1>6, <1>7

\* The worker locks the row, and its copy is the row in the state that the
\* entry aims at.
LEMMA AcquireKeeps ==
  ASSUME NEW s \in Roles, LockInv, Acquire(s)
  PROVE  LockInv'
  <1> USE DEF LockInv
  <1> DEFINE op == worker[s].op
  <1>1. worker[s].pc = "acquire" /\ UNCHANGED <<queue, http, up, uuid>>
    BY DEF Acquire
  <1>2. PICK i \in EntryRows(s, op.entry) :
          /\ CanUpdate(s, i, op.entry) /\ SetLock(s, i, "worker")
          /\ worker' = [worker EXCEPT ![s] =
               [pc |-> "send", op |-> op,
                tr |-> [FromModel(table[s][i], i) EXCEPT !.state = op.entry.target]]]
    BY DEF Acquire
  <1>3. i \in DOMAIN table[s]
    BY DEF EntryRows, Lookup
  <1>4. /\ TablesShape' /\ Has(s) /\ i = 1 /\ table[s][i] = Row(s)
        /\ Row(s)'.lock = "worker" /\ SameData(Row(s), Row(s)')
        /\ \A x \in Roles : (Has(x)' <=> Has(x)) /\ (x # s => table'[x] = table[x])
    BY <1>1, <1>2, <1>3, LockWritten DEF Locks
  <1>5. op \in OperationsOf(s) /\ worker[s] # Idle /\ Row(s) \in RowsOf(s)
    BY <1>1, <1>4, WorkerShapes, OneRow DEF Idle
  <1> DEFINE t == [FromModel(Row(s), 1) EXCEPT !.state = op.entry.target]
             n == [pc |-> "send", op |-> op, tr |-> t]
  <1>6. t \in CopiesOf(s)
    BY <1>5 DEF OperationsOf, EntriesOf, TransferStates, FromModel, RowsOf, CopiesOf, Roles
  <1>7. op.entry.target \in validTransferTransitions[Row(s).state] /\ Row(s).lock = "free"
    BY <1>2, <1>4 DEF CanUpdate, CanSetState
  <1>8. worker' = [worker EXCEPT ![s] = n]
    BY <1>2, <1>4
  <1> HIDE DEF t
  <1>9. n \in WorkersOf(s) /\ n.pc = "send" /\ n.op = op /\ n.tr = t
    BY <1>5, <1>6 DEF WorkersOf
  <1> HIDE DEF n
  <1>10. /\ DOMAIN worker' = Roles /\ worker'[s] = n
         /\ \A x \in Roles : worker'[x] \in WorkersOf(x) /\ (x # s => worker'[x] = worker[x])
         /\ HandlersShape' /\ Waiting'
    BY <1>1, <1>5, <1>8, <1>9, WorkerMoves
  <1>11. WorkersShape'
    BY <1>1, <1>10 DEF WorkersShape
  <1>12. DownIsEmpty' /\ QuietBefore'
    BY <1>1, <1>4, <1>5, <1>10 DEF DownIsEmpty, QuietBefore, Roles
  <1>13. HandlersHold'
    BY <1>1, <1>4, <1>7, SlotsAssumption DEF HandlersHold, SameData, Row
  <1>14. WorkersHold'
    BY <1>4, <1>7, <1>9, <1>10 DEF WorkersHold, SameData, Row, t
  <1> QED
    BY <1>4, <1>10, <1>11, <1>12, <1>13, <1>14

\* The worker is done with the row, which is free and as it was or as the
\* copy says.
LEMMA WorkerReleasesKeeps ==
  ASSUME NEW s \in Roles, LockInv, worker[s] # Idle, worker[s].pc # "wait",
         worker' = [worker EXCEPT ![s] = Idle], UNCHANGED <<http, up, uuid>>,
         TablesShape', DOMAIN queue' = Roles, queue'[s] \in Seq(QueuedOf(s)),
         \A x \in Roles : (Has(x)' <=> Has(x)) /\ (x # s => table'[x] = table[x] /\ queue'[x] = queue[x]),
         \/ table' = table
         \/ Has(s) /\ Row(s).lock \in {"free", "worker"}
  PROVE  LockInv'
  <1> USE DEF LockInv
  <1>1. Idle \in WorkersOf(s) /\ Idle.pc # "wait" /\ Idle.pc \notin Busy
    BY DEF WorkersOf, Idle, Busy
  <1>2. /\ DOMAIN worker' = Roles /\ worker'[s] = Idle
        /\ \A x \in Roles : worker'[x] \in WorkersOf(x) /\ (x # s => worker'[x] = worker[x])
        /\ HandlersShape' /\ Waiting'
    BY <1>1, WorkerMoves
  <1>3. WorkersShape'
    BY <1>2 DEF WorkersShape
  <1>4. up[s] /\ Has("consumer")
    BY DEF DownIsEmpty, QuietBefore
  <1>5. DownIsEmpty' /\ QuietBefore'
    BY <1>2, <1>4 DEF DownIsEmpty, QuietBefore, Roles
  <1>6. HandlersHold'
    BY SlotsAssumption DEF HandlersHold, Row
  <1>7. WorkersHold'
    BY <1>1, <1>2 DEF WorkersHold, Row
  <1> QED
    BY <1>2, <1>3, <1>5, <1>6, <1>7

\* The answered worker stores its copy.
LEMMA CommitKeeps ==
  ASSUME NEW s \in Roles, LockInv, Commit(s)
  PROVE  LockInv'
  <1> USE DEF LockInv
  <1>1. /\ worker[s].pc = "answered" /\ Put(s, worker[s].tr)
        /\ worker' = [worker EXCEPT ![s] = Idle] /\ UNCHANGED <<queue, http, up, uuid>>
    BY DEF Commit
  <1>2. worker[s].tr \in CopiesOf(s) /\ worker[s] # Idle /\ Has(s) /\ Row(s).lock = "worker"
    BY <1>1, WorkerShapes DEF WorkersHold, Busy, Idle
  <1>3. /\ TablesShape'
        /\ \A x \in Roles : (Has(x)' <=> Has(x)) /\ (x # s => table'[x] = table[x])
    BY <1>1, <1>2, CopyWritten
  <1> QED
    BY <1>1, <1>2, <1>3, WorkerReleasesKeeps DEF WorkersShape

\* The operation goes back to the deque, and the row, if held, is released.
LEMMA RequeueKeeps ==
  ASSUME NEW s \in Roles, LockInv, Requeue(s)
  PROVE  LockInv'
  <1> USE DEF LockInv
  <1> DEFINE op == worker[s].op
  <1>1. /\ worker[s].pc \in {"failed", "httpError"} /\ op.attempts < MaxAttempts
        /\ queue' = [queue EXCEPT ![s] = Append(queue[s], op)]
        /\ worker' = [worker EXCEPT ![s] = Idle] /\ UNCHANGED <<http, up, uuid>>
    BY DEF Requeue
  <1>2. op \in OperationsOf(s) /\ worker[s] # Idle /\ worker[s].pc # "wait"
    BY <1>1, WorkerShapes DEF Idle
  <1>3. op \in QueuedOf(s)
    BY <1>1, <1>2, BoundsAssumption DEF OperationsOf, QueuedOf
  <1> HIDE DEF op
  <1>4. /\ DOMAIN queue' = Roles /\ queue'[s] \in Seq(QueuedOf(s))
        /\ \A x \in Roles : x # s => queue'[x] = queue[x]
    BY <1>1, <1>3 DEF WorkersShape
  <1>5. CASE worker[s].pc = "failed"
    <2>1. table' = table
      BY <1>5 DEF Requeue
    <2>2. TablesShape' /\ \A x \in Roles : Has(x)' <=> Has(x)
      BY <1>1, <2>1 DEF TablesShape, Has
    <2> QED
      BY <1>1, <1>2, <1>4, <2>1, <2>2, WorkerReleasesKeeps
  <1>6. CASE worker[s].pc = "httpError"
    <2>1. SetLock(s, worker[s].tr.id, "free")
      BY <1>6 DEF Requeue
    <2>2. worker[s].tr \in CopiesOf(s) /\ Has(s) /\ Row(s).lock = "worker"
      BY <1>6, WorkerShapes DEF WorkersHold, Busy
    <2>3. worker[s].tr.id = 1 /\ 1 \in DOMAIN table[s]
      BY <2>2, OneRow DEF CopiesOf
    <2>4. /\ TablesShape'
          /\ \A x \in Roles : (Has(x)' <=> Has(x)) /\ (x # s => table'[x] = table[x])
      BY <1>1, <2>1, <2>3, LockWritten DEF Locks
    <2> QED
      BY <1>1, <1>2, <1>4, <2>2, <2>4, WorkerReleasesKeeps, ZenonT(60)
  <1> QED
    BY <1>1, <1>5, <1>6

\* terminateAttempt writes the target state into a row that is free and can
\* take it.
LEMMA TerminateEffect ==
  ASSUME NEW s \in Roles, LockInv, Terminate(s)
  PROVE  /\ TablesShape' /\ Has(s) /\ Row(s).lock = "free"
         /\ Row(s)' = [Row(s) EXCEPT !.state = worker[s].op.entry.target]
         /\ worker[s].op.entry.target \in validTransferTransitions[Row(s).state]
         /\ \A x \in Roles : (Has(x)' <=> Has(x)) /\ (x # s => table'[x] = table[x])
         /\ Row(s) \in RowsOf(s) /\ Row(s)' \in RowsOf(s)
         /\ Row(s)'.state = worker[s].op.entry.target
  <1> USE DEF LockInv
  <1> DEFINE target == worker[s].op.entry.target
  <1>1. /\ worker[s].pc = "terminate" /\ uuid' = uuid
        /\ \E i \in EntryRows(s, worker[s].op.entry) :
             CanUpdate(s, i, worker[s].op.entry) /\ table' = [table EXCEPT ![s][i].state = target]
    BY DEF Terminate
  <1>2. PICK i \in DOMAIN table[s] :
          CanUpdate(s, i, worker[s].op.entry) /\ table' = [table EXCEPT ![s][i].state = target]
    BY <1>1 DEF EntryRows, Lookup
  <1>3. i = 1 /\ Has(s) /\ table[s][i] = Row(s) /\ Row(s) \in RowsOf(s)
    BY OneRow
  <1>4. target \in {"REQUESTED", "STARTED"}
    <2>1. worker[s].op \in OperationsOf(s)
      BY <1>1, WorkerShapes
    <2> QED
      BY <2>1 DEF OperationsOf, EntriesOf
  <1> HIDE DEF target
  <1> DEFINE r == [Row(s) EXCEPT !.state = target]
  <1>5. r \in RowsOf(s) /\ r.state = target
    BY <1>3, <1>4 DEF RowsOf, TransferStates
  <1>6. table' = [table EXCEPT ![s] = [table[s] EXCEPT ![1] = r]]
    BY <1>2, <1>3 DEF Row
  <1> HIDE DEF r
  <1>7. /\ TablesShape' /\ Row(s)' = r
        /\ \A x \in Roles : (Has(x)' <=> Has(x)) /\ (x # s => table'[x] = table[x])
    BY <1>1, <1>3, <1>5, <1>6, RowWritten
  <1>8. Row(s).lock = "free" /\ target \in validTransferTransitions[Row(s).state]
    BY <1>2, <1>3 DEF CanUpdate, CanSetState, target
  <1> QED
    BY <1>3, <1>5, <1>7, <1>8 DEF r, target

\* terminate.
LEMMA TerminateKeeps ==
  ASSUME NEW s \in Roles, LockInv, Terminate(s)
  PROVE  LockInv'
  <1>1. /\ worker[s].pc = "terminate" /\ worker' = [worker EXCEPT ![s] = Idle]
        /\ UNCHANGED <<queue, http, up, uuid>>
    BY DEF Terminate
  <1>2. worker[s] # Idle /\ DOMAIN queue = Roles /\ queue[s] \in Seq(QueuedOf(s))
    BY <1>1 DEF Idle, LockInv, WorkersShape
  <1> QED
    BY <1>1, <1>2, TerminateEffect, WorkerReleasesKeeps

\* The worker's message takes a free slot of the peer, and the worker waits.
LEMMA SendHTTPRequestKeeps ==
  ASSUME NEW s \in Roles, NEW k \in Slots, LockInv, SendHTTPRequest(s, k)
  PROVE  LockInv'
  <1> USE DEF LockInv
  <1> DEFINE p == Peer(s)
             w == worker[s]
             n == [pc |-> Dispatch(w.op.entry.msg.type), client |-> "worker",
                   pid |-> w.op.entry.pid, msg |-> w.op.entry.msg]
             v == [pc |-> "wait", op |-> w.op, tr |-> w.tr, slot |-> k]
  <1>1. p \in Roles /\ p # s /\ \A x \in Roles : x = s \/ x = p
    BY DEF Peer, Roles
  <1>2. /\ w.pc = "send" /\ up[p] /\ http[p][k].pc = "idle"
        /\ http' = [http EXCEPT ![p][k] = n] /\ worker' = [worker EXCEPT ![s] = v]
        /\ UNCHANGED <<table, queue, up, uuid>>
    BY DEF SendHTTPRequest
  <1>3. w.op \in OperationsOf(s) /\ w.tr \in CopiesOf(s) /\ w # Idle /\ http[p][k] = Idle
    BY <1>1, <1>2, WorkerShapes, SlotShapes DEF Busy, Idle
  <1>4. v \in WorkersOf(s) /\ v.pc = "wait" /\ v.slot = k /\ v.op = w.op /\ v.tr = w.tr
    BY <1>3 DEF WorkersOf
  <1>5. n \in HandlersOf(p)
    <2>1. w.op.entry \in EntriesOf(s)
      BY <1>3 DEF OperationsOf
    <2> DEFINE e == w.op.entry
    <2>2. /\ e.msg \in SentTo(p)
          /\ e.pid = IF s = "consumer" THEN emptyUUID ELSE 1
      BY <2>1 DEF EntriesOf
    <2>3. CASE s = "consumer"
      <3>1. p = "provider" /\ e.msg.type = "request"
        BY <2>2, <2>3 DEF SentTo, Peer
      <3>2. n = [pc |-> "new", client |-> "worker", pid |-> emptyUUID, msg |-> e.msg]
        BY <2>2, <2>3, <3>1 DEF Dispatch
      <3> QED
        BY <2>2, <3>1, <3>2 DEF HandlersOf, Clients
    <2>4. CASE s = "provider"
      <3>1. p = "consumer" /\ e.msg.type = "start"
        BY <2>2, <2>4 DEF SentTo, Peer
      <3>2. n = [pc |-> "lock", client |-> "worker", pid |-> 1, msg |-> e.msg]
        BY <2>2, <2>4, <3>1 DEF Dispatch
      <3> QED
        BY <2>2, <3>1, <3>2 DEF HandlersOf, Clients, MessagesTo, OwnPid
    <2> QED
      BY <2>3, <2>4 DEF Roles
  <1>6. n.pc \in {"new", "lock"} /\ n.client = "worker" /\ n # Idle
    BY DEF Dispatch, Idle
  <1> HIDE DEF n, v
  <1>7. /\ HandlersShape' /\ http'[p][k] = n
        /\ \A x \in Roles, y \in Slots : x # p \/ y # k => http'[x][y] = http[x][y]
    BY <1>1, <1>2, <1>5, SlotWritten, ZenonT(60)
  <1>8. /\ DOMAIN worker' = Roles /\ worker'[s] = v
        /\ \A x \in Roles : worker'[x] \in WorkersOf(x) /\ (x # s => worker'[x] = worker[x])
    BY <1>2, <1>4, WorkerWritten
  <1>9. TablesShape' /\ WorkersShape'
    BY <1>2, <1>8 DEF TablesShape, WorkersShape, Has
  <1>10. up[s] /\ Has("consumer")
    BY <1>3 DEF DownIsEmpty, QuietBefore
  <1>11. DownIsEmpty' /\ QuietBefore'
    BY <1>1, <1>2, <1>7, <1>8, <1>10 DEF DownIsEmpty, QuietBefore, Has
  <1>12. Waiting'
    <2>1. \A y \in Slots : http[p][y] # Idle => http[p][y].client # "worker"
      BY <1>1, <1>2 DEF Waiting, Peer, Roles
    <2>2. \A x \in Roles : worker[x].pc = "wait" => worker[x].slot \in Slots
      BY WorkerShapes
    <2> QED
      BY <1>1, <1>2, <1>4, <1>6, <1>7, <1>8, <2>1, <2>2 DEF Waiting, Peer, Roles
  <1>13. HandlersHold'
    BY <1>2, <1>6, <1>7 DEF HandlersHold, Has, Row
  <1>14. WorkersHold'
    BY <1>2, <1>4, <1>8 DEF WorkersHold, Has, Row, Busy
  <1> QED
    BY <1>7, <1>9, <1>11, <1>12, <1>13, <1>14

\* A slot whose client has gone is otherwise as it was.
LEMMA ClientGone ==
  ASSUME NEW s \in Roles, NEW h \in HandlersOf(s), h # Idle
  PROVE  LET n == [h EXCEPT !.client = "gone"] IN
         /\ n \in HandlersOf(s) /\ n # Idle /\ n.client = "gone" /\ n.pc = h.pc
         /\ n.pc \in {"locked", "ready"} => n.tr = h.tr
         /\ n.pc \in {"new", "lock", "locked"} => n.msg = h.msg
         /\ n.pc = "ready" => n.ops = h.ops
  <1> DEFINE n == [h EXCEPT !.client = "gone"]
  <1>1. CASE h.pc = "new"
    <2>1. h \in [pc: {"new"}, client: Clients, pid: {emptyUUID}, msg: SentTo(s)] /\ s = "provider"
      BY <1>1 DEF HandlersOf, Idle
    <2>2. n \in [pc: {"new"}, client: Clients, pid: {emptyUUID}, msg: SentTo(s)]
          /\ n.client = "gone" /\ n.pc = h.pc /\ n.msg = h.msg
      BY <2>1 DEF Clients
    <2> HIDE DEF n
    <2> QED
      BY <1>1, <2>1, <2>2 DEF HandlersOf, Idle, n
  <1>2. CASE h.pc = "lock"
    <2>1. h \in [pc: {"lock"}, client: Clients, pid: {OwnPid(s)}, msg: MessagesTo(s)]
      BY <1>2 DEF HandlersOf, Idle
    <2>2. n \in [pc: {"lock"}, client: Clients, pid: {OwnPid(s)}, msg: MessagesTo(s)]
          /\ n.client = "gone" /\ n.pc = h.pc /\ n.msg = h.msg
      BY <2>1 DEF Clients
    <2> HIDE DEF n
    <2> QED
      BY <1>2, <2>2 DEF HandlersOf, Idle, n
  <1>3. CASE h.pc = "locked"
    <2>1. h \in [pc: {"locked"}, client: Clients, msg: MessagesTo(s), tr: CopiesOf(s)]
      BY <1>3 DEF HandlersOf, Idle
    <2>2. n \in [pc: {"locked"}, client: Clients, msg: MessagesTo(s), tr: CopiesOf(s)]
          /\ n.client = "gone" /\ n.pc = h.pc /\ n.msg = h.msg /\ n.tr = h.tr
      BY <2>1 DEF Clients
    <2> HIDE DEF n
    <2> QED
      BY <1>3, <2>2 DEF HandlersOf, Idle, n
  <1>4. CASE h.pc = "ready"
    <2>1. h \in [pc: {"ready"}, client: Clients, tr: CopiesOf(s), ops: OpsOf(s)]
      BY <1>4 DEF HandlersOf, Idle
    <2>2. n \in [pc: {"ready"}, client: Clients, tr: CopiesOf(s), ops: OpsOf(s)]
          /\ n.client = "gone" /\ n.pc = h.pc /\ n.ops = h.ops /\ n.tr = h.tr
      BY <2>1 DEF Clients
    <2> HIDE DEF n
    <2> QED
      BY <1>4, <2>2 DEF HandlersOf, Idle, n
  <1>5. h.pc \in {"new", "lock", "locked", "ready"}
    BY DEF HandlersOf
  <1> HIDE DEF n
  <1> QED
    BY <1>1, <1>2, <1>3, <1>4, <1>5 DEF n

\* The worker learns that its message failed; a handler that has it works on
\* for nobody.
LEMMA SendFailsKeeps ==
  ASSUME NEW s \in Roles, LockInv, SendFails(s)
  PROVE  LockInv'
  <1> USE DEF LockInv
  <1> DEFINE p == Peer(s)
             w == worker[s]
             v == [pc |-> "httpError", op |-> w.op, tr |-> w.tr]
  <1>1. p \in Roles /\ p # s /\ \A x \in Roles : x = s \/ x = p
    BY DEF Peer, Roles
  <1>2. /\ w.pc \in {"send", "wait"} /\ worker' = [worker EXCEPT ![s] = v]
        /\ UNCHANGED <<table, queue, up, uuid>>
        /\ w.pc = "send" => http' = http
        /\ w.pc = "wait" => http' = [http EXCEPT ![p][w.slot].client = "gone"]
    BY DEF SendFails
  <1>3. w.op \in OperationsOf(s) /\ w.tr \in CopiesOf(s) /\ w # Idle
    BY <1>2, WorkerShapes DEF Busy, Idle
  <1>4. v \in WorkersOf(s) /\ v.pc = "httpError" /\ v.op = w.op /\ v.tr = w.tr
    BY <1>3 DEF WorkersOf
  <1> HIDE DEF v
  <1>5. /\ DOMAIN worker' = Roles /\ worker'[s] = v
        /\ \A x \in Roles : worker'[x] \in WorkersOf(x) /\ (x # s => worker'[x] = worker[x])
    BY <1>2, <1>4, WorkerWritten
  <1>6. TablesShape' /\ WorkersShape'
    BY <1>2, <1>5 DEF TablesShape, WorkersShape, Has
  <1>7. up[s] /\ Has("consumer") /\ \A x \in Roles : worker[x].pc = "wait" => worker[x].slot \in Slots
    BY <1>3, WorkerShapes DEF DownIsEmpty, QuietBefore
  <1>8. WorkersHold'
    BY <1>2, <1>4, <1>5 DEF WorkersHold, Has, Row, Busy
  <1>9. CASE w.pc = "send"
    <2>1. http' = http
      BY <1>2, <1>9
    <2>2. HandlersShape' /\ HandlersHold'
      BY <1>2, <2>1 DEF HandlersShape, HandlersHold, Has, Row
    <2>3. DownIsEmpty' /\ QuietBefore'
      BY <1>1, <1>2, <1>5, <1>7, <2>1 DEF DownIsEmpty, QuietBefore, Has
    <2>4. Waiting'
      BY <1>1, <1>4, <1>5, <1>7, <1>9, <2>1 DEF Waiting, Peer, Roles
    <2> QED
      BY <1>6, <1>8, <2>2, <2>3, <2>4
  <1>10. CASE w.pc = "wait"
    <2> DEFINE k == w.slot
               h == http[p][k]
               n == [h EXCEPT !.client = "gone"]
    <2>1. k \in Slots /\ h # Idle /\ h \in HandlersOf(p)
      BY <1>1, <1>7, <1>10 DEF Waiting, HandlersShape
    <2> HIDE DEF k
    <2>2. http' = [http EXCEPT ![p][k] = n]
      BY <1>2, <1>10 DEF k
    <2>3. /\ n \in HandlersOf(p) /\ n # Idle /\ n.client = "gone" /\ n.pc = h.pc
          /\ n.pc \in {"locked", "ready"} => n.tr = h.tr
      BY <1>1, <2>1, ClientGone
    <2> HIDE DEF n
    <2>4. /\ HandlersShape' /\ http'[p][k] = n
          /\ \A x \in Roles, y \in Slots : x # p \/ y # k => http'[x][y] = http[x][y]
      BY <1>1, <2>1, <2>2, <2>3, SlotWritten
    <2>5. DownIsEmpty' /\ QuietBefore'
      BY <1>1, <1>2, <1>5, <1>7, <2>1, <2>4 DEF DownIsEmpty, QuietBefore, Has
    <2>6. Waiting'
      BY <1>1, <1>4, <1>5, <1>7, <1>10, <2>1, <2>3, <2>4 DEF Waiting, Peer, Roles, k
    <2>7. HandlersHold'
      BY <1>2, <2>1, <2>3, <2>4 DEF HandlersHold, Has, Row
    <2> QED
      BY <1>6, <1>8, <2>4, <2>5, <2>6, <2>7
  <1> QED
    BY <1>2, <1>9, <1>10

\* What the death of a process leaves: its rows as they were but for the
\* locks, none of its memory, and a peer that has lost its connections.
LEMMA DieEffect ==
  ASSUME NEW s \in Roles, NEW released, LockInv, Die(s, released)
  PROVE  /\ TablesShape' /\ \A x \in Roles : (Has(x)' <=> Has(x)) /\ (x # s => table'[x] = table[x])
         /\ Has(s) => /\ Row(s)'.lock \in {"free", "leaked"} /\ SameData(Row(s), Row(s)')
                      /\ Row(s).lock # "free" => 1 \in released \/ Row(s)'.lock = "leaked"
         /\ HandlersShape' /\ \A k \in Slots : http'[s][k] = Idle
         /\ \A k \in Slots :
              LET h == http[Peer(s)][k] IN
              http'[Peer(s)][k] =
                IF h # Idle /\ h.client = "worker" THEN [h EXCEPT !.client = "gone"] ELSE h
         /\ DOMAIN worker' = Roles /\ worker'[s] = Idle
         /\ worker'[Peer(s)] =
              IF worker[Peer(s)].pc = "wait"
                THEN [pc |-> "httpError", op |-> worker[Peer(s)].op, tr |-> worker[Peer(s)].tr]
                ELSE worker[Peer(s)]
         /\ queue' = [queue EXCEPT ![s] = <<>>] /\ up' = [up EXCEPT ![s] = FALSE]
         /\ UNCHANGED <<published, uuid>>
  <1> USE DEF LockInv
  <1> DEFINE p == Peer(s)
  <1>1. p \in Roles /\ p # s /\ \A x \in Roles : x = s \/ x = p
    BY DEF Peer, Roles
  <1>2. queue' = [queue EXCEPT ![s] = <<>>] /\ up' = [up EXCEPT ![s] = FALSE] /\ UNCHANGED <<published, uuid>>
    BY DEF Die
  <1> DEFINE new == [i \in DOMAIN table[s] |->
                       IF table[s][i].lock = "free" \/ i \in released
                         THEN [table[s][i] EXCEPT !.lock = "free"]
                         ELSE [table[s][i] EXCEPT !.lock = "leaked"]]
  <1>3. table' = [table EXCEPT ![s] = new]
    BY DEF Die
  <1>4. ASSUME Has(s)
        PROVE  /\ TablesShape' /\ \A x \in Roles : (Has(x)' <=> Has(x)) /\ (x # s => table'[x] = table[x])
               /\ Row(s)'.lock \in {"free", "leaked"} /\ SameData(Row(s), Row(s)')
               /\ Row(s).lock # "free" => 1 \in released \/ Row(s)'.lock = "leaked"
    <2>1. DOMAIN table[s] = {1} /\ Row(s) \in RowsOf(s)
      BY <1>4, OneRow
    <2> DEFINE o == IF Row(s).lock = "free" \/ 1 \in released THEN "free" ELSE "leaked"
               r == [Row(s) EXCEPT !.lock = o]
    <2>2. new = [i \in {1} |-> r]
      BY <2>1 DEF Row
    <2>3. [i \in {1} |-> r] = <<r>>
      OBVIOUS
    <2>4. new = [table[s] EXCEPT ![1] = r]
      <3>1. table[s] = <<Row(s)>>
        BY <1>4, OneRow
      <3> HIDE DEF r, new
      <3>2. [<<Row(s)>> EXCEPT ![1] = r] = <<r>>
        OBVIOUS
      <3> QED
        BY <2>2, <2>3, <3>1, <3>2
    <2>5. r \in RowsOf(s) /\ r.lock = o /\ SameData(Row(s), r)
      BY <2>1 DEF RowsOf, Locks, SameData, FromModel
    <2> HIDE DEF r, new
    <2>6. /\ TablesShape' /\ Row(s)' = r
          /\ \A x \in Roles : (Has(x)' <=> Has(x)) /\ (x # s => table'[x] = table[x])
      BY <1>2, <1>3, <1>4, <2>4, <2>5, RowWritten
    <2> QED
      BY <2>5, <2>6
  <1>5. ASSUME ~Has(s)
        PROVE  TablesShape' /\ \A x \in Roles : (Has(x)' <=> Has(x)) /\ (x # s => table'[x] = table[x])
    <2>1. new = <<>> /\ table[s] = <<>>
      BY <1>5, OneRow DEF Has
    <2> HIDE DEF new
    <2>2. DOMAIN table' = Roles /\ \A x \in Roles : table'[x] = table[x]
      BY <1>3, <2>1 DEF TablesShape
    <2> QED
      BY <1>2, <1>5, <2>2 DEF TablesShape, Has, Roles
  <1> HIDE DEF new
  <1>6. /\ TablesShape' /\ \A x \in Roles : (Has(x)' <=> Has(x)) /\ (x # s => table'[x] = table[x])
        /\ Has(s) => /\ Row(s)'.lock \in {"free", "leaked"} /\ SameData(Row(s), Row(s)')
                     /\ Row(s).lock # "free" => 1 \in released \/ Row(s)'.lock = "leaked"
    BY <1>4, <1>5
  <1>7. /\ DOMAIN worker' = Roles /\ worker'[s] = Idle
        /\ worker'[p] = IF worker[p].pc = "wait"
                          THEN [pc |-> "httpError", op |-> worker[p].op, tr |-> worker[p].tr]
                          ELSE worker[p]
    BY <1>1 DEF Die, WorkersShape
  <1> DEFINE Gone(h) == [h EXCEPT !.client = "gone"]
  <1>8. /\ DOMAIN http' = Roles /\ DOMAIN http'[s] = Slots /\ DOMAIN http'[p] = Slots
        /\ \A k \in Slots :
             /\ http'[s][k] = Idle
             /\ http'[p][k] = IF http[p][k].pc # "idle" /\ http[p][k].client = "worker"
                                THEN Gone(http[p][k]) ELSE http[p][k]
    BY <1>1 DEF Die, HandlersShape
  <1> HIDE DEF Gone
  <1>9. \A k \in Slots : http'[p][k] = IF http[p][k] # Idle /\ http[p][k].client = "worker"
                                         THEN Gone(http[p][k]) ELSE http[p][k]
    BY <1>1, <1>8, SlotShapes
  <1>10. Idle \in HandlersOf(s) /\ \A k \in Slots : http[p][k] \in HandlersOf(p)
    BY <1>1 DEF HandlersOf, HandlersShape
  <1>11. \A h \in HandlersOf(p) : h # Idle => Gone(h) \in HandlersOf(p)
    BY <1>1, ClientGone DEF Gone
  <1>12. HandlersShape'
    BY <1>1, <1>8, <1>9, <1>10, <1>11 DEF HandlersShape
  <1> QED
    BY <1>2, <1>6, <1>7, <1>8, <1>9, <1>12 DEF Gone

\* Nothing of the process's work survives it, and the peer's handlers and
\* worker keep the rows they have.
LEMMA DieKeeps ==
  ASSUME NEW s \in Roles, NEW released, LockInv, Die(s, released)
  PROVE  LockInv'
  <1> USE DEF LockInv
  <1> DEFINE p == Peer(s)
             Gone(h) == [h EXCEPT !.client = "gone"]
             v == [pc |-> "httpError", op |-> worker[p].op, tr |-> worker[p].tr]
  <1>1. p \in Roles /\ p # s /\ \A x \in Roles : x = s \/ x = p
    BY DEF Peer, Roles
  <1>2. /\ TablesShape' /\ \A x \in Roles : (Has(x)' <=> Has(x)) /\ (x # s => table'[x] = table[x])
        /\ HandlersShape' /\ \A k \in Slots : http'[s][k] = Idle
        /\ DOMAIN worker' = Roles /\ worker'[s] = Idle
        /\ worker'[p] = IF worker[p].pc = "wait" THEN v ELSE worker[p]
        /\ queue' = [queue EXCEPT ![s] = <<>>] /\ up' = [up EXCEPT ![s] = FALSE]
        /\ \A k \in Slots : http'[p][k] = IF http[p][k] # Idle /\ http[p][k].client = "worker"
                                            THEN Gone(http[p][k]) ELSE http[p][k]
    BY DieEffect
  <1>3. \A h \in HandlersOf(p) : h # Idle =>
          /\ Gone(h) # Idle /\ Gone(h).client = "gone" /\ Gone(h).pc = h.pc
          /\ Gone(h).pc \in {"locked", "ready"} => Gone(h).tr = h.tr
    BY <1>1, ClientGone
  <1> HIDE DEF Gone
  <1>4. \A k \in Slots :
          /\ http'[p][k] # Idle <=> http[p][k] # Idle
          /\ http'[p][k] # Idle => http'[p][k].client # "worker"
          /\ http'[p][k].pc = http[p][k].pc
          /\ http'[p][k].pc \in {"locked", "ready"} => http'[p][k].tr = http[p][k].tr
    <2>1. \A k \in Slots : http[p][k] \in HandlersOf(p)
      BY <1>1 DEF HandlersShape
    <2> QED
      BY <1>2, <1>3, <2>1
  <1>5. /\ worker'[p] \in WorkersOf(p) /\ worker'[p].pc # "wait"
        /\ worker[p] = Idle => worker'[p] = Idle
        /\ worker'[p].pc \in Busy =>
             /\ worker[p].pc \in Busy /\ worker'[p].op = worker[p].op /\ worker'[p].tr = worker[p].tr
    <2>1. CASE worker[p].pc = "wait"
      <3>1. worker[p].op \in OperationsOf(p) /\ worker[p].tr \in CopiesOf(p) /\ worker[p] # Idle
        BY <1>1, <2>1, WorkerShapes DEF Busy, Idle
      <3>2. v \in WorkersOf(p) /\ v.pc = "httpError" /\ v.op = worker[p].op /\ v.tr = worker[p].tr
        BY <3>1 DEF WorkersOf
      <3> HIDE DEF v
      <3> QED
        BY <1>2, <2>1, <3>1, <3>2 DEF Busy
    <2>2. CASE worker[p].pc # "wait"
      BY <1>1, <1>2, <2>2 DEF WorkersShape
    <2> QED
      BY <2>1, <2>2
  <1>6. Idle \in WorkersOf(s) /\ Idle.pc \notin Busy /\ Idle.pc \notin {"wait", "locked", "ready"}
    BY DEF WorkersOf, Idle, Busy
  <1>7. /\ DOMAIN queue' = Roles /\ queue'[s] = <<>> /\ queue'[p] = queue[p]
        /\ up' \in [Roles -> BOOLEAN] /\ up'[p] = up[p]
    BY <1>1, <1>2 DEF WorkersShape, DownIsEmpty
  <1>8. WorkersShape'
    <2>1. <<>> \in Seq(QueuedOf(s))
      OBVIOUS
    <2> QED
      BY <1>1, <1>2, <1>5, <1>6, <1>7, <2>1, Zenon DEF WorkersShape
  <1>9. DownIsEmpty'
    BY <1>1, <1>2, <1>4, <1>5, <1>7 DEF DownIsEmpty
  <1>10. QuietBefore'
    <2>1. (Has("consumer")' <=> Has("consumer")) /\ (Has("provider")' <=> Has("provider"))
      BY <1>2 DEF Roles
    <2> QED
      BY <1>1, <1>2, <1>4, <1>5, <1>7, <2>1 DEF QuietBefore
  <1>11. Waiting'
    BY <1>1, <1>2, <1>4, <1>5, <1>6 DEF Waiting, Peer, Roles
  <1>12. HandlersHold'
    <2>1. \A k \in Slots : http'[s][k].pc \notin {"locked", "ready"}
      BY <1>2, <1>6
    <2>2. /\ Has(p)' <=> Has(p)
          /\ Row(p)' = Row(p)
      BY <1>1, <1>2 DEF Row
    <2>3. \A k \in Slots :
            /\ http'[p][k].pc \in {"locked", "ready"} => Has(p)' /\ Row(p)'.lock = k
            /\ http'[p][k].pc = "locked" => http'[p][k].tr = FromModel(Row(p), 1)'
            /\ http'[p][k].pc = "ready" =>
                 /\ http'[p][k].tr.state \in validTransferTransitions[Row(p)'.state]
                 /\ Row(p)'.ppid \in {emptyUUID, http'[p][k].tr.ppid}
                 /\ http'[p][k].tr.direction = Row(p)'.direction
      BY <1>1, <1>4, <2>2 DEF HandlersHold
    <2> QED
      BY <1>1, <2>1, <2>3 DEF HandlersHold
  <1>13. WorkersHold'
    <2>1. /\ Has(p)' <=> Has(p)
          /\ Row(p)' = Row(p)
          /\ worker'[s].pc \notin Busy
      BY <1>1, <1>2, <1>6 DEF Row
    <2> QED
      BY <1>1, <1>5, <2>1 DEF WorkersHold
  <1> QED
    BY <1>2, <1>8, <1>9, <1>10, <1>11, <1>12, <1>13

\* A process that starts again has done nothing yet.
LEMMA RestartKeeps ==
  ASSUME NEW s \in Roles, LockInv, Restart(s)
  PROVE  LockInv'
  <1> USE DEF LockInv
  <1>1. up' = [up EXCEPT ![s] = TRUE] /\ UNCHANGED <<table, queue, worker, http, uuid>>
    BY DEF Restart
  <1>2. TablesShape' /\ WorkersShape' /\ HandlersShape' /\ DownIsEmpty'
    BY <1>1 DEF TablesShape, WorkersShape, HandlersShape, Has, DownIsEmpty
  <1>3. QuietBefore' /\ Waiting'
    BY <1>1 DEF QuietBefore, Waiting, Has
  <1>4. HandlersHold' /\ WorkersHold'
    BY <1>1 DEF HandlersHold, WorkersHold, Has, Row
  <1> QED
    BY <1>2, <1>3, <1>4

\* The first state.
LEMMA InitLock ==
  ASSUME Init
  PROVE  LockInv
  <1>1. /\ DOMAIN table = Roles /\ DOMAIN queue = Roles /\ DOMAIN worker = Roles
        /\ DOMAIN http = Roles /\ uuid = 1 /\ up \in [Roles -> BOOLEAN]
        /\ \A s \in Roles : /\ table[s] = <<>> /\ queue[s] = <<>> /\ worker[s] = Idle
                            /\ DOMAIN http[s] = Slots /\ \A k \in Slots : http[s][k] = Idle
    BY DEF Init
  <1>2. \A s \in Roles : ~Has(s)
    BY <1>1 DEF Has
  <1>3. TablesShape
    BY <1>1, <1>2 DEF TablesShape, Roles
  <1>4. WorkersShape /\ HandlersShape
    <2>1. \A s \in Roles : <<>> \in Seq(QueuedOf(s)) /\ Idle \in WorkersOf(s) /\ Idle \in HandlersOf(s)
      BY DEF WorkersOf, HandlersOf
    <2> QED
      BY <1>1, <2>1 DEF WorkersShape, HandlersShape
  <1>5. DownIsEmpty /\ QuietBefore
    BY <1>1, <1>2 DEF DownIsEmpty, QuietBefore, Roles
  <1>6. Waiting /\ HandlersHold /\ WorkersHold
    BY <1>1 DEF Waiting, HandlersHold, WorkersHold, Idle, Busy
  <1> QED
    BY <1>3, <1>4, <1>5, <1>6 DEF LockInv

\* Every step.
LEMMA NextLock ==
  ASSUME LockInv, [Next]_vars
  PROVE  LockInv'
  <1>1. CASE Begin
    BY <1>1, BeginKeeps
  <1>2. ASSUME NEW s \in Roles, Reconcile(s)
        PROVE  LockInv'
    <2>1. CASE Take(s)
      BY <2>1, TakeKeeps
    <2>2. CASE Acquire(s)
      BY <2>2, AcquireKeeps
    <2>3. CASE AcquireFails(s) \/ GiveUp(s)
      BY <2>3, WorkerFailsKeeps
    <2>4. CASE \E k \in Slots : SendHTTPRequest(s, k)
      BY <2>4, SendHTTPRequestKeeps
    <2>5. CASE SendFails(s)
      BY <2>5, SendFailsKeeps
    <2>6. CASE Commit(s)
      BY <2>6, CommitKeeps
    <2>7. CASE Requeue(s)
      BY <2>7, RequeueKeeps
    <2>8. CASE Terminate(s)
      BY <2>8, TerminateKeeps
    <2>9. CASE PanicHolding(s) \/ PanicTerminating(s)
      BY <2>9, DieKeeps DEF PanicHolding, PanicTerminating
    <2> QED
      BY <1>2, <2>1, <2>2, <2>3, <2>4, <2>5, <2>6, <2>7, <2>8, <2>9 DEF Reconcile
  <1>3. ASSUME NEW s \in Roles, SignalReturns(s) \/ SignalTransferComplete(s)
        PROVE  LockInv'
    BY <1>3, SignalKeeps
  <1>4. ASSUME NEW s \in Roles, Poll(s)
        PROVE  LockInv'
    BY <1>4, FrameKeeps DEF Poll
  <1>5. ASSUME NEW s \in Roles, NEW k \in Slots, Handle(s, k)
        PROVE  LockInv'
    BY <1>5, CreateTransferKeeps, HandlerLockKeeps, HandlerNotFoundKeeps, HandlerProcessKeeps,
       HandlerRejectKeeps, HandlerStoreKeeps DEF Handle
  <1>6. ASSUME NEW s \in Roles, Crash(s) \/ Restart(s)
        PROVE  LockInv'
    BY <1>6, DieKeeps, RestartKeeps DEF Crash
  <1>7. ASSUME NEW s \in Roles, NEW k \in Slots, HandlerCancelled(s, k) \/ Receive(s, k)
        PROVE  LockInv'
    BY <1>7, HandlerCancelledKeeps, ReceiveKeeps
  <1>8. CASE UNCHANGED vars
    BY <1>8, FrameKeeps DEF vars
  <1> QED
    BY <1>1, <1>2, <1>3, <1>4, <1>5, <1>6, <1>7, <1>8 DEF Next, Progress

\* Whoever works on a copy of a row has it locked, one at a time, and every
\* copy is one valid move ahead of its row: two connectors with any number of
\* handlers each, crashes, lost exchanges and timeouts included
\* (getTransferLocked, processTransferMessage, reconcileEntry).
THEOREM LockInvariant == Spec => []LockInv
  BY InitLock, NextLock, PTL DEF Spec

-----------------------------------------------------------------------------
(* What a step does to the rows                                            *)

\* The row of s is as it was but for its lock, and a lock that was left
\* behind stays.
RowKept(s) ==
  /\ Has(s)' <=> Has(s)
  /\ Has(s) => /\ SameData(Row(s), Row(s)')
               /\ Row(s).lock = "leaked" => Row(s)'.lock = "leaked"

\* A table that is not written.
LEMMA SameTable ==
  ASSUME NEW s, table'[s] = table[s]
  PROVE  RowKept(s)
  BY DEF RowKept, SameData, Has, Row

\* SetLock, of a row whose lock was not left behind.
LEMMA SetLockKeepsRows ==
  ASSUME LockInv, NEW s \in Roles, NEW i \in DOMAIN table[s], NEW o \in Locks, SetLock(s, i, o),
         uuid' = uuid, table[s][i].lock # "leaked" \/ o = "leaked", NEW x \in Roles
  PROVE  RowKept(x)
  <1>1. /\ Has(s) /\ table[s][i] = Row(s)
        /\ Row(s)'.lock = o /\ SameData(Row(s), Row(s)')
        /\ \A y \in Roles : (Has(y)' <=> Has(y)) /\ (y # s => table'[y] = table[y])
    BY LockWritten DEF LockInv
  <1>2. CASE x = s
    BY <1>1, <1>2 DEF RowKept
  <1>3. CASE x # s
    BY <1>1, <1>3, SameTable
  <1> QED
    BY <1>2, <1>3

\* A handler stores its copy.
LEMMA StoreEffect ==
  ASSUME NEW s \in Roles, NEW k \in Slots, LockInv, HandlerStore(s, k)
  PROVE  LET t == http[s][k].tr IN
         /\ http[s][k].pc = "ready" /\ t \in CopiesOf(s) /\ http[s][k].ops \in OpsOf(s)
         /\ Has(s) /\ Has(s)' /\ Row(s).lock = k /\ Row(s)' = ToModel(t)
         /\ t.state \in validTransferTransitions[Row(s).state]
         /\ Row(s).ppid \in {emptyUUID, t.ppid} /\ t.direction = Row(s).direction
         /\ \A x \in Roles : x # s => table'[x] = table[x]
  <1>1. /\ http[s][k].pc = "ready" /\ Put(s, http[s][k].tr) /\ uuid' = uuid
    BY DEF HandlerStore
  <1>2. /\ http[s][k].tr \in CopiesOf(s) /\ http[s][k].ops \in OpsOf(s)
        /\ Has(s) /\ Row(s).lock = k
        /\ http[s][k].tr.state \in validTransferTransitions[Row(s).state]
        /\ Row(s).ppid \in {emptyUUID, http[s][k].tr.ppid}
        /\ http[s][k].tr.direction = Row(s).direction
    BY <1>1, SlotShapes DEF LockInv, HandlersHold
  <1> QED
    BY <1>1, <1>2, CopyWritten DEF LockInv

\* The worker stores its copy.
LEMMA CommitEffect ==
  ASSUME NEW s \in Roles, LockInv, Commit(s)
  PROVE  LET t == worker[s].tr IN
         /\ worker[s].pc = "answered" /\ worker[s] # Idle
         /\ Has(s) /\ Has(s)' /\ Row(s).lock = "worker" /\ Row(s)' = ToModel(t)
         /\ t = [FromModel(Row(s), 1) EXCEPT !.state = worker[s].op.entry.target]
         /\ worker[s].op.entry.target \in validTransferTransitions[Row(s).state]
         /\ worker[s].op.entry.target = IF s = "consumer" THEN "REQUESTED" ELSE "STARTED"
         /\ t.ppid = Row(s).ppid /\ t.direction = Row(s).direction /\ t \in CopiesOf(s)
         /\ t.state = worker[s].op.entry.target /\ t.publishInfo = Row(s).publishInfo
         /\ \A x \in Roles : x # s => table'[x] = table[x]
  <1> DEFINE t == worker[s].tr
             target == worker[s].op.entry.target
  <1>1. worker[s].pc = "answered" /\ Put(s, t) /\ uuid' = uuid
    BY DEF Commit
  <1>2. /\ t \in CopiesOf(s) /\ worker[s].op \in OperationsOf(s) /\ worker[s] # Idle
        /\ Has(s) /\ Row(s).lock = "worker"
        /\ t = [FromModel(Row(s), 1) EXCEPT !.state = target]
        /\ target \in validTransferTransitions[Row(s).state]
    BY <1>1, WorkerShapes DEF LockInv, WorkersHold, Busy, Idle
  <1>3. target = IF s = "consumer" THEN "REQUESTED" ELSE "STARTED"
    BY <1>2 DEF OperationsOf, EntriesOf
  <1>4. /\ t.ppid = Row(s).ppid /\ t.direction = Row(s).direction
        /\ t.state = target /\ t.publishInfo = Row(s).publishInfo
    BY <1>2 DEF FromModel
  <1>5. Has(s)' /\ Row(s)' = ToModel(t) /\ \A x \in Roles : x # s => table'[x] = table[x]
    BY <1>1, <1>2, CopyWritten DEF LockInv
  <1> QED
    BY <1>1, <1>2, <1>3, <1>4, <1>5

\* A death keeps the rows: what PanicHolding releases was the worker's.
LEMMA DeathKeepsRows ==
  ASSUME NEW s \in Roles, LockInv, PanicHolding(s) \/ PanicTerminating(s) \/ Crash(s),
         NEW x \in Roles
  PROVE  RowKept(x)
  <1>1. PICK released : /\ Die(s, released)
                        /\ Has(s) /\ 1 \in released => Row(s).lock = "worker"
    <2>1. CASE PanicHolding(s)
      <3>1. Row(s).lock = "worker" /\ Die(s, {worker[s].tr.id})
        BY <2>1 DEF LockInv, WorkersHold, PanicHolding, Busy
      <3> QED
        BY <3>1
    <2>2. CASE PanicTerminating(s) \/ Crash(s)
      <3>1. Die(s, {})
        BY <2>2 DEF PanicTerminating, Crash
      <3> QED
        BY <3>1
    <2> QED
      BY <2>1, <2>2
  <1>2. /\ \A y \in Roles : (Has(y)' <=> Has(y)) /\ (y # s => table'[y] = table[y])
        /\ Has(s) => /\ SameData(Row(s), Row(s)')
                     /\ Row(s).lock # "free" => 1 \in released \/ Row(s)'.lock = "leaked"
    BY <1>1, DieEffect
  <1>3. CASE x = s
    BY <1>1, <1>2, <1>3 DEF RowKept
  <1>4. CASE x # s
    BY <1>2, <1>4, SameTable
  <1> QED
    BY <1>3, <1>4

\* A row is written by a call that begins a transfer, a handler or the
\* worker of its own connector, and by nothing else.
LEMMA RowSteps ==
  ASSUME LockInv, [Next]_vars, NEW x \in Roles
  PROVE  \/ RowKept(x)
         \/ x = "consumer" /\ Begin
         \/ \E k \in Slots : CreateTransfer(x, k) /\ ~Has(x)
         \/ \E k \in Slots : HandlerStore(x, k)
         \/ Commit(x)
         \/ Terminate(x)
  <1> USE DEF LockInv
  <1>1. CASE table' = table
    BY <1>1, SameTable
  <1>2. ASSUME Begin, x # "consumer"
        PROVE  RowKept(x)
    <2>1. PICK r : table' = [table EXCEPT !["consumer"] = <<r>>]
      BY <1>2, BeginEffect
    <2>2. x # "consumer" => table'[x] = table[x]
      BY <2>1 DEF TablesShape
    <2> QED
      BY <1>2, <2>2, SameTable
  <1>3. ASSUME NEW s \in Roles, NEW k \in Slots, CreateTransfer(s, k)
        PROVE  RowKept(x) \/ (CreateTransfer(x, k) /\ ~Has(x))
    <2>1. table' = table \/ \E r : ~Has(s) /\ table' = [table EXCEPT ![s] = <<r>>]
      BY <1>3, CreateEffect
    <2>2. x # s => table'[x] = table[x]
      BY <2>1 DEF TablesShape
    <2> QED
      BY <1>1, <1>3, <2>1, <2>2, SameTable
  <1>4. ASSUME NEW s \in Roles, NEW k \in Slots, HandlerLock(s, k)
        PROVE  RowKept(x)
    <2>1. PICK i \in Wanted(s, k) : table[s][i].lock = "free" /\ SetLock(s, i, k) /\ uuid' = uuid
      BY <1>4 DEF HandlerLock
    <2>2. i \in DOMAIN table[s] /\ k \in Locks
      BY DEF Wanted, Lookup, Locks
    <2> QED
      BY <2>1, <2>2, SetLockKeepsRows
  <1>5. ASSUME NEW s \in Roles, NEW k \in Slots, HandlerReject(s, k) \/ HandlerCancelled(s, k)
        PROVE  RowKept(x)
    <2>1. CASE table' = table
      BY <2>1, SameTable
    <2>2. CASE table' # table
      <3>1. http[s][k].pc \in {"locked", "ready"} /\ SetLock(s, http[s][k].tr.id, "leaked") /\ uuid' = uuid
        BY <1>5, <2>2 DEF HandlerReject, HandlerCancelled
      <3>2. http[s][k].tr.id = 1 /\ Has(s)
        BY <3>1, SlotShapes DEF HandlersHold, CopiesOf
      <3>3. 1 \in DOMAIN table[s]
        BY <3>2, OneRow
      <3> QED
        BY <3>1, <3>2, <3>3, SetLockKeepsRows DEF Locks
    <2> QED
      BY <2>1, <2>2
  <1>6. ASSUME NEW s \in Roles, NEW k \in Slots, HandlerStore(s, k)
        PROVE  RowKept(x) \/ HandlerStore(x, k)
    BY <1>6, StoreEffect, SameTable
  <1>7. ASSUME NEW s \in Roles, SignalReturns(s) \/ SignalTransferComplete(s)
        PROVE  RowKept(x)
    <2>1. PICK i \in DOMAIN table[s], o \in {"free", "signal"} :
            table[s][i].lock # "leaked" /\ SetLock(s, i, o) /\ uuid' = uuid
      BY <1>7 DEF SignalReturns, SignalTransferComplete
    <2> QED
      BY <2>1, SetLockKeepsRows DEF Locks
  <1>8. ASSUME NEW s \in Roles, Acquire(s)
        PROVE  RowKept(x)
    <2>1. PICK i \in EntryRows(s, worker[s].op.entry) :
            table[s][i].lock = "free" /\ SetLock(s, i, "worker") /\ uuid' = uuid
      BY <1>8 DEF Acquire, CanUpdate
    <2>2. i \in DOMAIN table[s]
      BY DEF EntryRows, Lookup
    <2> QED
      BY <2>1, <2>2, SetLockKeepsRows DEF Locks
  <1>9. ASSUME NEW s \in Roles, Requeue(s)
        PROVE  RowKept(x)
    <2>1. CASE table' = table
      BY <2>1, SameTable
    <2>2. CASE table' # table
      <3>1. worker[s].pc = "httpError" /\ SetLock(s, worker[s].tr.id, "free") /\ uuid' = uuid
        BY <1>9, <2>2 DEF Requeue
      <3>2. worker[s].tr.id = 1 /\ Has(s) /\ Row(s).lock = "worker"
        BY <3>1, WorkerShapes DEF WorkersHold, CopiesOf, Busy
      <3>3. 1 \in DOMAIN table[s] /\ table[s][1].lock = "worker"
        BY <3>2, OneRow DEF Row
      <3> QED
        BY <3>1, <3>2, <3>3, SetLockKeepsRows DEF Locks
    <2> QED
      BY <2>1, <2>2
  <1>10. ASSUME NEW s \in Roles, Commit(s)
         PROVE  RowKept(x) \/ Commit(x)
    BY <1>10, CommitEffect, SameTable, ZenonT(60)
  <1>11. ASSUME NEW s \in Roles, Terminate(s)
         PROVE  RowKept(x) \/ Terminate(x)
    BY <1>11, TerminateEffect, SameTable
  <1>12. ASSUME NEW s \in Roles, PanicHolding(s) \/ PanicTerminating(s) \/ Crash(s)
         PROVE  RowKept(x)
    BY <1>12, DeathKeepsRows
  <1>13. ASSUME NEW s \in Roles, Reconcile(s), table' # table
         PROVE  RowKept(x) \/ Commit(x) \/ Terminate(x)
    <2>1. ASSUME Take(s) \/ AcquireFails(s) \/ SendFails(s) \/ GiveUp(s)
          PROVE  FALSE
      BY <1>13, <2>1 DEF Take, AcquireFails, SendFails, GiveUp
    <2>2. ASSUME NEW k \in Slots, SendHTTPRequest(s, k)
          PROVE  FALSE
      BY <1>13, <2>2 DEF SendHTTPRequest
    <2> QED
      BY <1>8, <1>9, <1>10, <1>11, <1>12, <1>13, <2>1, <2>2 DEF Reconcile
  <1>14. ASSUME NEW s \in Roles, NEW k \in Slots, Handle(s, k), table' # table
         PROVE  RowKept(x) \/ HandlerStore(x, k) \/ (CreateTransfer(x, k) /\ ~Has(x))
    <2>1. ASSUME HandlerNotFound(s, k) \/ HandlerProcess(s, k)
          PROVE  FALSE
      BY <1>14, <2>1 DEF HandlerNotFound, HandlerProcess
    <2> QED
      BY <1>3, <1>4, <1>5, <1>6, <1>14, <2>1 DEF Handle
  <1>15. ASSUME table' # table, x # "consumer" \/ ~Begin
         PROVE  \/ RowKept(x)
                \/ \E k \in Slots : CreateTransfer(x, k) /\ ~Has(x)
                \/ \E k \in Slots : HandlerStore(x, k)
                \/ Commit(x)
                \/ Terminate(x)
    <2>1. Next
      BY <1>15 DEF vars
    <2>2. ASSUME NEW s \in Roles, Restart(s) \/ Poll(s) \/ \E k \in Slots : Receive(s, k)
          PROVE  FALSE
      BY <1>15, <2>2 DEF Restart, Poll, Receive
    <2>3. Begin => RowKept(x)
      BY <1>2, <1>15
    <2> QED
      BY <1>5, <1>7, <1>12, <1>13, <1>14, <1>15, <2>1, <2>2, <2>3 DEF Next, Progress
  <1> QED
    BY <1>1, <1>15

\* A row moves along validTransferTransitions and keeps its provider PID, its
\* direction and its place.
Forward(r, r1) ==
  /\ r1.state \in {r.state} \cup validTransferTransitions[r.state]
  /\ r.ppid \in {emptyUUID, r1.ppid} /\ r1.direction = r.direction

\* Every step moves every row forward, whoever writes it.
LEMMA RowsForward ==
  ASSUME LockInv, [Next]_vars, NEW s \in Roles, Has(s)
  PROVE  Has(s)' /\ Forward(Row(s), Row(s)')
  <1>1. CASE RowKept(s)
    BY <1>1 DEF RowKept, SameData, Forward
  <1>2. CASE Begin
    BY <1>2, BeginEffect DEF Roles
  <1>3. ASSUME NEW k \in Slots, HandlerStore(s, k)
        PROVE  Has(s)' /\ Forward(Row(s), Row(s)')
    BY <1>3, StoreEffect DEF ToModel, Forward
  <1>4. CASE Commit(s)
    <2>1. /\ Has(s)' /\ Row(s)' = ToModel(worker[s].tr)
          /\ worker[s].tr.state \in validTransferTransitions[Row(s).state]
          /\ worker[s].tr.ppid = Row(s).ppid /\ worker[s].tr.direction = Row(s).direction
      BY <1>4, CommitEffect
    <2> QED
      BY <2>1 DEF ToModel, Forward
  <1>5. CASE Terminate(s)
    <2>1. /\ Has(s)' /\ Row(s) \in RowsOf(s)
          /\ Row(s)' = [Row(s) EXCEPT !.state = worker[s].op.entry.target]
          /\ worker[s].op.entry.target \in validTransferTransitions[Row(s).state]
      BY <1>5, TerminateEffect
    <2>2. ASSUME NEW r \in RowsOf(s), NEW target
          PROVE  LET n == [r EXCEPT !.state = target] IN
                 n.state = target /\ n.ppid = r.ppid /\ n.direction = r.direction
      BY DEF RowsOf
    <2> QED
      BY <2>1, <2>2 DEF Forward
  <1> QED
    BY <1>1, <1>2, <1>3, <1>4, <1>5, RowSteps

\* Whoever stores a state, from whatever copy, moves the row along
\* validTransferTransitions, and a provider PID once known stays.
THEOREM TransferRowsMoveForward == Spec => RowsMoveForward
  <1> DEFINE A == \A s \in Roles : \A i \in DOMAIN table[s] :
                    LET r == table[s][i]
                        r1 == table'[s][i]
                    IN  /\ r1.state \in {r.state} \cup validTransferTransitions[r.state]
                        /\ r.ppid \in {emptyUUID, r1.ppid}
  <1>1. LockInv /\ [Next]_vars => [A]_vars
    <2>1. ASSUME LockInv, [Next]_vars, NEW s \in Roles, NEW i \in DOMAIN table[s]
          PROVE  /\ table'[s][i].state \in {table[s][i].state} \cup validTransferTransitions[table[s][i].state]
                 /\ table[s][i].ppid \in {emptyUUID, table'[s][i].ppid}
      <3>1. i = 1 /\ Has(s) /\ table[s][i] = Row(s)
        BY <2>1, OneRow DEF LockInv
      <3> QED
        BY <2>1, <3>1, RowsForward DEF Forward, Row
    <2> QED
      BY <2>1
  <1> QED
    BY <1>1, LockInvariant, PTL DEF Spec, RowsMoveForward

-----------------------------------------------------------------------------
(* What a step does to the slots                                           *)

\* The request that slot content h stands for is still being served, at the
\* same point; its client may have gone.
Carried(h, h1) ==
  /\ h1.pc = h.pc /\ h1.client \in {h.client, "gone"}
  /\ h.pc \in {"new", "lock", "locked"} => h1.msg = h.msg
  /\ h.pc \in {"locked", "ready"} => h1.tr = h.tr
  /\ h.pc = "ready" => h1.ops = h.ops

\* The slot is free again.  The copy in it has been stored, or its row stays
\* locked.
Freed(s, k) ==
  /\ http'[s][k] = Idle
  /\ http[s][k].pc = "ready" => HandlerStore(s, k) \/ (Has(s)' /\ Row(s)'.lock = "leaked")

\* Answering frees one slot.
LEMMA AnswerFrees ==
  ASSUME LockInv, NEW x \in Roles, NEW y \in Slots, NEW pc, Answer(x, y, pc),
         NEW s \in Roles, NEW k \in Slots
  PROVE  IF s = x /\ k = y THEN http'[s][k] = Idle ELSE http'[s][k] = http[s][k]
  BY DEF Answer, LockInv, HandlersShape

\* A handler that fails leaves the lock behind.
LEMMA FailureLeaks ==
  ASSUME LockInv, NEW s \in Roles, NEW k \in Slots,
         HandlerReject(s, k) \/ HandlerCancelled(s, k), http[s][k].pc \in {"locked", "ready"}
  PROVE  Has(s)' /\ Row(s)'.lock = "leaked"
  <1> USE DEF LockInv
  <1>1. SetLock(s, http[s][k].tr.id, "leaked") /\ uuid' = uuid
    BY DEF HandlerReject, HandlerCancelled
  <1>2. http[s][k].tr.id = 1 /\ Has(s)
    BY SlotShapes DEF HandlersHold, CopiesOf
  <1>3. 1 \in DOMAIN table[s]
    BY <1>2, OneRow
  <1> QED
    BY <1>1, <1>2, <1>3, LockWritten DEF Locks

\* A death frees the slots of the process, and the row of a copy stays locked.
LEMMA DeathFrees ==
  ASSUME LockInv, NEW x \in Roles, PanicHolding(x) \/ PanicTerminating(x) \/ Crash(x),
         NEW s \in Roles, NEW k \in Slots
  PROVE  Freed(s, k) \/ Carried(http[s][k], http'[s][k])
  <1> USE DEF LockInv
  <1>1. PICK released : /\ Die(x, released)
                        /\ 1 \in released => worker[x].pc = "httpError"
    <2>1. CASE PanicHolding(x)
      BY <2>1 DEF PanicHolding
    <2>2. CASE PanicTerminating(x) \/ Crash(x)
      <3>1. Die(x, {})
        BY <2>2 DEF PanicTerminating, Crash
      <3> QED
        BY <3>1
    <2> QED
      BY <2>1, <2>2
  <1>2. CASE s = x
    <2>1. /\ http'[s][k] = Idle /\ (Has(s)' <=> Has(s))
          /\ Has(s) => (Row(s).lock # "free" => 1 \in released \/ Row(s)'.lock = "leaked")
      BY <1>1, <1>2, DieEffect
    <2>2. ASSUME http[s][k].pc = "ready"
          PROVE  Has(s) /\ Row(s).lock # "free" /\ 1 \notin released
      <3>1. Has(s) /\ Row(s).lock = k
        BY <2>2 DEF HandlersHold
      <3>2. worker[s].pc # "httpError"
        BY <3>1, SlotsAssumption DEF WorkersHold, Busy
      <3> QED
        BY <1>1, <1>2, <3>1, <3>2, SlotsAssumption
    <2> QED
      BY <2>1, <2>2 DEF Freed
  <1>3. CASE s # x
    <2> DEFINE h == http[s][k]
               Gone == [h EXCEPT !.client = "gone"]
    <2>1. s = Peer(x)
      BY <1>3 DEF Peer, Roles
    <2>2. http'[s][k] = IF h # Idle /\ h.client = "worker" THEN Gone ELSE h
      BY <1>1, <2>1, DieEffect
    <2>3. h \in HandlersOf(s)
      BY DEF HandlersShape
    <2>4. h # Idle => Carried(h, Gone)
      <3>1. \A n \in HandlersOf(s) : n # Idle =>
              LET g == [n EXCEPT !.client = "gone"] IN
              /\ g.client = "gone" /\ g.pc = n.pc
              /\ g.pc \in {"locked", "ready"} => g.tr = n.tr
              /\ g.pc \in {"new", "lock", "locked"} => g.msg = n.msg
              /\ g.pc = "ready" => g.ops = n.ops
        BY ClientGone
      <3> HIDE DEF h
      <3> QED
        BY <2>3, <3>1 DEF Carried
    <2>5. Carried(h, h)
      BY DEF Carried
    <2> HIDE DEF h, Gone
    <2>6. Carried(h, http'[s][k])
      BY <2>2, <2>4, <2>5
    <2> QED
      BY <2>6 DEF h
  <1> QED
    BY <1>2, <1>3

\* How a slot changes.
LEMMA SlotSteps ==
  ASSUME LockInv, [Next]_vars, NEW s \in Roles, NEW k \in Slots
  PROVE  \/ Carried(http[s][k], http'[s][k])
         \/ Freed(s, k)
         \/ Receive(s, k)
         \/ SendHTTPRequest(Peer(s), k)
         \/ CreateTransfer(s, k)
         \/ HandlerLock(s, k)
         \/ HandlerProcess(s, k)
  <1> USE DEF LockInv
  <1>1. DOMAIN http = Roles /\ (\A x \in Roles : DOMAIN http[x] = Slots /\ Peer(x) \in Roles)
        /\ \A x \in Roles : s = Peer(x) <=> x = Peer(s)
    BY DEF HandlersShape, Peer, Roles
  <1>2. http'[s][k] = http[s][k] => Carried(http[s][k], http'[s][k])
    BY DEF Carried
  <1>3. ASSUME NEW x \in Roles, NEW y \in Slots, Receive(x, y)
        PROVE  http'[s][k] = http[s][k] \/ Receive(s, k)
    <2>1. PICK n : http' = [http EXCEPT ![x][y] = n]
      BY <1>3 DEF Receive
    <2>2. s # x \/ k # y => http'[s][k] = http[s][k]
      BY <1>1, <2>1
    <2> QED
      BY <1>3, <2>2
  <1>4. ASSUME NEW x \in Roles, NEW y \in Slots, CreateTransfer(x, y)
        PROVE  http'[s][k] = http[s][k] \/ CreateTransfer(s, k)
    <2>1. s # x \/ k # y => http'[s][k] = http[s][k]
      BY <1>1, <1>4 DEF CreateTransfer, Refuse, Answer
    <2> QED
      BY <1>4, <2>1
  <1>5. ASSUME NEW x \in Roles, NEW y \in Slots, HandlerLock(x, y)
        PROVE  http'[s][k] = http[s][k] \/ HandlerLock(s, k)
    <2>1. s # x \/ k # y => http'[s][k] = http[s][k]
      BY <1>1, <1>5 DEF HandlerLock
    <2> QED
      BY <1>5, <2>1
  <1>6. ASSUME NEW x \in Roles, NEW y \in Slots, HandlerProcess(x, y)
        PROVE  http'[s][k] = http[s][k] \/ HandlerProcess(s, k)
    <2>1. s # x \/ k # y => http'[s][k] = http[s][k]
      <3>1. PICK n : http' = [http EXCEPT ![x][y] = n]
        BY <1>6 DEF HandlerProcess
      <3> QED
        BY <1>1, <3>1
    <2> QED
      BY <1>6, <2>1
  <1>7. ASSUME NEW x \in Roles, NEW y \in Slots, HandlerNotFound(x, y)
        PROVE  http'[s][k] = http[s][k] \/ Freed(s, k)
    <2>1. Answer(x, y, "httpError") /\ http[x][y].pc = "lock"
      BY <1>7 DEF HandlerNotFound, Refuse
    <2> QED
      BY <2>1, AnswerFrees DEF Freed
  <1>8. ASSUME NEW x \in Roles, NEW y \in Slots, HandlerReject(x, y) \/ HandlerCancelled(x, y)
        PROVE  http'[s][k] = http[s][k] \/ Freed(s, k)
    <2>1. Answer(x, y, "httpError")
      BY <1>8 DEF HandlerReject, HandlerCancelled, Refuse
    <2> QED
      BY <1>8, <2>1, AnswerFrees, FailureLeaks DEF Freed
  <1>9. ASSUME NEW x \in Roles, NEW y \in Slots, HandlerStore(x, y)
        PROVE  http'[s][k] = http[s][k] \/ Freed(s, k)
    <2>1. Answer(x, y, "answered")
      BY <1>9 DEF HandlerStore
    <2> QED
      BY <1>9, <2>1, AnswerFrees DEF Freed
  <1>10. ASSUME NEW x \in Roles, NEW y \in Slots, SendHTTPRequest(x, y)
         PROVE  http'[s][k] = http[s][k] \/ SendHTTPRequest(Peer(s), k)
    <2>1. s # Peer(x) \/ k # y => http'[s][k] = http[s][k]
      <3>1. PICK n : http' = [http EXCEPT ![Peer(x)][y] = n]
        BY <1>10 DEF SendHTTPRequest
      <3> QED
        BY <1>1, <3>1
    <2> QED
      BY <1>1, <1>10, <2>1
  <1>11. ASSUME NEW x \in Roles, SendFails(x)
         PROVE  Carried(http[s][k], http'[s][k])
    <2> DEFINE y == worker[x].slot
               h == http[Peer(x)][y]
               n == [h EXCEPT !.client = "gone"]
    <2>1. \/ http' = http
          \/ worker[x].pc = "wait" /\ http' = [http EXCEPT ![Peer(x)][y] = n]
      BY <1>11 DEF SendFails
    <2>2. CASE worker[x].pc = "wait" /\ http' = [http EXCEPT ![Peer(x)][y] = n]
      <3>1. y \in Slots /\ h # Idle /\ h \in HandlersOf(Peer(x))
        BY <1>1, <2>2, WorkerShapes DEF Waiting, HandlersShape
      <3>2. Carried(h, n)
        BY <1>1, <3>1, ClientGone DEF Carried
      <3> HIDE DEF y, n
      <3>3. IF s = Peer(x) /\ k = y THEN http'[s][k] = n ELSE http'[s][k] = http[s][k]
        BY <1>1, <2>2, <3>1
      <3> QED
        BY <1>2, <3>2, <3>3
    <2> QED
      BY <1>2, <2>1, <2>2
  <1>12. ASSUME NEW x \in Roles, PanicHolding(x) \/ PanicTerminating(x) \/ Crash(x)
         PROVE  Freed(s, k) \/ Carried(http[s][k], http'[s][k])
    BY <1>12, DeathFrees
  <1>13. ASSUME NEW x \in Roles,
                \/ Take(x) \/ Acquire(x) \/ AcquireFails(x) \/ Commit(x) \/ Requeue(x)
                \/ GiveUp(x) \/ Terminate(x) \/ Poll(x) \/ Restart(x)
                \/ SignalReturns(x) \/ SignalTransferComplete(x)
         PROVE  http' = http
    BY <1>13 DEF Take, Acquire, AcquireFails, Commit, Requeue, GiveUp, Terminate, Poll, Restart,
                 SignalReturns, SignalTransferComplete
  <1>14. CASE Begin \/ UNCHANGED vars
    BY <1>2, <1>14 DEF Begin, vars
  <1>15. ASSUME NEW x \in Roles, Reconcile(x)
         PROVE  \/ Carried(http[s][k], http'[s][k]) \/ Freed(s, k)
                \/ SendHTTPRequest(Peer(s), k)
    BY <1>2, <1>10, <1>11, <1>12, <1>13, <1>15 DEF Reconcile
  <1>16. ASSUME NEW x \in Roles, NEW y \in Slots, Handle(x, y)
         PROVE  \/ http'[s][k] = http[s][k] \/ Freed(s, k)
                \/ CreateTransfer(s, k) \/ HandlerLock(s, k) \/ HandlerProcess(s, k)
    BY <1>4, <1>5, <1>6, <1>7, <1>8, <1>9, <1>16 DEF Handle
  <1> QED
    BY <1>2, <1>3, <1>8, <1>12, <1>13, <1>14, <1>15, <1>16 DEF Next, Progress

\* What a slot holds after a message has come in or been taken up.
LEMMA Entered ==
  ASSUME LockInv, NEW s \in Roles, NEW k \in Slots
  PROVE  LET h == http[s][k]
             h1 == http'[s][k]
         IN  /\ Receive(s, k) =>
                  /\ h1.pc = "lock" /\ h1.client = "outside" /\ h.pc = "idle"
                  /\ h1.msg.type \in Outside /\ outside' = Append(outside, h1.msg.type)
             /\ SendHTTPRequest(Peer(s), k) =>
                  /\ h1.pc \in {"new", "lock"} /\ h1.client = "worker" /\ h.pc = "idle"
                  /\ worker[Peer(s)].pc = "send" /\ h1.msg = worker[Peer(s)].op.entry.msg
             /\ CreateTransfer(s, k) =>
                  /\ h.pc = "new"
                  /\ h1 = Idle \/ (h1.pc = "lock" /\ h1.msg = h.msg /\ h1.client = h.client)
             /\ HandlerLock(s, k) =>
                  /\ h.pc = "lock" /\ Has(s) /\ Row(s).lock = "free"
                  /\ h1.pc = "locked" /\ h1.msg = h.msg /\ h1.client = h.client
                  /\ h1.tr = FromModel(Row(s), 1)
  <1> USE DEF LockInv
  <1> DEFINE h == http[s][k]
             h1 == http'[s][k]
             p == Peer(s)
  <1>1. /\ DOMAIN http = Roles /\ DOMAIN http[s] = Slots /\ p \in Roles /\ Peer(p) = s
        /\ \A n : http' = [http EXCEPT ![s][k] = n] => h1 = n
    BY DEF HandlersShape, Peer, Roles
  <1>2. ASSUME Receive(s, k)
        PROVE  /\ h1.pc = "lock" /\ h1.client = "outside" /\ h.pc = "idle"
               /\ h1.msg.type \in Outside /\ outside' = Append(outside, h1.msg.type)
    <2>1. PICK type \in Outside, j \in DOMAIN table[p] :
            /\ outside' = Append(outside, type)
            /\ http' = [http EXCEPT ![s][k] =
                 [pc |-> Dispatch(type), client |-> "outside",
                  pid |-> IF s = "consumer" THEN table[p][j].cpid ELSE table[p][j].ppid,
                  msg |-> [type |-> type, ppid |-> table[p][j].ppid, cpid |-> table[p][j].cpid,
                           address |-> {}]]]
      BY <1>2 DEF Receive
    <2> DEFINE m == [type |-> type, ppid |-> table[p][j].ppid, cpid |-> table[p][j].cpid, address |-> {}]
               pid == IF s = "consumer" THEN table[p][j].cpid ELSE table[p][j].ppid
    <2>2. m.type = type
      OBVIOUS
    <2> HIDE DEF m, pid, h1
    <2>3. h1 = [pc |-> Dispatch(type), client |-> "outside", pid |-> pid, msg |-> m]
      BY <1>1, <2>1 DEF m, pid
    <2>4. h.pc = "idle"
      BY <1>2 DEF Receive
    <2> QED
      BY <2>1, <2>2, <2>3, <2>4, OutsideAssumption DEF Dispatch
  <1>3. ASSUME SendHTTPRequest(p, k)
        PROVE  /\ h1.pc \in {"new", "lock"} /\ h1.client = "worker" /\ h.pc = "idle"
               /\ worker[p].pc = "send" /\ h1.msg = worker[p].op.entry.msg
    <2> DEFINE e == worker[p].op.entry
    <2>1. /\ http' = [http EXCEPT ![s][k] =
               [pc |-> Dispatch(e.msg.type), client |-> "worker", pid |-> e.pid, msg |-> e.msg]]
          /\ h.pc = "idle" /\ worker[p].pc = "send"
      BY <1>1, <1>3 DEF SendHTTPRequest
    <2> HIDE DEF e, h1
    <2>2. h1 = [pc |-> Dispatch(e.msg.type), client |-> "worker", pid |-> e.pid, msg |-> e.msg]
      BY <1>1, <2>1
    <2> QED
      BY <2>1, <2>2 DEF Dispatch, e
  <1>4. ASSUME CreateTransfer(s, k)
        PROVE  /\ h.pc = "new"
               /\ h1 = Idle \/ (h1.pc = "lock" /\ h1.msg = h.msg /\ h1.client = h.client)
    <2>1. h.pc = "new" /\ \/ Answer(s, k, "httpError")
                          \/ http' = [http EXCEPT ![s][k] =
                               [pc |-> "lock", client |-> h.client, pid |-> 2, msg |-> h.msg]]
      BY <1>4, CreateEffect
    <2> HIDE DEF h, h1
    <2>2. \/ h1 = Idle
          \/ h1 = [pc |-> "lock", client |-> h.client, pid |-> 2, msg |-> h.msg]
      BY <1>1, <2>1 DEF Answer
    <2> QED
      BY <2>1, <2>2
  <1>5. ASSUME HandlerLock(s, k)
        PROVE  /\ h.pc = "lock" /\ Has(s) /\ Row(s).lock = "free"
               /\ h1.pc = "locked" /\ h1.msg = h.msg /\ h1.client = h.client
               /\ h1.tr = FromModel(Row(s), 1)
    <2>1. PICK i \in Wanted(s, k) :
            /\ table[s][i].lock = "free"
            /\ http' = [http EXCEPT ![s][k] =
                 [pc |-> "locked", client |-> h.client, msg |-> h.msg,
                  tr |-> FromModel(table[s][i], i)]]
      BY <1>5 DEF HandlerLock
    <2>2. h.pc = "lock" /\ i \in DOMAIN table[s]
      BY <2>1 DEF Wanted, Lookup
    <2>3. i = 1 /\ Has(s) /\ table[s][i] = Row(s)
      BY <2>2, OneRow
    <2> HIDE DEF h, h1
    <2>4. h1 = [pc |-> "locked", client |-> h.client, msg |-> h.msg, tr |-> FromModel(Row(s), 1)]
      BY <1>1, <2>1, <2>3
    <2> QED
      BY <2>1, <2>2, <2>3, <2>4
  <1> QED
    BY <1>2, <1>3, <1>4, <1>5

-----------------------------------------------------------------------------
(* The endpoint                                                            *)

\* The dataset service serves at most the data of the provider's one pull.
\* It does so only when a handler has taken the request: then the row is no
\* longer INITIAL, or its lock was left behind, or the handler is about to
\* store it.
EndpointInv ==
  /\ published \subseteq [id: {2}, info: Infos]
  /\ \A e, f \in published : e = f
  /\ published # {} =>
       /\ Has("provider") /\ Row("provider").direction = "PULL"
       /\ \/ Row("provider").state # "INITIAL"
          \/ Row("provider").lock = "leaked"
          \/ \E k \in Slots : http["provider"][k].pc = "ready"
  /\ Has("provider") /\ Row("provider").state = "COMPLETED" => published = {}
  /\ \A k \in Slots : http["provider"][k].pc = "ready" /\ http["provider"][k].tr.state = "COMPLETED" =>
       published = {}

\* Only Recv and Send call the dataset service.
LEMMA PublishSteps ==
  ASSUME [Next]_vars
  PROVE  \/ published' = published
         \/ \E s \in Roles, k \in Slots : HandlerProcess(s, k) \/ HandlerReject(s, k)
  <1>1. ASSUME NEW x \in Roles, Reconcile(x)
        PROVE  published' = published
    BY <1>1 DEF Reconcile, Take, Acquire, AcquireFails, SendHTTPRequest, SendFails, Commit, Requeue,
                GiveUp, Terminate, PanicHolding, PanicTerminating, Die
  <1>2. ASSUME NEW x \in Roles, NEW y \in Slots, Handle(x, y)
        PROVE  published' = published \/ HandlerProcess(x, y) \/ HandlerReject(x, y)
    BY <1>2 DEF Handle, CreateTransfer, HandlerLock, HandlerNotFound, HandlerStore
  <1>3. ASSUME NEW x \in Roles,
               \/ Poll(x) \/ Restart(x) \/ Crash(x) \/ SignalReturns(x) \/ SignalTransferComplete(x)
        PROVE  published' = published
    BY <1>3 DEF Poll, Restart, Crash, Die, SignalReturns, SignalTransferComplete
  <1>4. ASSUME NEW x \in Roles, NEW y \in Slots, HandlerCancelled(x, y) \/ Receive(x, y)
        PROVE  published' = published
    BY <1>4 DEF HandlerCancelled, Receive
  <1>5. CASE Begin \/ UNCHANGED vars
    BY <1>5 DEF Begin, vars
  <1> QED
    BY <1>1, <1>2, <1>3, <1>4, <1>5 DEF Next, Progress

\* A completion at the provider of a pull takes the endpoint away, and nothing
\* else does.
LEMMA ShutdownEffect ==
  ASSUME NEW s \in Roles, NEW c \in CopiesOf(s), NEW m \in MessagesTo(s),
         published \subseteq [id: {2}, info: Infos]
  PROVE  IF s = "provider" /\ m.type = "completion" /\ c.state = "STARTED" /\ c.direction = "PULL"
           THEN PublishedAfterRecv(c, m) = {}
           ELSE PublishedAfterRecv(c, m) = published
  <1>1. c.role = s /\ c.cpid = 1 /\ c.direction \in {"PULL", "PUSH"} /\ (s = "provider" => c.ppid = 2)
    BY DEF CopiesOf, PpidsOf
  <1>2. \A e \in published : e.id = 2
    OBVIOUS
  <1>3. Shutdown(c, m) <=> /\ c.state = "STARTED" /\ m.type = "completion"
                           /\ s = IF c.direction = "PULL" THEN "provider" ELSE "consumer"
    BY <1>1 DEF Shutdown, Unpublishes, Publisher
  <1>4. PublishId(c) = IF c.direction = "PULL" THEN c.ppid ELSE 1
    BY <1>1 DEF PublishId
  <1> QED
    BY <1>1, <1>2, <1>3, <1>4 DEF PublishedAfterRecv, Roles

\* What is served after Recv and Send.
LEMMA ServedAfter ==
  ASSUME LockInv, EndpointInv, NEW s \in Roles, NEW k \in Slots, http[s][k].pc = "locked",
         Recv(http[s][k].tr, http[s][k].msg).ok,
         NEW t \in AfterPublish(Recv(http[s][k].tr, http[s][k].msg).req, http[s][k].msg)
  PROVE  LET h == http[s][k] IN
         \/ /\ s = "provider" /\ Row(s).state = "INITIAL" /\ t.state = "REQUESTED"
            /\ Row(s).direction = "PULL" /\ published = {} /\ h.msg.type = "request"
            /\ \E i \in Infos : /\ t.publishInfo = {i}
                                /\ PublishedAfter(h, t) = {[id |-> 2, info |-> i]}
         \/ /\ s = "provider" /\ t.state = "COMPLETED" /\ h.msg.type = "completion"
            /\ PublishedAfter(h, t) = {}
         \/ /\ PublishedAfter(h, t) = published
            /\ s = "consumer" \/ t.state # "COMPLETED"
  <1> USE DEF LockInv
  <1> DEFINE h == http[s][k]
             m == h.msg
             c == h.tr
  <1>1. m \in MessagesTo(s) /\ c \in CopiesOf(s) /\ Has(s) /\ Row(s).lock = k /\ c = FromModel(Row(s), 1)
    BY SlotShapes DEF HandlersHold
  <1>2. c.state = Row(s).state /\ c.direction = Row(s).direction
    BY <1>1 DEF FromModel
  <1>3. Recv(c, m).ok /\ t \in AfterPublish(Recv(c, m).req, m)
    OBVIOUS
  <1>4. /\ m.type \in {"request", "start", "completion", "termination"}
        /\ m.type = "start" => s = "consumer"
    BY <1>1 DEF MessagesTo, SentTo, Roles
  <1> HIDE DEF c, m, h
  <1>5. /\ t \in CopiesOf(s) /\ t.direction = c.direction
        /\ m.type = "request" =>
             /\ s = "provider" /\ c.state = "INITIAL" /\ t.state = "REQUESTED"
             /\ c.direction = "PULL" => \E i \in Infos : t.publishInfo = {i}
        /\ m.type = "start" => t.state = "STARTED"
        /\ m.type = "completion" => c.state = "STARTED" /\ t.state = "COMPLETED"
        /\ m.type = "termination" => t.state = "TERMINATED"
        /\ Publishes(t, m) <=> m.type = "request" /\ c.direction = "PULL"
    BY <1>1, <1>3, Processed
  <1>6. published \subseteq [id: {2}, info: Infos]
    BY DEF EndpointInv
  <1>7. IF s = "provider" /\ m.type = "completion" /\ c.state = "STARTED" /\ c.direction = "PULL"
          THEN PublishedAfterRecv(c, m) = {} ELSE PublishedAfterRecv(c, m) = published
    BY <1>1, <1>6, ShutdownEffect
  <1>8. PublishedAfter(h, t) = PublishedAfterRecv(c, m)
          \cup {[id |-> PublishId(t), info |-> i] : i \in IF Publishes(t, m) THEN t.publishInfo ELSE {}}
    BY DEF PublishedAfter, c, m
  <1>9. CASE m.type = "request" /\ c.direction = "PULL"
    <2>1. published = {}
      <3>1. \A y \in Slots : http[s][y].pc # "ready"
        BY <1>1 DEF HandlersHold, h
      <3>2. s = "provider" /\ Row(s).state = "INITIAL" /\ Row(s).lock # "leaked"
        BY <1>1, <1>2, <1>5, <1>9, SlotsAssumption
      <3> QED
        BY <3>1, <3>2 DEF EndpointInv
    <2>2. PICK i \in Infos : t.publishInfo = {i}
      BY <1>5, <1>9
    <2>3. PublishId(t) = 2
      BY <1>5, <1>9 DEF PublishId, CopiesOf, PpidsOf
    <2>4. PublishedAfter(h, t) = {[id |-> 2, info |-> i]}
      BY <1>5, <1>7, <1>8, <1>9, <2>1, <2>2, <2>3
    <2> QED
      BY <1>2, <1>5, <1>9, <2>1, <2>2, <2>4 DEF m, h
  <1>10. CASE ~(m.type = "request" /\ c.direction = "PULL")
    <2>1. PublishedAfter(h, t) = PublishedAfterRecv(c, m)
      BY <1>5, <1>8, <1>10
    <2>2. CASE s = "provider" /\ m.type = "completion"
      <3>1. c.direction # "PULL" => published = {}
        BY <1>2, <2>2 DEF EndpointInv
      <3> QED
        BY <1>5, <1>7, <2>1, <2>2, <3>1 DEF h, m
    <2>3. CASE ~(s = "provider" /\ m.type = "completion")
      BY <1>4, <1>5, <1>7, <2>1, <2>3 DEF h, Roles
    <2> QED
      BY <2>2, <2>3
  <1> QED
    BY <1>9, <1>10

\* A handler that processes a message writes its own slot only.
LEMMA ProcessEffect ==
  ASSUME LockInv, NEW s \in Roles, NEW k \in Slots, HandlerProcess(s, k)
  PROVE  LET h == http[s][k] IN
         /\ h.pc = "locked" /\ Recv(h.tr, h.msg).ok /\ UNCHANGED <<table, queue, worker, up, uuid, bounds>>
         /\ h.msg \in MessagesTo(s) /\ h.tr \in CopiesOf(s)
         /\ Has(s) /\ Row(s).lock = k /\ h.tr = FromModel(Row(s), 1)
         /\ \A x \in Roles, y \in Slots : x # s \/ y # k => http'[x][y] = http[x][y]
         /\ \E t \in AfterPublish(Recv(h.tr, h.msg).req, h.msg) :
              /\ published' = PublishedAfter(h, t)
              /\ http'[s][k].pc = "ready" /\ http'[s][k].tr = t /\ http'[s][k].client = h.client
              /\ http'[s][k].ops = IF Sends(t, h.msg) THEN <<Operation(sendTransferStart(t))>> ELSE <<>>
              /\ Sends(t, h.msg) => CanMarshal(t)
  <1> DEFINE h == http[s][k]
  <1>1. /\ h.pc = "locked" /\ Recv(h.tr, h.msg).ok /\ UNCHANGED <<table, queue, worker, up, uuid, bounds>>
    BY DEF HandlerProcess
  <1>2. PICK t \in AfterPublish(Recv(h.tr, h.msg).req, h.msg) :
          /\ Sends(t, h.msg) => CanMarshal(t)
          /\ published' = PublishedAfter(h, t)
          /\ http' = [http EXCEPT ![s][k] =
               [pc |-> "ready", client |-> h.client, tr |-> t,
                ops |-> IF Sends(t, h.msg) THEN <<Operation(sendTransferStart(t))>> ELSE <<>>]]
    BY DEF HandlerProcess
  <1> DEFINE ops == IF Sends(t, h.msg) THEN <<Operation(sendTransferStart(t))>> ELSE <<>>
             n == [pc |-> "ready", client |-> h.client, tr |-> t, ops |-> ops]
  <1> HIDE DEF ops
  <1>3. n.pc = "ready" /\ n.client = h.client /\ n.tr = t /\ n.ops = ops
    OBVIOUS
  <1>4. /\ http'[s][k] = n
        /\ \A x \in Roles, y \in Slots : x # s \/ y # k => http'[x][y] = http[x][y]
    BY <1>2 DEF LockInv, HandlersShape, ops
  <1>5. /\ h.msg \in MessagesTo(s) /\ h.tr \in CopiesOf(s)
        /\ Has(s) /\ Row(s).lock = k /\ h.tr = FromModel(Row(s), 1)
    BY <1>1, SlotShapes DEF LockInv, HandlersHold
  <1> HIDE DEF n, h
  <1>6. /\ published' = PublishedAfter(h, t) /\ t \in AfterPublish(Recv(h.tr, h.msg).req, h.msg)
        /\ http'[s][k].pc = "ready" /\ http'[s][k].tr = t /\ http'[s][k].client = h.client
        /\ http'[s][k].ops = IF Sends(t, h.msg) THEN <<Operation(sendTransferStart(t))>> ELSE <<>>
        /\ Sends(t, h.msg) => CanMarshal(t)
    BY <1>2, <1>3, <1>4 DEF ops
  <1> QED
    BY <1>1, <1>4, <1>5, <1>6 DEF h

\* Recv and Send, when they succeed.
LEMMA ProcessKeepsEndpoint ==
  ASSUME LockInv, EndpointInv, NEW s \in Roles, NEW k \in Slots, HandlerProcess(s, k)
  PROVE  EndpointInv'
  <1> DEFINE h == http[s][k]
  <1>1. /\ h.pc = "locked" /\ Recv(h.tr, h.msg).ok /\ table' = table
        /\ Has(s) /\ Row(s).lock = k
        /\ \A x \in Roles, y \in Slots : x # s \/ y # k => http'[x][y] = http[x][y]
    BY ProcessEffect
  <1>2. PICK t \in AfterPublish(Recv(h.tr, h.msg).req, h.msg) :
          /\ published' = PublishedAfter(h, t)
          /\ http'[s][k].pc = "ready" /\ http'[s][k].tr = t /\ http'[s][k].client = h.client
          /\ http'[s][k].ops = IF Sends(t, h.msg) THEN <<Operation(sendTransferStart(t))>> ELSE <<>>
          /\ Sends(t, h.msg) => CanMarshal(t)
    BY ProcessEffect
  <1>3. \A x \in Roles : (Has(x)' <=> Has(x)) /\ Row(x)' = Row(x)
    BY <1>1 DEF Has, Row
  <1>4. \A y \in Slots : http[s][y].pc # "ready"
    BY <1>1 DEF LockInv, HandlersHold
  <1>5. \/ /\ s = "provider" /\ Row(s).state = "INITIAL" /\ t.state = "REQUESTED"
           /\ Row(s).direction = "PULL"
           /\ \E i \in Infos : published' = {[id |-> 2, info |-> i]}
        \/ s = "provider" /\ t.state = "COMPLETED" /\ published' = {}
        \/ published' = published /\ (s = "consumer" \/ t.state # "COMPLETED")
    <2>1. \/ /\ s = "provider" /\ Row(s).state = "INITIAL" /\ t.state = "REQUESTED"
             /\ Row(s).direction = "PULL"
             /\ \E i \in Infos : PublishedAfter(h, t) = {[id |-> 2, info |-> i]}
          \/ s = "provider" /\ t.state = "COMPLETED" /\ PublishedAfter(h, t) = {}
          \/ PublishedAfter(h, t) = published /\ (s = "consumer" \/ t.state # "COMPLETED")
      BY <1>1, ServedAfter
    <2> HIDE DEF h
    <2> QED
      BY <1>2, <2>1
  <1> HIDE DEF h
  <1>6. CASE /\ s = "provider" /\ Row(s).state = "INITIAL" /\ t.state = "REQUESTED"
             /\ Row(s).direction = "PULL"
             /\ \E i \in Infos : published' = {[id |-> 2, info |-> i]}
    BY <1>1, <1>2, <1>3, <1>4, <1>6 DEF EndpointInv
  <1>7. CASE s = "provider" /\ t.state = "COMPLETED" /\ published' = {}
    BY <1>7 DEF EndpointInv
  <1>8. CASE published' = published /\ (s = "consumer" \/ t.state # "COMPLETED")
    BY <1>1, <1>2, <1>3, <1>4, <1>8 DEF EndpointInv, Roles
  <1> QED
    BY <1>5, <1>6, <1>7, <1>8

\* Recv or Send fails, perhaps after the dataset service was called.
LEMMA RejectKeepsEndpoint ==
  ASSUME LockInv, EndpointInv, NEW s \in Roles, NEW k \in Slots, HandlerReject(s, k)
  PROVE  EndpointInv'
  <1> USE DEF LockInv
  <1> DEFINE h == http[s][k]
             recv == Recv(h.tr, h.msg)
  <1>1. /\ h.pc = "locked" /\ SetLock(s, h.tr.id, "leaked") /\ Answer(s, k, "httpError") /\ uuid' = uuid
        /\ \/ published' = PublishedAfterRecv(h.tr, h.msg)
           \/ published' = published
           \/ /\ recv.ok /\ Sends(recv.req, h.msg)
              /\ \E t \in AfterPublish(recv.req, h.msg) : published' = PublishedAfter(h, t)
    BY DEF HandlerReject, Refuse
  <1>2. h.msg \in MessagesTo(s) /\ h.tr \in CopiesOf(s) /\ Has(s) /\ h.tr = FromModel(Row(s), 1) /\ Row(s).lock = k
    BY <1>1, SlotShapes DEF HandlersHold
  <1>3. Has(s)' /\ Row(s)'.lock = "leaked"
    BY <1>1, FailureLeaks
  <1>4. \A x \in Roles : RowKept(x)
    <2>1. h.tr.id = 1 /\ 1 \in DOMAIN table[s]
      BY <1>2, OneRow DEF CopiesOf
    <2> QED
      BY <1>1, <2>1, SetLockKeepsRows DEF Locks
  <1>5. \A x \in Roles : /\ Has(x)' <=> Has(x)
                         /\ Has(x) => /\ Row(x)'.state = Row(x).state
                                      /\ Row(x)'.direction = Row(x).direction
                                      /\ Row(x).lock = "leaked" => Row(x)'.lock = "leaked"
    BY <1>4 DEF RowKept, SameData
  <1>6. \A x \in Roles, y \in Slots :
          IF s = x /\ k = y THEN http'[x][y] = Idle ELSE http'[x][y] = http[x][y]
    BY <1>1, AnswerFrees
  <1>7. \A x \in Roles, y \in Slots : http'[x][y].pc = "ready" <=> http[x][y].pc = "ready"
    BY <1>1, <1>6 DEF Idle
  <1>8. \A x \in Roles, y \in Slots : http'[x][y].pc = "ready" => http'[x][y] = http[x][y]
    BY <1>6, <1>7 DEF Idle
  <1>9. ASSUME published' \subseteq published
        PROVE  EndpointInv'
    BY <1>5, <1>7, <1>8, <1>9 DEF EndpointInv, Roles
  <1>10. PublishedAfterRecv(h.tr, h.msg) \subseteq published
    BY DEF PublishedAfterRecv
  <1>11. ASSUME recv.ok, Sends(recv.req, h.msg), NEW t \in AfterPublish(recv.req, h.msg),
                published' = PublishedAfter(h, t)
         PROVE  EndpointInv'
    <2>1. \/ /\ s = "provider" /\ Row(s).state = "INITIAL"
             /\ Row(s).direction = "PULL"
             /\ \E i \in Infos : published' = {[id |-> 2, info |-> i]}
          \/ published' = {}
          \/ published' = published
      BY <1>1, <1>11, ServedAfter
    <2>2. CASE /\ s = "provider" /\ Row(s).state = "INITIAL"
               /\ Row(s).direction = "PULL"
               /\ \E i \in Infos : published' = {[id |-> 2, info |-> i]}
      <3>1. \A y \in Slots : http'[s][y].pc # "ready"
        BY <1>1, <1>2, <1>7 DEF HandlersHold
      <3>2. Row(s)'.state = "INITIAL" /\ Row(s)'.direction = "PULL"
        BY <1>2, <1>5, <2>2
      <3> QED
        BY <1>3, <2>2, <3>1, <3>2 DEF EndpointInv
    <2>3. CASE published' \subseteq published
      BY <1>9, <2>3
    <2> QED
      BY <2>1, <2>2, <2>3
  <1> QED
    BY <1>1, <1>9, <1>10, <1>11

\* The other steps leave the endpoint alone, and what the row says of it.
LEMMA OthersKeepEndpoint ==
  ASSUME LockInv, EndpointInv, [Next]_vars, published' = published,
         \A k \in Slots : ~HandlerProcess("provider", k)
  PROVE  EndpointInv'
  <1> DEFINE p == "provider"
  <1>1. p \in Roles
    BY DEF Roles
  <1>2. ASSUME Has(p)
        PROVE  Has(p)' /\ Forward(Row(p), Row(p)')
    BY <1>1, <1>2, RowsForward
  <1>3. ASSUME NEW k \in Slots, http'[p][k].pc = "ready"
        PROVE  http[p][k].pc = "ready" /\ http'[p][k].tr = http[p][k].tr
    <2>1. CASE Carried(http[p][k], http'[p][k])
      BY <1>3, <2>1 DEF Carried
    <2>2. CASE Freed(p, k)
      BY <1>3, <2>2 DEF Freed, Idle
    <2>3. ASSUME Receive(p, k) \/ SendHTTPRequest(Peer(p), k) \/ CreateTransfer(p, k) \/ HandlerLock(p, k)
          PROVE  http'[p][k].pc # "ready"
      BY <1>1, <2>3, Entered DEF Idle
    <2> QED
      BY <1>1, <1>3, <2>1, <2>2, <2>3, SlotSteps
  <1>4. ASSUME published # {}
        PROVE  /\ Has(p)' /\ Row(p)'.direction = "PULL"
               /\ \/ Row(p)'.state # "INITIAL" \/ Row(p)'.lock = "leaked"
                  \/ \E k \in Slots : http'[p][k].pc = "ready"
    <2>1. Has(p) /\ Row(p).direction = "PULL" /\ Has(p)' /\ Forward(Row(p), Row(p)')
      BY <1>2, <1>4 DEF EndpointInv
    <2>2. CASE Row(p).state # "INITIAL"
      <3>1. Row(p).state \in TransferStates
        BY <1>1, <2>1, OneRow DEF LockInv, RowsOf
      <3> QED
        BY <2>1, <2>2, <3>1 DEF Forward, validTransferTransitions, TransferStates
    <2>3. CASE Row(p).lock = "leaked"
      <3>1. \A k \in Slots : ~HandlerStore(p, k)
        BY <1>1, <2>3, StoreEffect, SlotsAssumption
      <3>2. ~Commit(p) /\ ~Terminate(p)
        BY <1>1, <2>3, CommitEffect, TerminateEffect
      <3>3. RowKept(p)
        BY <1>1, <2>1, <3>1, <3>2, RowSteps
      <3> QED
        BY <2>1, <2>3, <3>3 DEF RowKept, Forward
    <2>4. ASSUME NEW k \in Slots, http[p][k].pc = "ready"
          PROVE  \/ Row(p)'.state # "INITIAL" \/ Row(p)'.lock = "leaked"
                 \/ http'[p][k].pc = "ready"
      <3>1. CASE Carried(http[p][k], http'[p][k])
        BY <2>4, <3>1 DEF Carried
      <3>2. CASE Freed(p, k)
        <4>1. CASE HandlerStore(p, k)
          <5>1. /\ Row(p)'.state \in validTransferTransitions[Row(p).state]
                /\ Row(p) \in RowsOf(p)
            BY <1>1, <2>1, <4>1, StoreEffect, OneRow DEF LockInv, ToModel
          <5> QED
            BY <5>1 DEF RowsOf, TransferStates, validTransferTransitions
        <4> QED
          BY <2>4, <3>2, <4>1 DEF Freed
      <3>3. ~Receive(p, k)
        BY <2>4 DEF Receive
      <3>4. ~SendHTTPRequest(Peer(p), k)
        BY <2>4 DEF SendHTTPRequest, Peer
      <3>5. ~CreateTransfer(p, k) /\ ~HandlerLock(p, k)
        BY <2>4 DEF CreateTransfer, HandlerLock, Wanted
      <3> QED
        BY <1>1, <3>1, <3>2, <3>3, <3>4, <3>5, SlotSteps
    <2> QED
      BY <1>4, <2>1, <2>2, <2>3, <2>4 DEF EndpointInv, Forward
  <1>5. ASSUME Has(p)', Row(p)'.state = "COMPLETED"
        PROVE  published = {}
    <2>1. CASE RowKept(p)
      BY <1>5, <2>1 DEF RowKept, SameData, EndpointInv
    <2>2. ASSUME NEW k \in Slots, CreateTransfer(p, k) /\ ~Has(p)
          PROVE  published = {}
      BY <2>2 DEF EndpointInv
    <2>3. ASSUME NEW k \in Slots, HandlerStore(p, k)
          PROVE  published = {}
      BY <1>1, <1>5, <2>3, StoreEffect DEF ToModel, EndpointInv
    <2>4. CASE Commit(p)
      <3>1. Row(p)' = ToModel(worker[p].tr) /\ worker[p].tr.state = "STARTED"
        BY <1>1, <2>4, CommitEffect
      <3> QED
        BY <1>5, <3>1 DEF ToModel
    <2>5. CASE Terminate(p)
      <3>1. Row(p)'.state = worker[p].op.entry.target /\ worker[p].op \in OperationsOf(p)
        BY <1>1, <2>5, TerminateEffect, WorkerShapes DEF Terminate, LockInv
      <3> QED
        BY <1>5, <3>1 DEF OperationsOf, EntriesOf
    <2> QED
      BY <1>1, <2>1, <2>2, <2>3, <2>4, <2>5, RowSteps
  <1> QED
    BY <1>3, <1>4, <1>5 DEF EndpointInv

\* The endpoint is what the state of the provider's row says.
THEOREM EndpointInvariant == Spec => []EndpointInv
  <1>1. Init => EndpointInv
    BY DEF Init, EndpointInv, Has, Row, Idle, Roles
  <1>2. LockInv /\ EndpointInv /\ [Next]_vars => EndpointInv'
    BY PublishSteps, ProcessKeepsEndpoint, RejectKeepsEndpoint, OthersKeepEndpoint DEF Roles
  <1> QED
    BY <1>1, <1>2, LockInvariant, PTL DEF Spec

\* However often requests are retried and handlers interrupted, at most one
\* endpoint is published (providerTransferRequestHandler, PublishDataset).
THEOREM TransferOneEndpoint == Spec => []OneEndpoint
  <1>1. EndpointInv => OneEndpoint
    BY DEF EndpointInv, OneEndpoint
  <1> QED
    BY <1>1, EndpointInvariant, PTL

\* A pull that is COMPLETED at the provider is no longer served
\* (Started.Recv, unpublishTransfer).
THEOREM TransferCompletedIsUnpublished == Spec => []CompletedIsUnpublished
  <1>1. LockInv /\ EndpointInv => CompletedIsUnpublished
    <2>1. "provider" \in Roles
      BY DEF Roles
    <2> QED
      BY <2>1, OneRow DEF EndpointInv, CompletedIsUnpublished, LockInv
  <1> QED
    BY <1>1, LockInvariant, EndpointInvariant, PTL

-----------------------------------------------------------------------------
(* What a step does to the deques and the workers                          *)

\* Where the operations in a deque come from.
LEMMA QueueSteps ==
  ASSUME LockInv, [Next]_vars, NEW s \in Roles, NEW i \in DOMAIN queue'[s]
  PROVE  \/ \E j \in DOMAIN queue[s] : queue'[s][i] = queue[s][j]
         \/ worker[s] # Idle /\ queue'[s][i] = worker[s].op
         \/ \E k \in Slots : HandlerStore(s, k) /\ \E j \in DOMAIN http[s][k].ops :
              queue'[s][i] = http[s][k].ops[j]
         \/ s = "consumer" /\ Begin
  <1> USE DEF LockInv
  <1>1. DOMAIN queue = Roles /\ queue[s] \in Seq(QueuedOf(s))
    BY DEF WorkersShape
  <1>2. CASE queue'[s] = queue[s]
    BY <1>2
  <1>3. CASE Begin
    <2>1. \E n : queue' = [queue EXCEPT !["consumer"] = n]
      BY <1>3, BeginEffect
    <2> QED
      BY <1>1, <1>2, <1>3, <2>1
  <1>4. ASSUME NEW x \in Roles, NEW k \in Slots, HandlerStore(x, k), x = s
        PROVE  \/ \E j \in DOMAIN queue[s] : queue'[s][i] = queue[s][j]
               \/ \E j \in DOMAIN http[s][k].ops : queue'[s][i] = http[s][k].ops[j]
    <2>1. queue'[s] = queue[s] \o http[s][k].ops
      BY <1>1, <1>4 DEF HandlerStore
    <2>2. http[s][k].ops = <<>> \/ \E op : http[s][k].ops = <<op>>
      BY <1>4, StoreEffect DEF OpsOf
    <2>3. ASSUME NEW q \in Seq(QueuedOf(s)), NEW y \in DOMAIN (q \o <<>>)
          PROVE  y \in DOMAIN q /\ (q \o <<>>)[y] = q[y]
      OBVIOUS
    <2>4. ASSUME NEW q \in Seq(QueuedOf(s)), NEW op, NEW y \in DOMAIN (q \o <<op>>)
          PROVE  \/ y \in DOMAIN q /\ (q \o <<op>>)[y] = q[y]
                 \/ (q \o <<op>>)[y] = op /\ 1 \in DOMAIN <<op>> /\ <<op>>[1] = op
      OBVIOUS
    <2>5. CASE http[s][k].ops = <<>>
      BY <1>1, <2>1, <2>3, <2>5
    <2>6. ASSUME NEW op, http[s][k].ops = <<op>>
          PROVE  \/ \E j \in DOMAIN queue[s] : queue'[s][i] = queue[s][j]
                 \/ \E j \in DOMAIN http[s][k].ops : queue'[s][i] = http[s][k].ops[j]
      BY <1>1, <2>1, <2>4, <2>6
    <2> QED
      BY <2>2, <2>5, <2>6
  <1>5. ASSUME NEW x \in Roles, Take(x), x = s
        PROVE  \E j \in DOMAIN queue[s] : queue'[s][i] = queue[s][j]
    <2>1. queue'[s] = Tail(queue[s]) /\ queue[s] # <<>>
      BY <1>1, <1>5 DEF Take
    <2>2. ASSUME NEW q \in Seq(QueuedOf(s)), q # <<>>, NEW y \in DOMAIN Tail(q)
          PROVE  y + 1 \in DOMAIN q /\ Tail(q)[y] = q[y + 1]
      BY <2>2
    <2> QED
      BY <1>1, <2>1, <2>2
  <1>6. ASSUME NEW x \in Roles, Requeue(x), x = s
        PROVE  \/ \E j \in DOMAIN queue[s] : queue'[s][i] = queue[s][j]
               \/ worker[s] # Idle /\ queue'[s][i] = worker[s].op
    <2>1. queue'[s] = Append(queue[s], worker[s].op) /\ worker[s] # Idle
      BY <1>1, <1>6 DEF Requeue, Idle
    <2>2. ASSUME NEW q \in Seq(QueuedOf(s)), NEW op, NEW y \in DOMAIN Append(q, op)
          PROVE  \/ y \in DOMAIN q /\ Append(q, op)[y] = q[y]
                 \/ Append(q, op)[y] = op
      OBVIOUS
    <2> QED
      BY <1>1, <2>1, <2>2
  <1>7. ASSUME NEW x \in Roles, x # s,
               Take(x) \/ Requeue(x) \/ \E k \in Slots : HandlerStore(x, k)
        PROVE  queue'[s] = queue[s]
    BY <1>1, <1>7 DEF Take, Requeue, HandlerStore
  <1>8. ASSUME NEW x \in Roles, PanicHolding(x) \/ PanicTerminating(x) \/ Crash(x)
        PROVE  queue'[s] = queue[s]
    <2>1. queue' = [queue EXCEPT ![x] = <<>>]
      BY <1>8 DEF PanicHolding, PanicTerminating, Crash, Die
    <2>2. x = s => FALSE
      BY <1>1, <2>1
    <2> QED
      BY <1>1, <2>1, <2>2
  <1>9. ASSUME NEW x \in Roles, Reconcile(x)
        PROVE  queue' = queue \/ Take(x) \/ Requeue(x) \/ PanicHolding(x) \/ PanicTerminating(x)
    BY <1>9 DEF Reconcile, Acquire, AcquireFails, SendHTTPRequest, SendFails, Commit, GiveUp, Terminate
  <1>10. ASSUME NEW x \in Roles, NEW y \in Slots, Handle(x, y)
         PROVE  queue' = queue \/ HandlerStore(x, y)
    BY <1>10 DEF Handle, CreateTransfer, HandlerLock, HandlerNotFound, HandlerProcess, HandlerReject
  <1>11. ASSUME NEW x \in Roles, Poll(x) \/ Restart(x) \/ SignalReturns(x) \/ SignalTransferComplete(x)
        PROVE  queue' = queue
    BY <1>11 DEF Poll, Restart, SignalReturns, SignalTransferComplete
  <1>12. ASSUME NEW x \in Roles, NEW y \in Slots, HandlerCancelled(x, y) \/ Receive(x, y)
        PROVE  queue' = queue
    BY <1>12 DEF HandlerCancelled, Receive
  <1>13. UNCHANGED vars => queue' = queue
    BY DEF vars
  <1> QED
    BY <1>2, <1>3, <1>4, <1>5, <1>6, <1>7, <1>8, <1>9, <1>10, <1>11, <1>12, <1>13 DEF Next, Progress

\* Where the worker's operation comes from, and who gives it its answer.
LEMMA WorkerSteps ==
  ASSUME LockInv, [Next]_vars, NEW s \in Roles
  PROVE  /\ worker'[s] # Idle =>
              \/ worker[s] # Idle /\ worker'[s].op.entry = worker[s].op.entry
              \/ queue[s] # <<>> /\ worker'[s].op.entry = Head(queue[s]).entry
         /\ worker'[s].pc = "answered" =>
              \/ worker[s].pc = "answered"
              \/ \E k \in Slots : HandlerStore(Peer(s), k) /\ http[Peer(s)][k].client = "worker"
         /\ worker'[s].pc \in {"failed", "terminate"} =>
              AcquireFails(s) \/ worker[s].pc \in {"failed", "terminate"}
  <1> USE DEF LockInv
  <1> DEFINE w == worker[s]
             w1 == worker'[s]
             Same == w1 # Idle => w # Idle /\ w1.op.entry = w.op.entry
             Quiet == w1.pc \notin {"answered", "failed", "terminate"}
  <1>1. /\ DOMAIN worker = Roles /\ Peer(s) \in Roles /\ \A x \in Roles : s = Peer(x) <=> x = Peer(s)
        /\ \A n : worker' = [worker EXCEPT ![s] = n] => w1 = n
        /\ \A n : \A x \in Roles : worker' = [worker EXCEPT ![x] = n] /\ x # s => w1 = w
        /\ Idle.pc = "idle"
    BY DEF WorkersShape, Peer, Roles, Idle
  <1>2. CASE w1 = w
    BY <1>2
  <1>3. CASE w1 = Idle
    BY <1>1, <1>3
  <1>4. ASSUME NEW x \in Roles, NEW y \in Slots, NEW pc \in {"answered", "httpError"}, Answer(x, y, pc),
               http[x][y] # Idle
        PROVE  \/ w1 = w
               \/ Same /\ w1.pc = pc /\ x = Peer(s) /\ http[x][y].client = "worker"
    <2>1. /\ worker'[x] = worker[x]
          /\ http[x][y].client # "worker" => worker' = worker
          /\ http[x][y].client = "worker" =>
               /\ worker[Peer(x)].pc = "wait" /\ worker'[Peer(x)].pc = pc
               /\ worker'[Peer(x)].op = worker[Peer(x)].op
      BY <1>4, Answered
    <2>2. x = s \/ s = Peer(x)
      BY DEF Peer, Roles
    <2> QED
      BY <1>1, <2>1, <2>2
  <1>5. ASSUME NEW x \in Roles, NEW y \in Slots,
               HandlerNotFound(x, y) \/ HandlerReject(x, y) \/ HandlerCancelled(x, y)
        PROVE  w1 = w \/ (Same /\ Quiet)
    <2>1. Answer(x, y, "httpError") /\ http[x][y] # Idle
      BY <1>5 DEF HandlerNotFound, HandlerReject, HandlerCancelled, Refuse, Idle
    <2> HIDE DEF w, w1, Same
    <2> QED
      BY <1>4, <2>1
  <1>6. ASSUME NEW x \in Roles, NEW y \in Slots, CreateTransfer(x, y)
        PROVE  w1 = w \/ (Same /\ Quiet)
    <2>1. http[x][y] # Idle /\ (Answer(x, y, "httpError") \/ worker' = worker)
      BY <1>6, CreateEffect
    <2> HIDE DEF Same
    <2> QED
      BY <1>4, <2>1
  <1>7. ASSUME NEW x \in Roles, NEW y \in Slots, HandlerStore(x, y)
        PROVE  w1 = w \/ (Same /\ w1.pc = "answered" /\ x = Peer(s) /\ http[x][y].client = "worker")
    <2>1. Answer(x, y, "answered") /\ http[x][y] # Idle
      BY <1>7 DEF HandlerStore, Idle
    <2> HIDE DEF Same
    <2> QED
      BY <1>4, <2>1
  <1>8. ASSUME Take(s)
        PROVE  queue[s] # <<>> /\ w1.op.entry = Head(queue[s]).entry /\ Quiet
    <2> DEFINE o == [Head(queue[s]) EXCEPT !.attempts = @ + 1]
    <2>1. queue[s] # <<>> /\ worker' = [worker EXCEPT ![s] = [pc |-> "acquire", op |-> o]]
      BY <1>8 DEF Take
    <2>2. Head(queue[s]) \in QueuedOf(s)
      BY <2>1, HeadTailProperties DEF WorkersShape
    <2>3. o.entry = Head(queue[s]).entry
      <3>1. \A a \in QueuedOf(s) : [a EXCEPT !.attempts = @ + 1].entry = a.entry
        BY DEF QueuedOf
      <3> QED
        BY <2>2, <3>1
    <2> HIDE DEF o, w1
    <2>4. w1 = [pc |-> "acquire", op |-> o]
      BY <1>1, <2>1
    <2> QED
      BY <2>1, <2>3, <2>4
  <1>9. ASSUME Acquire(s) \/ SendFails(s) \/ \E k \in Slots : SendHTTPRequest(s, k)
        PROVE  Same /\ Quiet
    <2>1. w # Idle
      BY <1>9 DEF Acquire, SendFails, SendHTTPRequest, Idle
    <2>2. ASSUME Acquire(s)
          PROVE  \E t : w1 = [pc |-> "send", op |-> w.op, tr |-> t]
      <3>1. PICK t : worker' = [worker EXCEPT ![s] = [pc |-> "send", op |-> w.op, tr |-> t]]
        BY <2>2 DEF Acquire
      <3> QED
        BY <1>1, <3>1
    <2>3. ASSUME SendFails(s)
          PROVE  w1 = [pc |-> "httpError", op |-> w.op, tr |-> w.tr]
      BY <1>1, <2>3 DEF SendFails
    <2>4. ASSUME NEW k \in Slots, SendHTTPRequest(s, k)
          PROVE  w1 = [pc |-> "wait", op |-> w.op, tr |-> w.tr, slot |-> k]
      BY <1>1, <2>4 DEF SendHTTPRequest
    <2> HIDE DEF w1
    <2>5. w1.pc \in {"send", "httpError", "wait"} /\ w1.op = w.op
      BY <1>9, <2>2, <2>3, <2>4
    <2> QED
      BY <2>1, <2>5
  <1>10. ASSUME AcquireFails(s) \/ GiveUp(s)
         PROVE  Same /\ w1.pc # "answered" /\ (AcquireFails(s) \/ w.pc \in {"failed", "terminate"})
    <2>1. CASE AcquireFails(s)
      <3>1. worker' = [worker EXCEPT ![s] = [pc |-> "failed", op |-> w.op]] /\ w # Idle
        BY <2>1 DEF AcquireFails, Idle
      <3> QED
        BY <1>1, <2>1, <3>1
    <2>2. CASE GiveUp(s)
      <3>1. w \in [pc: {"acquire", "failed", "terminate"}, op: OperationsOf(s)]
        BY <2>2 DEF GiveUp, WorkersShape, WorkersOf, Idle
      <3>2. LET n == [w EXCEPT !.pc = "terminate"] IN n.pc = "terminate" /\ n.op = w.op
        BY <3>1
      <3>3. worker' = [worker EXCEPT ![s] = [w EXCEPT !.pc = "terminate"]] /\ w.pc = "failed"
        BY <2>2 DEF GiveUp
      <3> HIDE DEF w, w1
      <3>4. w1 = [w EXCEPT !.pc = "terminate"]
        BY <1>1, <3>3
      <3> QED
        BY <1>1, <3>2, <3>3, <3>4
    <2> QED
      BY <1>10, <2>1, <2>2
  <1>11. ASSUME Commit(s) \/ Requeue(s) \/ Terminate(s)
         PROVE  w1 = Idle
    BY <1>1, <1>11 DEF Commit, Requeue, Terminate
  <1>12. ASSUME NEW x \in Roles, PanicHolding(x) \/ PanicTerminating(x) \/ Crash(x)
         PROVE  w1 = Idle \/ w1 = w \/ (Same /\ Quiet)
    <2>1. PICK released : Die(x, released)
      BY <1>12 DEF PanicHolding, PanicTerminating, Crash
    <2>2. /\ worker'[x] = Idle
          /\ worker'[Peer(x)] =
               IF worker[Peer(x)].pc = "wait"
                 THEN [pc |-> "httpError", op |-> worker[Peer(x)].op, tr |-> worker[Peer(x)].tr]
                 ELSE worker[Peer(x)]
      BY <2>1, DieEffect
    <2>3. x = s \/ s = Peer(x)
      BY DEF Peer, Roles
    <2>4. CASE w.pc = "wait" /\ w1 = [pc |-> "httpError", op |-> w.op, tr |-> w.tr]
      BY <1>1, <2>4
    <2> HIDE DEF Same, Quiet
    <2> QED
      BY <2>2, <2>3, <2>4
  <1>13. ASSUME NEW x \in Roles, Reconcile(x), x # s
         PROVE  w1 = w \/ PanicHolding(x) \/ PanicTerminating(x)
    <2>1. ASSUME NEW k \in Slots, SendHTTPRequest(x, k)
          PROVE  w1 = w
      BY <1>1, <1>13, <2>1 DEF SendHTTPRequest
    <2>2. ASSUME Acquire(x)
          PROVE  w1 = w
      <3>1. PICK n : worker' = [worker EXCEPT ![x] = n]
        BY <2>2 DEF Acquire
      <3> QED
        BY <1>1, <1>13, <3>1
    <2>3. ASSUME \/ Take(x) \/ AcquireFails(x) \/ SendFails(x) \/ Commit(x) \/ Requeue(x)
                 \/ GiveUp(x) \/ Terminate(x)
          PROVE  w1 = w
      <3>1. PICK n : worker' = [worker EXCEPT ![x] = n]
        BY <2>3 DEF Take, AcquireFails, SendFails, Commit, Requeue, GiveUp, Terminate
      <3> QED
        BY <1>1, <1>13, <3>1
    <2> QED
      BY <1>13, <2>1, <2>2, <2>3 DEF Reconcile
  <1>14. ASSUME NEW x \in Roles, Poll(x) \/ Restart(x) \/ SignalReturns(x) \/ SignalTransferComplete(x)
        PROVE  w1 = w
    BY <1>14 DEF Poll, Restart, SignalReturns, SignalTransferComplete
  <1>15. ASSUME NEW x \in Roles, NEW y \in Slots, Receive(x, y) \/ HandlerLock(x, y) \/ HandlerProcess(x, y)
         PROVE  w1 = w
    BY <1>15 DEF Receive, HandlerLock, HandlerProcess
  <1>16. Begin \/ UNCHANGED vars => w1 = w
    BY DEF Begin, vars
  <1> DEFINE Goal == /\ w1 # Idle =>
                          \/ w # Idle /\ w1.op.entry = w.op.entry
                          \/ queue[s] # <<>> /\ w1.op.entry = Head(queue[s]).entry
                     /\ w1.pc = "answered" =>
                          \/ w.pc = "answered"
                          \/ \E k \in Slots : HandlerStore(Peer(s), k) /\ http[Peer(s)][k].client = "worker"
                     /\ w1.pc \in {"failed", "terminate"} =>
                          AcquireFails(s) \/ w.pc \in {"failed", "terminate"}
  <1>17. /\ w1 = w \/ w1 = Idle \/ (Same /\ Quiet) => Goal
         /\ Take(s) => Goal
         /\ AcquireFails(s) \/ GiveUp(s) => Goal
    BY <1>1, <1>8, <1>10
  <1>18. ASSUME NEW x \in Roles, NEW y \in Slots, HandlerStore(x, y)
         PROVE  Goal
    BY <1>7, <1>18
  <1> HIDE DEF Goal, w, w1, Same, Quiet
  <1>19. ASSUME NEW x \in Roles, Reconcile(x)
         PROVE  Goal
    <2>1. CASE x = s
      BY <1>9, <1>11, <1>12, <1>17, <1>19, <2>1 DEF Reconcile
    <2>2. CASE x # s
      BY <1>12, <1>13, <1>17, <1>19, <2>2
    <2> QED
      BY <2>1, <2>2
  <1>20. ASSUME NEW x \in Roles, NEW y \in Slots, Handle(x, y)
         PROVE  Goal
    BY <1>5, <1>6, <1>15, <1>17, <1>18, <1>20 DEF Handle
  <1>21. Goal
    BY <1>5, <1>12, <1>14, <1>15, <1>16, <1>17, <1>19, <1>20 DEF Next, Progress
  <1> QED
    BY <1>21 DEF Goal, w, w1

-----------------------------------------------------------------------------
(* The consumer learns the provider's PID from the provider                *)

\* The provider has something to send only when it has taken the request, and
\* nothing reaches the consumer before the provider has a row.
KnownInv ==
  /\ queue["provider"] # <<>> \/ worker["provider"] # Idle =>
       Has("provider") /\ Row("provider").state # "INITIAL"
  /\ \A k \in Slots : http["consumer"][k] # Idle => Has("provider")
  /\ Has("consumer") /\ Row("consumer").ppid # emptyUUID => Has("provider")

\* No row goes back to INITIAL.
LEMMA NeverInitialAgain ==
  ASSUME LockInv, [Next]_vars, NEW s \in Roles, Has(s), Row(s).state # "INITIAL"
  PROVE  Has(s)' /\ Row(s)'.state # "INITIAL"
  <1>1. Row(s).state \in TransferStates
    BY OneRow DEF LockInv, RowsOf
  <1>2. Has(s)' /\ Forward(Row(s), Row(s)')
    BY RowsForward
  <1> QED
    BY <1>1, <1>2 DEF Forward, validTransferTransitions, TransferStates

\* What a handler stores is not INITIAL.
LEMMA StoredIsNotInitial ==
  ASSUME LockInv, NEW s \in Roles, NEW k \in Slots, HandlerStore(s, k)
  PROVE  Has(s)' /\ Row(s)'.state # "INITIAL"
  <1>1. /\ Has(s) /\ Has(s)' /\ Row(s)' = ToModel(http[s][k].tr)
        /\ http[s][k].tr.state \in validTransferTransitions[Row(s).state]
    BY StoreEffect
  <1>2. Row(s).state \in TransferStates
    BY <1>1, OneRow DEF LockInv, RowsOf
  <1> QED
    BY <1>1, <1>2 DEF ToModel, validTransferTransitions, TransferStates

\* Every step.
LEMMA NextKnown ==
  ASSUME LockInv, LockInv', KnownInv, [Next]_vars
  PROVE  KnownInv'
  <1> DEFINE p == "provider"
             c == "consumer"
  <1>1. p \in Roles /\ c \in Roles /\ Peer(p) = c /\ Peer(c) = p
    BY DEF Roles, Peer
  <1>2. Has(p) => Has(p)'
    BY <1>1, RowsForward
  <1>3. ASSUME queue[p] # <<>> \/ worker[p] # Idle
        PROVE  Has(p)' /\ Row(p)'.state # "INITIAL"
    BY <1>1, <1>3, NeverInitialAgain DEF KnownInv
  <1>4. ASSUME queue'[p] # <<>>
        PROVE  Has(p)' /\ Row(p)'.state # "INITIAL"
    <2>1. PICK i \in DOMAIN queue'[p] : TRUE
      <3>1. queue'[p] \in Seq(QueuedOf(p))
        BY <1>1 DEF LockInv, WorkersShape
      <3>2. \A q \in Seq(QueuedOf(p)) : q # <<>> => 1 \in DOMAIN q
        OBVIOUS
      <3> QED
        BY <1>4, <3>1, <3>2
    <2>2. CASE \E k \in Slots : HandlerStore(p, k)
      BY <1>1, <2>2, StoredIsNotInitial
    <2>3. CASE queue[p] # <<>> \/ worker[p] # Idle
      BY <1>3, <2>3
    <2>4. queue[p] = <<>> => DOMAIN queue[p] = {}
      OBVIOUS
    <2> QED
      BY <1>1, <2>1, <2>2, <2>3, <2>4, QueueSteps
  <1>5. ASSUME worker'[p] # Idle
        PROVE  Has(p)' /\ Row(p)'.state # "INITIAL"
    BY <1>1, <1>3, <1>5, WorkerSteps
  <1>6. ASSUME NEW k \in Slots, http'[c][k] # Idle
        PROVE  Has(p)'
    <2>1. http[c][k].pc = "idle" <=> http[c][k] = Idle
      BY <1>1, SlotShapes DEF LockInv
    <2>2. http'[c][k].pc = "idle" <=> http'[c][k] = Idle
      <3>1. http'[c][k] \in HandlersOf(c)
        BY <1>1 DEF LockInv, HandlersShape
      <3>2. \A h \in HandlersOf(c) : h.pc = "idle" <=> h = Idle
        BY DEF HandlersOf, Idle
      <3> QED
        BY <3>1, <3>2
    <2>3. CASE http[c][k] # Idle
      BY <1>2, <2>3 DEF KnownInv
    <2>4. CASE http[c][k] = Idle
      <3>1. ~Carried(http[c][k], http'[c][k]) /\ ~Freed(c, k)
        BY <1>6, <2>1, <2>2, <2>4 DEF Carried, Freed
      <3>2. ~CreateTransfer(c, k) /\ ~HandlerLock(c, k) /\ ~HandlerProcess(c, k)
        BY <1>1, <2>1, <2>4 DEF CreateTransfer, HandlerLock, Wanted, HandlerProcess
      <3>3. Receive(c, k) => Has(p)
        BY <1>1, OneRow DEF Receive, LockInv
      <3>4. SendHTTPRequest(p, k) => Has(p)
        BY <1>1 DEF SendHTTPRequest, KnownInv, Idle
      <3> QED
        BY <1>1, <1>2, <3>1, <3>2, <3>3, <3>4, SlotSteps
    <2> QED
      BY <2>3, <2>4
  <1>7. ASSUME Has(c)', Row(c)'.ppid # emptyUUID
        PROVE  Has(p)'
    <2>1. CASE RowKept(c)
      BY <1>2, <1>7, <2>1 DEF RowKept, SameData, KnownInv
    <2>2. ~Begin
      <3>1. ASSUME Begin PROVE FALSE
        <4>1. PICK r : table' = [table EXCEPT ![c] = <<r>>] /\ r.ppid = emptyUUID
          BY <3>1, BeginEffect
        <4>2. table'[c] = <<r>>
          BY <1>1, <4>1 DEF LockInv, TablesShape
        <4> QED
          BY <1>7, <4>1, <4>2 DEF Row
      <3> QED
        BY <3>1
    <2>3. \A k \in Slots : ~CreateTransfer(c, k)
      BY <1>1, CreateEffect
    <2>4. ASSUME NEW k \in Slots, HandlerStore(c, k)
          PROVE  Has(p)
      BY <2>4 DEF HandlerStore, KnownInv, Idle
    <2>5. ASSUME Commit(c)
          PROVE  Has(p)
      <3>1. Has(c) /\ Row(c)' = ToModel(worker[c].tr) /\ worker[c].tr.ppid = Row(c).ppid
        BY <1>1, <2>5, CommitEffect
      <3> QED
        BY <1>7, <3>1 DEF ToModel, KnownInv
    <2>6. ASSUME Terminate(c)
          PROVE  Has(p)
      <3>1. /\ Has(c) /\ Row(c) \in RowsOf(c)
            /\ Row(c)' = [Row(c) EXCEPT !.state = worker[c].op.entry.target]
        BY <1>1, <2>6, TerminateEffect
      <3>2. \A r \in RowsOf(c) : \A y : [r EXCEPT !.state = y].ppid = r.ppid
        BY DEF RowsOf
      <3> QED
        BY <1>7, <3>1, <3>2 DEF KnownInv
    <2> QED
      BY <1>1, <1>2, <2>1, <2>2, <2>3, <2>4, <2>5, <2>6, RowSteps
  <1> QED
    BY <1>4, <1>5, <1>6, <1>7 DEF KnownInv

\* The consumer knows no provider PID before the provider has made it.
THEOREM KnownInvariant == Spec => []KnownInv
  <1>1. Init => KnownInv
    BY DEF Init, KnownInv, Has, Row, Idle, Roles
  <1>2. LockInv /\ LockInv' /\ KnownInv /\ [Next]_vars => KnownInv'
    BY NextKnown
  <1> QED
    BY <1>1, <1>2, LockInvariant, PTL DEF Spec

-----------------------------------------------------------------------------
(* Types                                                                   *)

\* The bounded counters and the calls.
LEMMA NextBounds ==
  ASSUME LockInv, BoundsShape, [Next]_vars
  PROVE  BoundsShape'
  <1> USE BoundsAssumption
  <1>1. UNCHANGED <<signal, bounds>> => BoundsShape'
    BY DEF BoundsShape, bounds
  <1>2. ASSUME NEW x \in Roles, NEW i, LockTimeout(x, i), UNCHANGED <<signal, outside, faults, crashes>>
        PROVE  BoundsShape'
    BY <1>2 DEF LockTimeout, BoundsShape
  <1>3. ASSUME Fault \/ faults' = faults, UNCHANGED <<signal, outside, timeouts, crashes>>
        PROVE  BoundsShape'
    BY <1>3 DEF Fault, BoundsShape
  <1>4. ASSUME NEW x \in Roles, NEW released, Die(x, released), UNCHANGED <<outside, faults, timeouts>>,
               crashes' = crashes \/ (crashes < MaxCrashes /\ crashes' = crashes + 1)
        PROVE  BoundsShape'
    <2>1. signal' \in [Roles -> {"none", "locked", "returned"}]
      BY <1>4 DEF Die, BoundsShape
    <2> QED
      BY <1>4, <2>1 DEF BoundsShape
  <1>5. ASSUME NEW x \in Roles, Reconcile(x)
        PROVE  BoundsShape'
    <2>1. CASE AcquireFails(x)
      <3>1. \/ \E i : LockTimeout(x, i)
            \/ timeouts' = timeouts
        BY <2>1 DEF AcquireFails
      <3>2. UNCHANGED <<signal, outside, faults, crashes>>
        BY <2>1 DEF AcquireFails
      <3>3. CASE timeouts' = timeouts
        BY <1>1, <3>2, <3>3 DEF bounds
      <3> QED
        BY <1>2, <3>1, <3>2, <3>3
    <2>2. CASE SendFails(x)
      BY <1>3, <2>2 DEF SendFails
    <2>3. CASE PanicHolding(x) \/ PanicTerminating(x)
      BY <1>4, <2>3 DEF PanicHolding, PanicTerminating, bounds
    <2>4. CASE \/ Take(x) \/ Acquire(x) \/ Commit(x) \/ Requeue(x) \/ GiveUp(x) \/ Terminate(x)
               \/ \E k \in Slots : SendHTTPRequest(x, k)
      BY <1>1, <2>4 DEF Take, Acquire, Commit, Requeue, GiveUp, Terminate, SendHTTPRequest
    <2> QED
      BY <1>5, <2>1, <2>2, <2>3, <2>4 DEF Reconcile
  <1>6. ASSUME NEW x \in Roles, NEW y \in Slots, Handle(x, y)
        PROVE  BoundsShape'
    <2>1. CASE HandlerNotFound(x, y)
      <3>1. \/ \E i : LockTimeout(x, i)
            \/ timeouts' = timeouts
        BY <2>1 DEF HandlerNotFound
      <3>2. UNCHANGED <<signal, outside, faults, crashes>>
        BY <2>1 DEF HandlerNotFound
      <3>3. CASE timeouts' = timeouts
        BY <1>1, <3>2, <3>3 DEF bounds
      <3> QED
        BY <1>2, <3>1, <3>2, <3>3
    <2>2. CASE HandlerReject(x, y)
      BY <1>3, <2>2 DEF HandlerReject
    <2>3. CASE CreateTransfer(x, y) \/ HandlerLock(x, y) \/ HandlerProcess(x, y) \/ HandlerStore(x, y)
      BY <1>1, <2>3 DEF CreateTransfer, HandlerLock, HandlerProcess, HandlerStore
    <2> QED
      BY <1>6, <2>1, <2>2, <2>3 DEF Handle
  <1>7. ASSUME NEW x \in Roles, SignalReturns(x) \/ SignalTransferComplete(x)
        PROVE  BoundsShape'
    <2>1. PICK v \in {"locked", "returned"} : signal' = [signal EXCEPT ![x] = v]
      BY <1>7 DEF SignalReturns, SignalTransferComplete
    <2>2. UNCHANGED bounds
      BY <1>7 DEF SignalReturns, SignalTransferComplete
    <2> QED
      BY <2>1, <2>2 DEF BoundsShape, bounds
  <1>8. ASSUME NEW x \in Roles, NEW y \in Slots, Receive(x, y)
        PROVE  BoundsShape'
    <2>1. PICK type \in Outside : outside' = Append(outside, type)
      BY <1>8 DEF Receive
    <2>2. Len(outside) < MaxOutside /\ UNCHANGED <<signal, faults, timeouts, crashes>>
      BY <1>8 DEF Receive
    <2>3. outside' \in Seq(Outside) /\ Len(outside') <= MaxOutside
      BY <2>1, <2>2 DEF BoundsShape
    <2> QED
      BY <2>2, <2>3 DEF BoundsShape
  <1>9. ASSUME NEW x \in Roles, Poll(x) \/ Restart(x) \/ \E k \in Slots : HandlerCancelled(x, k)
        PROVE  BoundsShape'
    BY <1>1, <1>9 DEF Poll, Restart, HandlerCancelled
  <1>10. ASSUME NEW x \in Roles, Crash(x)
         PROVE  BoundsShape'
    BY <1>4, <1>10 DEF Crash
  <1>11. CASE Begin \/ UNCHANGED vars
    BY <1>1, <1>11 DEF Begin, vars, bounds
  <1> QED
    BY <1>5, <1>6, <1>7, <1>8, <1>9, <1>10, <1>11 DEF Next, Progress

\* No counter passes its bound.
THEOREM BoundsInvariant == Spec => []BoundsShape
  <1>1. Init => BoundsShape
    BY BoundsAssumption DEF Init, BoundsShape, Roles
  <1>2. LockInv /\ BoundsShape /\ [Next]_vars => BoundsShape'
    BY NextBounds
  <1> QED
    BY <1>1, <1>2, LockInvariant, PTL DEF Spec

\* Rows, deques and processes keep the shape that the code gives them.
THEOREM TransferTypeCorrect == Spec => []TypeOK
  <1>1. LockInv /\ KnownInv /\ EndpointInv /\ BoundsShape => TypeOK
    <2> SUFFICES ASSUME LockInv, KnownInv, EndpointInv, BoundsShape
                 PROVE  TypeOK
      OBVIOUS
    <2> USE DEF LockInv
    <2>1. "consumer" \in Roles /\ "provider" \in Roles /\ \A s \in Roles : s = "consumer" \/ s = "provider"
      BY DEF Roles
    <2>2. ASSUME NEW s \in Roles, Has(s)
          PROVE  Row(s) \in Rows
      <3>1. Row(s) \in RowsOf(s) /\ Has("consumer") /\ uuid \in {2, 3}
        BY <2>1, <2>2, OneRow DEF QuietBefore, TablesShape
      <3>2. Row(s).ppid = 2 => Has("provider")
        BY <2>1, <2>2 DEF KnownInv, emptyUUID
      <3>3. Row(s).ppid \in IDs /\ 1 \in IDs
        <4>1. Row(s).ppid \in {0, 2} /\ (Row(s).ppid = 2 => uuid = 3)
          BY <3>1, <3>2 DEF RowsOf, PpidsOf, emptyUUID, TablesShape
        <4> QED
          BY <3>1, <4>1 DEF IDs
      <3>4. InfoSets = {{}} \cup {{i} : i \in
              Infos \cup {DataAddressToPublishInfo(publishInfoToDataAddress(i)) : i \in Infos}}
        BY DEF InfoSets, KnownInfos, Received
      <3> QED
        BY <3>1, <3>3, <3>4 DEF RowsOf, Rows, Locks
    <2>3. ASSUME NEW s \in Roles
          PROVE  table[s] \in Seq(Rows) /\ \A i \in DOMAIN table[s] : table[s][i].role = s
      <3>1. CASE Has(s)
        <4>1. table[s] = <<Row(s)>> /\ Row(s) \in Rows /\ Row(s) \in RowsOf(s)
          BY <2>2, <3>1, OneRow
        <4>2. Row(s).role = s
          BY <4>1 DEF RowsOf
        <4>3. \A r \in Rows : <<r>> \in Seq(Rows)
          OBVIOUS
        <4>4. \A i \in DOMAIN table[s] : table[s][i] = Row(s)
          BY OneRow
        <4> QED
          BY <4>1, <4>2, <4>3, <4>4
      <3>2. CASE ~Has(s)
        <4>1. <<>> \in Seq(Rows) /\ DOMAIN <<>> = {}
          OBVIOUS
        <4>2. table[s] = <<>>
          BY <3>2 DEF Has
        <4> QED
          BY <4>1, <4>2
      <3> QED
        BY <3>1, <3>2
    <2>4. ASSUME NEW s \in Roles, NEW i \in DOMAIN queue[s]
          PROVE  queue[s][i].attempts \in 0..(MaxAttempts - 1)
      <3>1. queue[s] \in Seq(QueuedOf(s))
        BY DEF WorkersShape
      <3>2. queue[s][i] \in QueuedOf(s)
        BY <3>1
      <3> QED
        BY <3>2 DEF QueuedOf
    <2>5. published \subseteq [id: IDs, info: Infos]
      <3>1. CASE published = {}
        BY <3>1
      <3>2. CASE published # {}
        <4>1. uuid = 3
          BY <3>2 DEF EndpointInv, TablesShape, QuietBefore
        <4>2. 2 \in IDs
          BY <4>1 DEF IDs
        <4> QED
          BY <4>2 DEF EndpointInv
      <3> QED
        BY <3>1, <3>2
    <2>6. \A s \in Roles : up[s] \in BOOLEAN /\ (~up[s] => queue[s] = <<>> /\ worker[s] = Idle)
      BY DEF DownIsEmpty
    <2> QED
      BY <2>3, <2>4, <2>5, <2>6 DEF TypeOK, BoundsShape
  <1> QED
    BY <1>1, LockInvariant, KnownInvariant, EndpointInvariant, BoundsInvariant, PTL

-----------------------------------------------------------------------------
(* The peer first                                                          *)

\* The state a connector reaches by sending.
Target(s) == IF s = "consumer" THEN "REQUESTED" ELSE "STARTED"

\* The consumer's states once it has seen the start.
AfterStart == {"STARTED", "COMPLETED", "TERMINATED"}

\* Nothing is SUSPENDED; messages alone do not make a connector believe what
\* its own sending has to establish; and the worker sends the consumer nothing
\* but starts.
MovesInv ==
  /\ \A s \in Roles : Has(s) => Row(s).state # "SUSPENDED"
  /\ \A s \in Roles, k \in Slots : http[s][k].pc = "ready" =>
       http[s][k].tr.state \in {"REQUESTED", "STARTED", "COMPLETED", "TERMINATED"} \ {Target(s)}
  /\ \A k \in Slots :
       LET h == http["consumer"][k] IN
       h # Idle /\ h.client = "worker" =>
         /\ h.pc \in {"new", "lock", "locked"} => h.msg.type = "start"
         /\ h.pc = "ready" => h.tr.state = "STARTED"

\* An answered worker has a peer that moved.  A worker that could not get its
\* row never will: the lock was left behind, or the row has moved on.
PeerInv ==
  timeouts = 0 =>
    /\ Has("consumer") /\ Row("consumer").state \in {"REQUESTED", "STARTED"} =>
         Has("provider") /\ Row("provider").state # "INITIAL"
    /\ worker["consumer"].pc = "answered" => Has("provider") /\ Row("provider").state # "INITIAL"
    /\ Has("provider") /\ Row("provider").state = "STARTED" => Row("consumer").state \in AfterStart
    /\ worker["provider"].pc = "answered" => Row("consumer").state \in AfterStart
    /\ \A s \in Roles : worker[s].pc \in {"failed", "terminate"} =>
         Has(s) /\ (Row(s).lock = "leaked" \/ Target(s) \notin validTransferTransitions[Row(s).state])

\* A lock that was left behind stays.
LEMMA LeakStays ==
  ASSUME LockInv, [Next]_vars, NEW s \in Roles, Has(s), Row(s).lock = "leaked"
  PROVE  RowKept(s) /\ Has(s)' /\ Row(s)'.lock = "leaked"
  <1>1. \A k \in Slots : ~HandlerStore(s, k)
    BY StoreEffect, SlotsAssumption
  <1>2. ~Commit(s) /\ ~Terminate(s) /\ ~Begin
    BY CommitEffect, TerminateEffect, BeginEffect DEF Roles
  <1>3. RowKept(s)
    BY <1>1, <1>2, RowSteps
  <1> QED
    BY <1>3 DEF RowKept

\* A row that is new.
LEMMA NewRow ==
  ASSUME LockInv, NEW s \in Roles, Has(s)',
         (s = "consumer" /\ Begin) \/ (\E k \in Slots : CreateTransfer(s, k) /\ ~Has(s))
  PROVE  ~Has(s) /\ Row(s)'.state = "INITIAL"
  <1> USE DEF LockInv
  <1>1. CASE s = "consumer" /\ Begin
    <2>1. PICK r : table' = [table EXCEPT ![s] = <<r>>] /\ r.state = "INITIAL" /\ ~Has(s)
      BY <1>1, BeginEffect
    <2>2. table'[s] = <<r>>
      BY <2>1 DEF TablesShape
    <2> QED
      BY <2>1, <2>2 DEF Row
  <1>2. ASSUME NEW k \in Slots, CreateTransfer(s, k), ~Has(s)
        PROVE  Row(s)'.state = "INITIAL"
    <2> DEFINE r == ToModel(New("provider", 2, 1, InfoOfAddress(http[s][k].msg)))
    <2>1. table' = table \/ table' = [table EXCEPT ![s] = <<r>>]
      BY <1>2, CreateEffect
    <2>2. r.state = "INITIAL"
      BY DEF ToModel, New
    <2> HIDE DEF r
    <2>3. table'[s] = <<r>>
      BY <1>2, <2>1 DEF TablesShape, Has
    <2> QED
      BY <2>2, <2>3 DEF Row
  <1> QED
    BY <1>1, <1>2

\* What terminate stores.
LEMMA TerminateTarget ==
  ASSUME LockInv, NEW s \in Roles, Terminate(s)
  PROVE  /\ Has(s) /\ Row(s).lock = "free" /\ Target(s) \in validTransferTransitions[Row(s).state]
         /\ Row(s)'.state = Target(s)
  <1>1. worker[s].op \in OperationsOf(s)
    BY WorkerShapes DEF LockInv, Terminate
  <1>2. worker[s].op.entry.target = Target(s)
    BY <1>1 DEF OperationsOf, EntriesOf, Target
  <1> QED
    BY <1>2, TerminateEffect

\* A slot is ready after a step when it was before, or when its handler has
\* just processed its message.
LEMMA ReadyFrom ==
  ASSUME LockInv, [Next]_vars, NEW s \in Roles, NEW k \in Slots, http'[s][k].pc = "ready"
  PROVE  \/ /\ http[s][k].pc = "ready" /\ http'[s][k].tr = http[s][k].tr
            /\ http'[s][k].ops = http[s][k].ops /\ http'[s][k].client \in {http[s][k].client, "gone"}
         \/ HandlerProcess(s, k)
  <1>1. CASE Carried(http[s][k], http'[s][k])
    BY <1>1 DEF Carried
  <1>2. ~Freed(s, k)
    BY DEF Freed, Idle
  <1>3. ~Receive(s, k) /\ ~SendHTTPRequest(Peer(s), k) /\ ~CreateTransfer(s, k) /\ ~HandlerLock(s, k)
    BY Entered DEF Idle
  <1> QED
    BY <1>1, <1>2, <1>3, SlotSteps

\* What a processed message makes of the transfer.
LEMMA ProcessedState ==
  ASSUME LockInv, NEW s \in Roles, NEW k \in Slots, HandlerProcess(s, k)
  PROVE  LET m == http[s][k].msg
             t == http'[s][k].tr
         IN  /\ http'[s][k].client = http[s][k].client
             /\ m.type \in {"request", "start", "completion", "termination"}
             /\ m.type = "request" => s = "provider" /\ t.state = "REQUESTED"
             /\ m.type = "start" => s = "consumer" /\ t.state = "STARTED"
             /\ m.type = "completion" => t.state = "COMPLETED"
             /\ m.type = "termination" => t.state = "TERMINATED"
  <1> DEFINE h == http[s][k]
  <1>1. h.msg \in MessagesTo(s) /\ h.tr \in CopiesOf(s) /\ Recv(h.tr, h.msg).ok
    BY ProcessEffect
  <1>2. PICK t \in AfterPublish(Recv(h.tr, h.msg).req, h.msg) :
          /\ published' = PublishedAfter(h, t)
          /\ http'[s][k].pc = "ready" /\ http'[s][k].tr = t /\ http'[s][k].client = h.client
          /\ http'[s][k].ops = IF Sends(t, h.msg) THEN <<Operation(sendTransferStart(t))>> ELSE <<>>
          /\ Sends(t, h.msg) => CanMarshal(t)
    BY ProcessEffect
  <1>3. h.msg.type \in {"request", "start", "completion", "termination"}
    BY <1>1 DEF MessagesTo, SentTo, Roles
  <1>4. /\ h.msg.type = "request" => s = "provider" /\ t.state = "REQUESTED"
        /\ h.msg.type = "start" => s = "consumer" /\ t.state = "STARTED"
        /\ h.msg.type = "completion" => t.state = "COMPLETED"
        /\ h.msg.type = "termination" => t.state = "TERMINATED"
    BY <1>1, Processed
  <1> HIDE DEF h
  <1> QED
    BY <1>2, <1>3, <1>4 DEF h

\* Every step keeps MovesInv.
LEMMA NextMoves ==
  ASSUME LockInv, MovesInv, [Next]_vars
  PROVE  MovesInv'
  <1> USE DEF LockInv
  <1>1. ASSUME NEW s \in Roles, Has(s)'
        PROVE  Row(s)'.state # "SUSPENDED"
    <2>1. CASE RowKept(s)
      BY <1>1, <2>1 DEF RowKept, SameData, MovesInv
    <2>2. CASE (s = "consumer" /\ Begin) \/ (\E k \in Slots : CreateTransfer(s, k) /\ ~Has(s))
      BY <1>1, <2>2, NewRow
    <2>3. ASSUME NEW k \in Slots, HandlerStore(s, k)
          PROVE  Row(s)'.state # "SUSPENDED"
      BY <2>3, StoreEffect DEF ToModel, MovesInv
    <2>4. CASE Commit(s)
      <3>1. Row(s)' = ToModel(worker[s].tr) /\ worker[s].tr.state \in {"REQUESTED", "STARTED"}
        BY <2>4, CommitEffect
      <3> QED
        BY <3>1 DEF ToModel
    <2>5. CASE Terminate(s)
      BY <2>5, TerminateTarget DEF Target
    <2> QED
      BY <2>1, <2>2, <2>3, <2>4, <2>5, RowSteps
  <1>2. ASSUME NEW s \in Roles, NEW k \in Slots, http'[s][k].pc = "ready"
        PROVE  http'[s][k].tr.state \in {"REQUESTED", "STARTED", "COMPLETED", "TERMINATED"} \ {Target(s)}
    BY <1>2, ReadyFrom, ProcessedState DEF MovesInv, Target
  <1>3. ASSUME NEW k \in Slots, http'["consumer"][k] # Idle, http'["consumer"][k].client = "worker"
        PROVE  /\ http'["consumer"][k].pc \in {"new", "lock", "locked"} => http'["consumer"][k].msg.type = "start"
               /\ http'["consumer"][k].pc = "ready" => http'["consumer"][k].tr.state = "STARTED"
    <2> DEFINE c == "consumer"
               h == http[c][k]
               h1 == http'[c][k]
    <2>1. c \in Roles /\ Peer(c) = "provider" /\ Peer(c) \in Roles /\ (h.pc = "idle" <=> h = Idle)
      BY SlotShapes DEF Roles, Peer
    <2>2. CASE Carried(h, h1)
      <3>1. h # Idle => h1.client = h.client
        BY <1>3, <2>2 DEF Carried
      <3>2. h # Idle /\ h.client = "worker" =>
              /\ h.pc \in {"new", "lock", "locked"} => h.msg.type = "start"
              /\ h.pc = "ready" => h.tr.state = "STARTED"
        BY DEF MovesInv
      <3> QED
        BY <1>3, <2>1, <2>2, <3>1, <3>2 DEF Carried
    <2>3. CASE Receive(c, k)
      BY <1>3, <2>1, <2>3, Entered
    <2>4. CASE SendHTTPRequest(Peer(c), k)
      <3>1. /\ h1.pc \in {"new", "lock"} /\ worker[Peer(c)].pc = "send"
            /\ h1.msg = worker[Peer(c)].op.entry.msg
        BY <2>1, <2>4, Entered
      <3>2. worker[Peer(c)].op \in OperationsOf(Peer(c))
        BY <2>1, <3>1, WorkerShapes
      <3>3. Peer(Peer(c)) = c
        BY DEF Peer
      <3>4. h1.msg \in SentTo(c)
        BY <3>1, <3>2, <3>3 DEF OperationsOf, EntriesOf
      <3> QED
        BY <3>1, <3>4 DEF SentTo
    <2>5. CASE CreateTransfer(c, k)
      BY <2>1, <2>5, CreateEffect
    <2>6. CASE HandlerLock(c, k)
      <3>1. h.pc = "lock" /\ h1.pc = "locked" /\ h1.msg = h.msg /\ h1.client = h.client
        BY <2>1, <2>6, Entered
      <3> QED
        BY <1>3, <2>1, <3>1 DEF MovesInv
    <2>7. CASE HandlerProcess(c, k)
      <3>1. h.pc = "locked" /\ h1.pc = "ready" /\ h1.client = h.client
        BY <2>1, <2>7, ProcessEffect
      <3>2. h.msg.type = "start"
        BY <1>3, <2>1, <3>1 DEF MovesInv
      <3> QED
        BY <2>1, <2>7, <3>1, <3>2, ProcessedState
    <2>8. ~Freed(c, k)
      BY <1>3 DEF Freed
    <2> QED
      BY <2>1, <2>2, <2>3, <2>4, <2>5, <2>6, <2>7, <2>8, SlotSteps
  <1> QED
    BY <1>1, <1>2, <1>3 DEF MovesInv

\* The count of timeouts does not go down, and is the same unless somebody's
\* wait for a lock has timed out.
LEMMA TimeoutSteps ==
  ASSUME BoundsShape, [Next]_vars, timeouts' = 0
  PROVE  timeouts = 0
  <1> USE BoundsAssumption
  <1>1. timeouts \in Nat /\ (timeouts' = timeouts => timeouts = 0)
        /\ \A x, i : LockTimeout(x, i) => timeouts = 0
    BY DEF BoundsShape, LockTimeout
  <1>2. ASSUME NEW x \in Roles, Reconcile(x)
        PROVE  timeouts = 0
    <2>1. CASE AcquireFails(x)
      BY <1>1, <2>1 DEF AcquireFails
    <2>2. CASE ~AcquireFails(x)
      BY <1>1, <1>2, <2>2
      DEF Reconcile, Take, Acquire, Commit, Requeue, GiveUp, Terminate, SendHTTPRequest, SendFails,
          PanicHolding, PanicTerminating, bounds
    <2> QED
      BY <2>1, <2>2
  <1>3. ASSUME NEW x \in Roles, NEW y \in Slots, Handle(x, y)
        PROVE  timeouts = 0
    <2>1. CASE HandlerNotFound(x, y)
      BY <1>1, <2>1 DEF HandlerNotFound
    <2>2. CASE ~HandlerNotFound(x, y)
      BY <1>1, <1>3, <2>2 DEF Handle, CreateTransfer, HandlerLock, HandlerProcess, HandlerReject, HandlerStore, bounds
    <2> QED
      BY <2>1, <2>2
  <1>4. ASSUME NEW x \in Roles,
               \/ SignalReturns(x) \/ SignalTransferComplete(x) \/ Poll(x) \/ Restart(x) \/ Crash(x)
        PROVE  timeouts = 0
    BY <1>1, <1>4 DEF SignalReturns, SignalTransferComplete, Poll, Restart, Crash, bounds
  <1>5. ASSUME NEW x \in Roles, NEW y \in Slots, HandlerCancelled(x, y) \/ Receive(x, y)
        PROVE  timeouts = 0
    BY <1>1, <1>5 DEF HandlerCancelled, Receive, bounds
  <1>6. CASE Begin \/ UNCHANGED vars
    BY <1>1, <1>6 DEF Begin, vars, bounds
  <1> QED
    BY <1>2, <1>3, <1>4, <1>5, <1>6 DEF Next, Progress

\* Without a timeout the worker fails to get its row for good.
LEMMA FailsForGood ==
  ASSUME LockInv, BoundsShape, NEW s \in Roles, AcquireFails(s), timeouts' = 0
  PROVE  Has(s) /\ (Row(s).lock = "leaked" \/ Target(s) \notin validTransferTransitions[Row(s).state])
  <1> USE DEF LockInv
  <1>1. worker[s].pc = "acquire" /\ worker[s].op \in OperationsOf(s)
    BY WorkerShapes DEF AcquireFails
  <1>2. worker[s].op.entry.target = Target(s)
    BY <1>1 DEF OperationsOf, EntriesOf, Target
  <1>3. PICK i \in EntryRows(s, worker[s].op.entry) :
          \/ LockTimeout(s, i)
          \/ table[s][i].lock = "free" /\ ~CanUpdate(s, i, worker[s].op.entry)
    BY DEF AcquireFails
  <1>4. i = 1 /\ Has(s) /\ table[s][i] = Row(s)
    <2>1. i \in DOMAIN table[s]
      BY DEF EntryRows, Lookup
    <2> QED
      BY <2>1, OneRow
  <1>5. CASE LockTimeout(s, i)
    <2>1. timeouts \in Nat
      BY BoundsAssumption DEF BoundsShape
    <2>2. Stuck(s, i)
      BY <1>5, <2>1 DEF LockTimeout
    <2> QED
      BY <1>1, <1>4, <2>2 DEF Stuck
  <1>6. CASE table[s][i].lock = "free" /\ ~CanUpdate(s, i, worker[s].op.entry)
    BY <1>2, <1>4, <1>6 DEF CanUpdate, CanSetState
  <1> QED
    BY <1>3, <1>5, <1>6

\* Every step keeps PeerInv.
LEMMA NextPeer ==
  ASSUME LockInv, KnownInv, MovesInv, MovesInv', BoundsShape, PeerInv, [Next]_vars
  PROVE  PeerInv'
  <1> USE DEF LockInv
  <1> DEFINE p == "provider"
             c == "consumer"
  <1> SUFFICES ASSUME timeouts' = 0 PROVE PeerInv'
    BY DEF PeerInv
  <1>1. p \in Roles /\ c \in Roles /\ Peer(p) = c /\ Peer(c) = p /\ \A s \in Roles : s = p \/ s = c
    BY DEF Roles, Peer
  <1>2. /\ Has(c) /\ Row(c).state \in {"REQUESTED", "STARTED"} => Has(p) /\ Row(p).state # "INITIAL"
        /\ worker[c].pc = "answered" => Has(p) /\ Row(p).state # "INITIAL"
        /\ Has(p) /\ Row(p).state = "STARTED" => Row(c).state \in AfterStart
        /\ worker[p].pc = "answered" => Row(c).state \in AfterStart
        /\ \A s \in Roles : worker[s].pc \in {"failed", "terminate"} =>
             Has(s) /\ (Row(s).lock = "leaked" \/ Target(s) \notin validTransferTransitions[Row(s).state])
    BY TimeoutSteps DEF PeerInv
  <1>3. \A s \in Roles : ~Terminate(s)
    BY <1>2, TerminateTarget DEF Terminate
  <1>4. ASSUME Has(p), Row(p).state # "INITIAL"
        PROVE  Has(p)' /\ Row(p)'.state # "INITIAL"
    BY <1>1, <1>4, NeverInitialAgain
  <1>5. ASSUME NEW s \in Roles, Has(s), Row(s).state \in AfterStart
        PROVE  Row(s)'.state \in AfterStart
    <2>1. Has(s)' /\ Forward(Row(s), Row(s)') /\ Row(s)'.state # "SUSPENDED"
      BY <1>5, RowsForward DEF MovesInv
    <2> QED
      BY <1>5, <2>1 DEF Forward, AfterStart, validTransferTransitions
  <1>6. ASSUME Has(c)', Row(c)'.state \in {"REQUESTED", "STARTED"}
        PROVE  Has(p)' /\ Row(p)'.state # "INITIAL"
    <2>1. CASE RowKept(c)
      BY <1>2, <1>4, <1>6, <2>1 DEF RowKept, SameData
    <2>2. CASE Begin \/ (\E k \in Slots : CreateTransfer(c, k) /\ ~Has(c))
      BY <1>1, <1>6, <2>2, NewRow
    <2>3. ASSUME NEW k \in Slots, HandlerStore(c, k)
          PROVE  Has(p) /\ Row(p).state # "INITIAL"
      <3>1. /\ http[c][k].pc = "ready" /\ Has(c) /\ Row(c)' = ToModel(http[c][k].tr)
            /\ http[c][k].tr.state \in validTransferTransitions[Row(c).state]
        BY <1>1, <2>3, StoreEffect
      <3>2. http[c][k].tr.state = "STARTED" /\ Row(c).state # "SUSPENDED" /\ Row(c).state \in TransferStates
        <4>1. http[c][k].tr.state # "REQUESTED" /\ Row(c).state # "SUSPENDED"
          BY <1>1, <3>1 DEF MovesInv, Target
        <4>2. http[c][k].tr.state \in {"REQUESTED", "STARTED"}
          BY <1>6, <3>1 DEF ToModel
        <4>3. Row(c) \in RowsOf(c)
          BY <1>1, <3>1, OneRow
        <4> QED
          BY <4>1, <4>2, <4>3 DEF RowsOf
      <3>3. Row(c).state = "REQUESTED"
        BY <3>1, <3>2 DEF validTransferTransitions, TransferStates
      <3> QED
        BY <1>2, <3>1, <3>3
    <2>4. CASE Commit(c)
      <3>1. worker[c].pc = "answered"
        BY <2>4 DEF Commit
      <3> QED
        BY <1>2, <1>4, <3>1
    <2> QED
      BY <1>1, <1>3, <1>4, <2>1, <2>2, <2>3, <2>4, RowSteps
  <1>7. ASSUME worker'[c].pc = "answered"
        PROVE  Has(p)' /\ Row(p)'.state # "INITIAL"
    <2>1. CASE worker[c].pc = "answered"
      BY <1>2, <1>4, <2>1
    <2>2. ASSUME NEW k \in Slots, HandlerStore(p, k)
          PROVE  Has(p)' /\ Row(p)'.state # "INITIAL"
      BY <1>1, <2>2, StoredIsNotInitial
    <2> QED
      BY <1>1, <1>7, <2>1, <2>2, WorkerSteps
  <1>8. Has(p) \/ worker[p] # Idle => Has(c)
    BY <1>1 DEF QuietBefore
  <1>9. ASSUME Has(p)', Row(p)'.state = "STARTED"
        PROVE  Row(c)'.state \in AfterStart
    <2>1. CASE RowKept(p)
      BY <1>1, <1>2, <1>5, <1>8, <1>9, <2>1 DEF RowKept, SameData
    <2>2. CASE \E k \in Slots : CreateTransfer(p, k) /\ ~Has(p)
      BY <1>1, <1>9, <2>2, NewRow
    <2>3. ASSUME NEW k \in Slots
          PROVE  ~HandlerStore(p, k)
      <3>1. ASSUME HandlerStore(p, k) PROVE FALSE
        <4>1. http[p][k].pc = "ready" /\ Row(p)' = ToModel(http[p][k].tr)
          BY <1>1, <3>1, StoreEffect
        <4> QED
          BY <1>1, <1>9, <4>1 DEF MovesInv, Target, ToModel
      <3> QED
        BY <3>1
    <2>4. CASE Commit(p)
      <3>1. worker[p].pc = "answered" /\ worker[p] # Idle
        BY <2>4 DEF Commit, Idle
      <3> QED
        BY <1>1, <1>2, <1>5, <1>8, <3>1
    <2> QED
      BY <1>1, <1>3, <2>1, <2>2, <2>3, <2>4, RowSteps
  <1>10. ASSUME worker'[p].pc = "answered"
         PROVE  Row(c)'.state \in AfterStart
    <2>1. CASE worker[p].pc = "answered"
      BY <1>1, <1>2, <1>5, <1>8, <2>1 DEF Idle
    <2>2. ASSUME NEW k \in Slots, HandlerStore(c, k), http[c][k].client = "worker"
          PROVE  Row(c)'.state \in AfterStart
      <3>1. http[c][k].pc = "ready" /\ Row(c)' = ToModel(http[c][k].tr)
        BY <1>1, <2>2, StoreEffect
      <3>2. http[c][k].tr.state = "STARTED"
        BY <2>2, <3>1 DEF MovesInv, Idle
      <3> QED
        BY <3>1, <3>2 DEF ToModel, AfterStart
    <2> QED
      BY <1>1, <1>10, <2>1, <2>2, WorkerSteps
  <1>11. ASSUME NEW s \in Roles, worker'[s].pc \in {"failed", "terminate"}
         PROVE  Has(s)' /\ (Row(s)'.lock = "leaked" \/ Target(s) \notin validTransferTransitions[Row(s)'.state])
    <2>1. /\ Has(s) /\ worker[s] # Idle
          /\ Row(s).lock = "leaked" \/ Target(s) \notin validTransferTransitions[Row(s).state]
      <3>1. CASE AcquireFails(s)
        <4>1. worker[s].pc = "acquire"
          BY <3>1 DEF AcquireFails
        <4>2. /\ Has(s)
              /\ Row(s).lock = "leaked" \/ Target(s) \notin validTransferTransitions[Row(s).state]
          BY <3>1, FailsForGood
        <4>3. worker[s] # Idle
          BY <4>1 DEF Idle
        <4> QED
          BY <4>2, <4>3
      <3>2. CASE worker[s].pc \in {"failed", "terminate"}
        BY <1>2, <3>2 DEF Idle
      <3> QED
        BY <1>11, <3>1, <3>2, WorkerSteps
    <2>2. CASE Row(s).lock = "leaked"
      BY <2>1, <2>2, LeakStays
    <2>3. CASE Target(s) \notin validTransferTransitions[Row(s).state]
      <3>1. /\ Has(s)' /\ Forward(Row(s), Row(s)') /\ Row(s)'.state # "SUSPENDED"
            /\ Row(s).state \in TransferStates
        BY <2>1, RowsForward, OneRow DEF MovesInv, RowsOf
      <3>2. s = p => Row(s).state # "INITIAL"
        BY <2>1 DEF KnownInv
      <3>3. CASE s = c
        BY <2>3, <3>1, <3>3 DEF Forward, Target, validTransferTransitions, TransferStates
      <3>4. CASE s = p
        BY <2>3, <3>1, <3>2, <3>4 DEF Forward, Target, validTransferTransitions, TransferStates
      <3> QED
        BY <1>1, <3>3, <3>4
    <2> QED
      BY <2>1, <2>2, <2>3
  <1> QED
    BY <1>6, <1>7, <1>9, <1>10, <1>11 DEF PeerInv

\* Every behaviour keeps MovesInv.
THEOREM MovesInvariant == Spec => []MovesInv
  <1>1. Init => MovesInv
    <2> SUFFICES ASSUME Init PROVE MovesInv
      OBVIOUS
    <2>1. \A s \in Roles : ~Has(s)
      BY DEF Init, Has
    <2>2. \A s \in Roles, k \in Slots : http[s][k] = Idle /\ http[s][k].pc # "ready"
      BY DEF Init, Idle
    <2>3. "consumer" \in Roles
      BY DEF Roles
    <2> QED
      BY <2>1, <2>2, <2>3 DEF MovesInv
  <1>2. LockInv /\ MovesInv /\ [Next]_vars => MovesInv'
    BY NextMoves
  <1> QED
    BY <1>1, <1>2, LockInvariant, PTL DEF Spec

\* Every behaviour keeps PeerInv.
THEOREM PeerInvariant == Spec => []PeerInv
  <1>1. Init => PeerInv
    <2> SUFFICES ASSUME Init PROVE PeerInv
      OBVIOUS
    <2>1. \A s \in Roles : ~Has(s)
      BY DEF Init, Has
    <2>2. \A s \in Roles : worker[s].pc = "idle"
      BY DEF Init, Idle
    <2>3. "consumer" \in Roles /\ "provider" \in Roles
      BY DEF Roles
    <2> QED
      BY <2>1, <2>2, <2>3 DEF PeerInv
  <1>2. LockInv /\ KnownInv /\ MovesInv /\ MovesInv' /\ BoundsShape /\ PeerInv /\ [Next]_vars => PeerInv'
    BY NextPeer
  <1> QED
    BY <1>1, <1>2, LockInvariant, KnownInvariant, MovesInvariant, BoundsInvariant, PTL DEF Spec

\* The halves of a transfer are the two rows.
LEMMA HalvesAreRows ==
  ASSUME LockInv, NEW h \in Halves
  PROVE  /\ Has("consumer") /\ h[1] = Row("consumer")
         /\ Has("provider") /\ h[2] = Row("provider")
  <1> USE DEF LockInv
  <1>1. h \in Range(table["consumer"]) \X Range(table["provider"])
    BY DEF Halves
  <1>2. h[1] \in Range(table["consumer"]) /\ h[2] \in Range(table["provider"])
    BY <1>1
  <1>3. ASSUME NEW s \in Roles, NEW r \in Range(table[s])
        PROVE  Has(s) /\ r = Row(s)
    <2>1. PICK i \in DOMAIN table[s] : r = table[s][i]
      BY DEF Range
    <2> QED
      BY <2>1, OneRow
  <1> QED
    BY <1>2, <1>3 DEF Roles

\* A connector commits what it reached by sending only when its peer has
\* reached it, in every transfer and however the processes interleave, as long
\* as no lock times out while its owner is at work.
THEOREM TransferPeerFirst == Spec => []PeerFirst
  <1>1. LockInv /\ PeerInv => PeerFirst
    BY HalvesAreRows DEF PeerInv, PeerFirst, AfterStart
  <1> QED
    BY <1>1, LockInvariant, PeerInvariant, PTL

-----------------------------------------------------------------------------
(* The data of a pull                                                      *)

\* The endpoint that is served is one of those described.
Given(infos) == \E e \in published : \E i \in infos : SameAccess(i, e.info)

\* A message offers the endpoint that is served.
Offered(m) ==
  \E e \in published : /\ m.address = {publishInfoToDataAddress(e.info)}
                       /\ ValidAddress(publishInfoToDataAddress(e.info))

\* The entries that connector s is going to send, and the messages it has got
\* and not worked off.
Sending(s, e) ==
  \/ \E i \in DOMAIN queue[s] : queue[s][i].entry = e
  \/ worker[s] # Idle /\ worker[s].op.entry = e
  \/ \E k \in Slots : http[s][k].pc = "ready" /\ \E i \in DOMAIN http[s][k].ops : http[s][k].ops[i].entry = e

Holding(s, m) == \E k \in Slots : http[s][k].pc \in {"new", "lock", "locked"} /\ http[s][k].msg = m

IsPull == Has("consumer") /\ Row("consumer").direction = "PULL"

\* The two halves agree on the direction, which the request carries in its
\* address, and a pull has no publish info before it is started.
DirectionInv ==
  /\ Has("provider") => (Row("provider").direction = "PULL" <=> IsPull)
  /\ \A e \in EntriesOf("consumer") : Sending("consumer", e) => (e.msg.address = {} <=> IsPull)
  /\ \A m \in SentTo("provider") : Holding("provider", m) => (m.address = {} <=> IsPull)
  /\ IsPull /\ Row("consumer").state \in {"INITIAL", "REQUESTED"} => Row("consumer").publishInfo = {}

\* As long as nobody sends a completion, every start offers what is served,
\* and a consumer that has started has been given it.
DataInv ==
  "completion" \notin Range(outside) =>
    /\ \A s \in Roles : \A m \in MessagesTo(s) : Holding(s, m) => m.type # "completion"
    /\ IsPull =>
         /\ \A e \in EntriesOf("provider") : Sending("provider", e) => Offered(e.msg)
         /\ \A m \in SentTo("consumer") : Holding("consumer", m) => Offered(m)
         /\ Row("consumer").state = "STARTED" =>
              Row("consumer").ppid = 2 /\ Given(Row("consumer").publishInfo)
         /\ \A k \in Slots :
              LET h == http["consumer"][k] IN
              h.pc = "ready" /\ h.tr.state = "STARTED" => h.tr.ppid = 2 /\ Given(h.tr.publishInfo)

\* An entry is on its way after a step when it was before, when the transfer
\* has just begun, or when a handler has just made it.
LEMMA SendingFrom ==
  ASSUME LockInv, LockInv', [Next]_vars, NEW s \in Roles, NEW e, Sending(s, e)'
  PROVE  \/ Sending(s, e)
         \/ s = "consumer" /\ Begin /\ \E i \in DOMAIN queue'[s] : queue'[s][i].entry = e
         \/ \E k \in Slots : HandlerProcess(s, k) /\ \E i \in DOMAIN http'[s][k].ops :
              http'[s][k].ops[i].entry = e
  <1> USE DEF LockInv
  <1>1. ASSUME NEW i \in DOMAIN queue'[s], queue'[s][i].entry = e
        PROVE  Sending(s, e) \/ (s = "consumer" /\ Begin)
    <2>1. ASSUME NEW k \in Slots, HandlerStore(s, k), NEW j \in DOMAIN http[s][k].ops,
                 queue'[s][i] = http[s][k].ops[j]
          PROVE  Sending(s, e)
      BY <1>1, <2>1, StoreEffect DEF Sending
    <2> QED
      BY <1>1, <2>1, QueueSteps DEF Sending
  <1>2. ASSUME worker'[s] # Idle, worker'[s].op.entry = e
        PROVE  Sending(s, e)
    <2>1. CASE worker[s] # Idle /\ worker'[s].op.entry = worker[s].op.entry
      BY <1>2, <2>1 DEF Sending
    <2>2. CASE queue[s] # <<>> /\ worker'[s].op.entry = Head(queue[s]).entry
      <3>1. queue[s] \in Seq(QueuedOf(s))
        BY DEF WorkersShape
      <3>2. 1 \in DOMAIN queue[s] /\ queue[s][1] = Head(queue[s])
        BY <2>2, <3>1
      <3> QED
        BY <1>2, <2>2, <3>2 DEF Sending
    <2> QED
      BY <1>2, <2>1, <2>2, WorkerSteps
  <1>3. ASSUME NEW k \in Slots, http'[s][k].pc = "ready", NEW i \in DOMAIN http'[s][k].ops,
               http'[s][k].ops[i].entry = e
        PROVE  Sending(s, e) \/ HandlerProcess(s, k)
    BY <1>3, ReadyFrom DEF Sending
  <1> QED
    BY <1>1, <1>2, <1>3 DEF Sending

\* A message is held after a step when it was before, when the peer has sent
\* it, or when it has come from outside.
LEMMA HoldingFrom ==
  ASSUME LockInv, [Next]_vars, NEW s \in Roles, NEW m, Holding(s, m)'
  PROVE  \/ Holding(s, m)
         \/ m \in SentTo(s) /\ \E e \in EntriesOf(Peer(s)) : Sending(Peer(s), e) /\ e.msg = m
         \/ m.type \in Outside /\ outside' = Append(outside, m.type)
  <1> USE DEF LockInv
  <1> DEFINE p == Peer(s)
  <1>1. p \in Roles /\ Peer(p) = s
    BY DEF Roles, Peer
  <1>2. PICK k \in Slots : http'[s][k].pc \in {"new", "lock", "locked"} /\ http'[s][k].msg = m
    BY DEF Holding
  <1> DEFINE h == http[s][k]
             h1 == http'[s][k]
  <1>3. CASE Carried(h, h1)
    BY <1>2, <1>3 DEF Carried, Holding
  <1>4. ~Freed(s, k)
    BY <1>2 DEF Freed, Idle
  <1>5. CASE Receive(s, k)
    <2>1. h1.msg.type \in Outside /\ outside' = Append(outside, h1.msg.type)
      BY <1>5, Entered
    <2> QED
      BY <1>2, <2>1
  <1>6. CASE SendHTTPRequest(p, k)
    <2>1. worker[p].pc = "send" /\ h1.msg = worker[p].op.entry.msg
      BY <1>6, Entered
    <2>2. worker[p].op \in OperationsOf(p) /\ worker[p] # Idle
      BY <1>1, <2>1, WorkerShapes DEF Idle
    <2>3. worker[p].op.entry \in EntriesOf(p) /\ Sending(p, worker[p].op.entry)
      BY <2>2 DEF OperationsOf, Sending
    <2>4. m = worker[p].op.entry.msg
      BY <1>2, <2>1
    <2>5. m \in SentTo(s)
      BY <1>1, <2>3, <2>4 DEF EntriesOf
    <2> QED
      BY <2>3, <2>4, <2>5
  <1>7. CASE CreateTransfer(s, k)
    <2>1. h.pc = "new" /\ (h1 = Idle \/ h1.msg = h.msg)
      BY <1>7, Entered
    <2>2. h1 # Idle
      BY <1>2 DEF Idle
    <2> QED
      BY <1>2, <2>1, <2>2 DEF Holding
  <1>8. CASE HandlerLock(s, k)
    <2>1. h.pc = "lock" /\ h1.msg = h.msg
      BY <1>8, Entered
    <2> QED
      BY <1>2, <2>1 DEF Holding
  <1>9. ~HandlerProcess(s, k)
    BY <1>2, ProcessEffect
  <1> QED
    BY <1>3, <1>4, <1>5, <1>6, <1>7, <1>8, <1>9, SlotSteps

\* The transfer's direction is fixed when it begins.
LEMMA DirectionFixed ==
  ASSUME LockInv, [Next]_vars, Has("consumer")
  PROVE  Has("consumer")' /\ (IsPull' <=> IsPull)
  BY RowsForward DEF Roles, IsPull, Forward

\* Nothing but Begin makes the consumer's row.
LEMMA BegunByBegin ==
  ASSUME LockInv, [Next]_vars, ~Has("consumer"), Has("consumer")'
  PROVE  Begin
  <1> DEFINE c == "consumer"
  <1>1. c \in Roles /\ c # "provider"
    BY DEF Roles
  <1>2. ~RowKept(c) /\ ~Commit(c) /\ ~Terminate(c) /\ \A k \in Slots : ~HandlerStore(c, k)
    BY <1>1, CommitEffect, TerminateEffect, StoreEffect DEF RowKept
  <1>3. \A k \in Slots : ~CreateTransfer(c, k)
    BY <1>1, CreateEffect
  <1> QED
    BY <1>1, <1>2, <1>3, RowSteps

\* Before the transfer has begun nothing is on its way.
LEMMA NothingSent ==
  ASSUME QuietBefore, ~Has("consumer"), NEW s \in Roles
  PROVE  \A x : ~Sending(s, x) /\ ~Holding(s, x)
  <1>1. /\ queue[s] = <<>> /\ worker[s] = Idle
        /\ \A k \in Slots : http[s][k].pc = "idle"
    BY DEF QuietBefore, Idle
  <1>2. DOMAIN queue[s] = {}
    BY <1>1
  <1> QED
    BY <1>1, <1>2 DEF Sending, Holding

\* The provider of a new transfer takes the direction from the request.
LEMMA CreatedDirection ==
  ASSUME LockInv, DirectionInv, NEW k \in Slots, CreateTransfer("provider", k), ~Has("provider"),
         Has("provider")'
  PROVE  Row("provider")'.direction = "PULL" <=> IsPull
  <1> USE DEF LockInv
  <1> DEFINE s == "provider"
             m == http[s][k].msg
             n == New("provider", 2, 1, InfoOfAddress(m))
             r == ToModel(n)
  <1>1. s \in Roles
    BY DEF Roles
  <1>2. http[s][k].pc = "new" /\ m \in SentTo(s)
    BY <1>1, CreateEffect
  <1>3. m.address = {} <=> IsPull
    BY <1>2 DEF DirectionInv, Holding
  <1>4. table' = table \/ table' = [table EXCEPT ![s] = <<r>>]
    BY <1>1, CreateEffect
  <1>5. InfoOfAddress(m) = {} <=> m.address = {}
    BY DEF InfoOfAddress
  <1>6. n.direction = IF InfoOfAddress(m) = {} THEN "PULL" ELSE "PUSH"
    BY DEF New
  <1>7. r.direction = n.direction
    BY DEF ToModel
  <1> HIDE DEF r, n, m
  <1>8. table'[s] = <<r>>
    BY <1>1, <1>4 DEF TablesShape, Has
  <1>9. Row(s)' = r
    BY <1>8 DEF Row
  <1> QED
    BY <1>3, <1>5, <1>6, <1>7, <1>9

\* The consumer's row has its publish info from the start.
LEMMA NoInfoBefore ==
  ASSUME LockInv, MovesInv, DirectionInv, [Next]_vars, Has("consumer"), IsPull,
         Row("consumer")'.state \in {"INITIAL", "REQUESTED"}
  PROVE  Row("consumer")'.publishInfo = {}
  <1> USE DEF LockInv
  <1> DEFINE c == "consumer"
  <1>1. c \in Roles /\ c # "provider"
    BY DEF Roles
  <1>2. CASE RowKept(c)
    BY <1>2 DEF RowKept, SameData, DirectionInv
  <1>3. ~Begin /\ \A k \in Slots : ~CreateTransfer(c, k)
    BY <1>1, BeginEffect, CreateEffect
  <1>4. ASSUME NEW k \in Slots
        PROVE  ~HandlerStore(c, k)
    <2>1. ASSUME HandlerStore(c, k) PROVE FALSE
      <3>1. http[c][k].pc = "ready" /\ Row(c)' = ToModel(http[c][k].tr)
        BY <1>1, <2>1, StoreEffect
      <3>2. http[c][k].tr.state \notin {"INITIAL", "REQUESTED"}
        BY <1>1, <3>1 DEF MovesInv, Target
      <3> QED
        BY <3>1, <3>2 DEF ToModel
    <2> QED
      BY <2>1
  <1>5. ASSUME "REQUESTED" \in validTransferTransitions[Row(c).state]
        PROVE  Row(c).publishInfo = {}
    <2>1. Row(c).state \in TransferStates
      BY <1>1, OneRow DEF RowsOf
    <2>2. Row(c).state = "INITIAL"
      BY <1>5, <2>1 DEF validTransferTransitions, TransferStates
    <2> QED
      BY <2>2 DEF DirectionInv
  <1>6. CASE Commit(c)
    <2>1. /\ Row(c)' = ToModel(worker[c].tr) /\ worker[c].tr.publishInfo = Row(c).publishInfo
          /\ "REQUESTED" \in validTransferTransitions[Row(c).state]
      BY <1>1, <1>6, CommitEffect
    <2> QED
      BY <1>5, <2>1 DEF ToModel
  <1>7. CASE Terminate(c)
    <2>1. /\ Row(c)' = [Row(c) EXCEPT !.state = worker[c].op.entry.target]
          /\ Row(c) \in RowsOf(c)
      BY <1>1, <1>7, TerminateEffect
    <2>2. "REQUESTED" \in validTransferTransitions[Row(c).state]
      BY <1>1, <1>7, TerminateTarget DEF Target
    <2>3. Row(c)'.publishInfo = Row(c).publishInfo
      BY <2>1 DEF RowsOf
    <2> QED
      BY <1>5, <2>2, <2>3
  <1> QED
    BY <1>1, <1>2, <1>3, <1>4, <1>6, <1>7, RowSteps

\* Every step keeps DirectionInv.
LEMMA NextDirection ==
  ASSUME LockInv, LockInv', MovesInv, DirectionInv, [Next]_vars
  PROVE  DirectionInv'
  <1> USE DEF LockInv
  <1> DEFINE p == "provider"
             c == "consumer"
  <1>1. p \in Roles /\ c \in Roles /\ Peer(p) = c /\ Peer(c) = p
    BY DEF Roles, Peer
  <1>2. CASE ~Has(c)'
    <2>1. ~Has(p)' /\ ~IsPull'
      BY <1>2 DEF QuietBefore, IsPull
    <2>2. \A s \in Roles : \A x : ~Sending(s, x)' /\ ~Holding(s, x)'
      <3>1. ASSUME NEW s \in Roles
            PROVE  /\ queue'[s] = <<>> /\ worker'[s] = Idle
                   /\ \A k \in Slots : http'[s][k].pc = "idle"
        BY <1>2 DEF QuietBefore, Idle
      <3>2. DOMAIN <<>> = {}
        OBVIOUS
      <3> QED
        BY <3>1, <3>2 DEF Sending, Holding
    <2> QED
      BY <1>1, <2>1, <2>2 DEF DirectionInv
  <1>3. CASE Has(c)' /\ ~Has(c)
    <2>1. Begin
      BY <1>3, BegunByBegin
    <2>2. PICK r \in RowsOf(c) :
            /\ table' = [table EXCEPT ![c] = <<r>>]
            /\ r.state = "INITIAL" /\ r.ppid = emptyUUID /\ r.lock \in {"free", "leaked"}
            /\ r.direction = "PULL" <=> r.publishInfo = {}
            /\ \/ queue' = [queue EXCEPT ![c] = <<>>]
               \/ \E op \in QueuedOf(c) :
                    /\ queue' = [queue EXCEPT ![c] = <<op>>]
                    /\ op.entry.msg.address = {publishInfoToDataAddress(i) : i \in r.publishInfo}
      BY <2>1, BeginEffect
    <2>3. table'[c] = <<r>> /\ table'[p] = table[p] /\ table[p] = <<>>
      BY <1>1, <1>3, <2>2 DEF TablesShape, QuietBefore, Has
    <2>4. Row(c)' = r /\ ~Has(p)' /\ (IsPull' <=> r.publishInfo = {})
      BY <1>3, <2>2, <2>3 DEF Row, Has, IsPull
    <2>5. ASSUME NEW e, Sending(c, e)'
          PROVE  e.msg.address = {} <=> r.publishInfo = {}
      <3>1. ~Sending(c, e)
        BY <1>1, <1>3, NothingSent
      <3>2. \A k \in Slots : ~HandlerProcess(c, k)
        BY <1>1, <1>3, ProcessEffect
      <3>3. PICK i \in DOMAIN queue'[c] : queue'[c][i].entry = e
        BY <1>1, <2>5, <3>1, <3>2, SendingFrom
      <3>4. DOMAIN queue = Roles
        BY DEF WorkersShape
      <3>5. queue'[c] # <<>>
        BY <3>3
      <3>6. PICK op \in QueuedOf(c) :
              /\ queue'[c] = <<op>>
              /\ op.entry.msg.address = {publishInfoToDataAddress(j) : j \in r.publishInfo}
        BY <1>1, <2>2, <3>4, <3>5
      <3>7. e = op.entry
        BY <3>3, <3>6
      <3> QED
        BY <3>6, <3>7
    <2>6. ASSUME NEW m \in SentTo(p)
          PROVE  ~Holding(p, m)'
      <3>1. m.type \notin Outside
        BY OutsideAssumption DEF SentTo
      <3>2. \A x : ~Holding(p, x) /\ ~Sending(c, x)
        BY <1>1, <1>3, NothingSent
      <3> QED
        BY <1>1, <3>1, <3>2, HoldingFrom
    <2> QED
      BY <2>4, <2>5, <2>6 DEF DirectionInv
  <1>4. CASE Has(c)
    <2>1. Has(c)' /\ (IsPull' <=> IsPull)
      BY <1>4, DirectionFixed
    <2>2. ASSUME Has(p)'
          PROVE  Row(p)'.direction = "PULL" <=> IsPull
      <3>1. CASE Has(p)
        BY <1>1, <3>1, RowsForward DEF Forward, DirectionInv
      <3>2. CASE ~Has(p)
        <4>1. \E k \in Slots : CreateTransfer(p, k)
          <5>1. ~RowKept(p) /\ ~Commit(p) /\ ~Terminate(p) /\ \A k \in Slots : ~HandlerStore(p, k)
            BY <1>1, <2>2, <3>2, CommitEffect, TerminateEffect, StoreEffect DEF RowKept
          <5> QED
            BY <1>1, <5>1, RowSteps
        <4> QED
          BY <2>2, <3>2, <4>1, CreatedDirection
      <3> QED
        BY <3>1, <3>2
    <2>3. ASSUME NEW e \in EntriesOf(c), Sending(c, e)'
          PROVE  e.msg.address = {} <=> IsPull
      <3>1. ~Begin
        BY <1>4, BeginEffect
      <3>2. ASSUME NEW k \in Slots, HandlerProcess(c, k)
            PROVE  DOMAIN http'[c][k].ops = {}
        <4>1. http'[c][k].pc = "ready"
          BY <1>1, <3>2, ProcessEffect, ZenonT(60)
        <4>2. http'[c][k].ops \in OpsOf(c)
          <5>1. http'[c][k] \in HandlersOf(c)
            BY <1>1 DEF HandlersShape
          <5> QED
            BY <4>1, <5>1 DEF HandlersOf, Idle
        <4>3. http'[c][k].ops = <<>>
          BY <4>2 DEF OpsOf
        <4> QED
          BY <4>3
      <3>3. Sending(c, e)
        BY <1>1, <2>3, <3>1, <3>2, SendingFrom
      <3> QED
        BY <3>3 DEF DirectionInv
    <2>4. ASSUME NEW m \in SentTo(p), Holding(p, m)'
          PROVE  m.address = {} <=> IsPull
      <3>1. m.type \notin Outside
        BY OutsideAssumption DEF SentTo
      <3>2. Holding(p, m) \/ \E e \in EntriesOf(c) : Sending(c, e) /\ e.msg = m
        BY <1>1, <2>4, <3>1, HoldingFrom
      <3> QED
        BY <3>2 DEF DirectionInv
    <2>5. IsPull /\ Row(c)'.state \in {"INITIAL", "REQUESTED"} => Row(c)'.publishInfo = {}
      BY <1>4, NoInfoBefore
    <2> QED
      BY <2>1, <2>2, <2>3, <2>4, <2>5 DEF DirectionInv
  <1> QED
    BY <1>2, <1>3, <1>4

\* The messages from outside are remembered.
LEMMA OutsideSteps ==
  ASSUME BoundsShape, [Next]_vars
  PROVE  \/ outside' = outside
         \/ \E type \in Outside : outside' = Append(outside, type)
  <1>1. ASSUME NEW x \in Roles, Reconcile(x)
        PROVE  outside' = outside
    BY <1>1 DEF Reconcile, Take, Acquire, AcquireFails, Commit, Requeue, GiveUp, Terminate, SendHTTPRequest,
                SendFails, PanicHolding, PanicTerminating, bounds
  <1>2. ASSUME NEW x \in Roles, NEW y \in Slots, Handle(x, y)
        PROVE  outside' = outside
    BY <1>2 DEF Handle, CreateTransfer, HandlerLock, HandlerNotFound, HandlerProcess, HandlerReject,
                HandlerStore, bounds
  <1>3. ASSUME NEW x \in Roles,
               \/ SignalReturns(x) \/ SignalTransferComplete(x) \/ Poll(x) \/ Restart(x) \/ Crash(x)
        PROVE  outside' = outside
    BY <1>3 DEF SignalReturns, SignalTransferComplete, Poll, Restart, Crash, bounds
  <1>4. ASSUME NEW x \in Roles, NEW y \in Slots, HandlerCancelled(x, y)
        PROVE  outside' = outside
    BY <1>4 DEF HandlerCancelled, bounds
  <1>5. ASSUME NEW x \in Roles, NEW y \in Slots, Receive(x, y)
        PROVE  \E type \in Outside : outside' = Append(outside, type)
    BY <1>5 DEF Receive
  <1>6. CASE Begin \/ UNCHANGED vars
    BY <1>6 DEF Begin, vars, bounds
  <1> QED
    BY <1>1, <1>2, <1>3, <1>4, <1>5, <1>6 DEF Next, Progress

\* What a sequence holds after something is appended to it.
LEMMA AppendedRange ==
  ASSUME NEW S, NEW q \in Seq(S), NEW x \in S
  PROVE  Range(q) \subseteq Range(Append(q, x)) /\ x \in Range(Append(q, x))
  <1>1. \A i \in DOMAIN q : i \in DOMAIN Append(q, x) /\ Append(q, x)[i] = q[i]
    OBVIOUS
  <1>2. Len(q) + 1 \in DOMAIN Append(q, x) /\ Append(q, x)[Len(q) + 1] = x
    OBVIOUS
  <1> QED
    BY <1>1, <1>2 DEF Range

\* Without a completion what is served stays served.
LEMMA ServedStays ==
  ASSUME LockInv, EndpointInv, [Next]_vars,
         \A s \in Roles : \A m \in MessagesTo(s) : Holding(s, m) => m.type # "completion"
  PROVE  published \subseteq published'
  <1> USE DEF LockInv
  <1>1. ASSUME NEW s \in Roles, NEW k \in Slots, http[s][k].pc = "locked"
        PROVE  http[s][k].msg \in MessagesTo(s) /\ http[s][k].tr \in CopiesOf(s)
               /\ http[s][k].msg.type # "completion"
    <2>1. http[s][k].msg \in MessagesTo(s) /\ http[s][k].tr \in CopiesOf(s)
      BY <1>1, SlotShapes
    <2>2. Holding(s, http[s][k].msg)
      BY <1>1 DEF Holding
    <2> QED
      BY <2>1, <2>2
  <1>2. ASSUME NEW s \in Roles, NEW k \in Slots, http[s][k].pc = "locked",
               Recv(http[s][k].tr, http[s][k].msg).ok,
               NEW t \in AfterPublish(Recv(http[s][k].tr, http[s][k].msg).req, http[s][k].msg)
        PROVE  published \subseteq PublishedAfter(http[s][k], t)
    BY <1>1, <1>2, ServedAfter
  <1>3. ASSUME NEW s \in Roles, NEW k \in Slots, HandlerProcess(s, k)
        PROVE  published \subseteq published'
    <2>1. http[s][k].pc = "locked" /\ Recv(http[s][k].tr, http[s][k].msg).ok
      BY <1>3, ProcessEffect
    <2>2. PICK t \in AfterPublish(Recv(http[s][k].tr, http[s][k].msg).req, http[s][k].msg) :
            published' = PublishedAfter(http[s][k], t)
      BY <1>3 DEF HandlerProcess
    <2> QED
      BY <1>2, <2>1, <2>2
  <1>4. ASSUME NEW s \in Roles, NEW k \in Slots, HandlerReject(s, k)
        PROVE  published \subseteq published'
    <2> DEFINE h == http[s][k]
    <2>1. /\ h.pc = "locked"
          /\ \/ published' = PublishedAfterRecv(h.tr, h.msg)
             \/ published' = published
             \/ /\ Recv(h.tr, h.msg).ok
                /\ \E t \in AfterPublish(Recv(h.tr, h.msg).req, h.msg) : published' = PublishedAfter(h, t)
      BY <1>4 DEF HandlerReject
    <2>2. PublishedAfterRecv(h.tr, h.msg) = published
      BY <1>1, <2>1, ShutdownEffect DEF EndpointInv
    <2> QED
      BY <1>2, <2>1, <2>2
  <1> QED
    BY <1>3, <1>4, PublishSteps

\* The start that a provider makes of a pull offers what it has published.
LEMMA StartOffers ==
  ASSUME LockInv, NEW k \in Slots, HandlerProcess("provider", k), Row("provider").direction = "PULL",
         NEW i \in DOMAIN http'["provider"][k].ops
  PROVE  Offered(http["provider"][k].ops[i].entry.msg)'
  <1> DEFINE s == "provider"
             h == http[s][k]
  <1>1. s \in Roles
    BY DEF Roles
  <1>2. h.msg \in MessagesTo(s) /\ h.tr \in CopiesOf(s) /\ Recv(h.tr, h.msg).ok /\ h.tr = FromModel(Row(s), 1)
    BY <1>1, ProcessEffect
  <1>3. PICK t \in AfterPublish(Recv(h.tr, h.msg).req, h.msg) :
          /\ published' = PublishedAfter(h, t)
          /\ http'[s][k].pc = "ready" /\ http'[s][k].tr = t /\ http'[s][k].client = h.client
          /\ http'[s][k].ops = IF Sends(t, h.msg) THEN <<Operation(sendTransferStart(t))>> ELSE <<>>
          /\ Sends(t, h.msg) => CanMarshal(t)
    BY <1>1, ProcessEffect
  <1>4. h.tr.direction = "PULL"
    BY <1>2 DEF FromModel
  <1>5. Sends(t, h.msg)
    <2>1. DOMAIN <<>> = {}
      OBVIOUS
    <2> QED
      BY <1>3, <2>1
  <1>6. Publishes(t, h.msg) /\ \E info \in Infos : t.publishInfo = {info}
    BY <1>1, <1>2, <1>4, <1>5, Processed
  <1>7. PICK info \in Infos : t.publishInfo = {info}
    BY <1>6
  <1>8. [id |-> PublishId(t), info |-> info] \in published'
    BY <1>3, <1>6, <1>7 DEF PublishedAfter
  <1>9. http'[s][k].ops[i] = Operation(sendTransferStart(t))
    BY <1>3, <1>5
  <1>10. http'[s][k].ops[i].entry.msg.address = {publishInfoToDataAddress(j) : j \in t.publishInfo}
    BY <1>9 DEF Operation, sendTransferStart, makeTransferRequestFunction
  <1>11. http'[s][k].ops[i].entry.msg.address = {publishInfoToDataAddress(info)}
    BY <1>7, <1>10
  <1>12. ValidAddress(publishInfoToDataAddress(info))
    BY <1>3, <1>5, <1>7 DEF CanMarshal
  <1> DEFINE e == [id |-> PublishId(t), info |-> info]
  <1>13. e.info = info
    OBVIOUS
  <1> HIDE DEF e
  <1>14. e \in published'
    BY <1>8 DEF e
  <1> QED
    BY <1>11, <1>12, <1>13, <1>14 DEF Offered

\* What a message offers is what its receiver is given.
LEMMA OfferedIsGiven ==
  ASSUME EndpointInv, NEW m, Offered(m)
  PROVE  Given(InfoOfAddress(m))
  <1>1. PICK e \in published : m.address = {publishInfoToDataAddress(e.info)}
    BY DEF Offered
  <1>2. e.info \in Infos
    BY DEF EndpointInv
  <1>3. InfoOfAddress(m) = {DataAddressToPublishInfo(publishInfoToDataAddress(e.info))}
    BY <1>1 DEF InfoOfAddress
  <1>4. SameAccess(DataAddressToPublishInfo(publishInfoToDataAddress(e.info)), e.info)
    BY <1>2, AddressRoundTrip, InfosAssumption
  <1> QED
    BY <1>3, <1>4 DEF Given

\* The consumer that handles the start of a pull is given what is served.
LEMMA StartGives ==
  ASSUME LockInv, EndpointInv, DirectionInv, IsPull, published \subseteq published',
         \A m \in SentTo("consumer") : Holding("consumer", m) => Offered(m),
         NEW k \in Slots, HandlerProcess("consumer", k), http'["consumer"][k].tr.state = "STARTED"
  PROVE  http'["consumer"][k].tr.ppid = 2 /\ Given(http["consumer"][k].tr.publishInfo)'
  <1> DEFINE s == "consumer"
             h == http[s][k]
  <1>1. s \in Roles
    BY DEF Roles
  <1>2. /\ h.msg \in MessagesTo(s) /\ h.tr \in CopiesOf(s) /\ Recv(h.tr, h.msg).ok
        /\ h.tr = FromModel(Row(s), 1) /\ h.pc = "locked"
    BY <1>1, ProcessEffect
  <1>3. PICK t \in AfterPublish(Recv(h.tr, h.msg).req, h.msg) :
          /\ published' = PublishedAfter(h, t)
          /\ http'[s][k].pc = "ready" /\ http'[s][k].tr = t /\ http'[s][k].client = h.client
          /\ http'[s][k].ops = IF Sends(t, h.msg) THEN <<Operation(sendTransferStart(t))>> ELSE <<>>
          /\ Sends(t, h.msg) => CanMarshal(t)
    BY <1>1, ProcessEffect
  <1>4. h.msg.type = "start"
    BY <1>1, ProcessedState
  <1>5. /\ h.tr.state = "REQUESTED" /\ t.ppid = 2
        /\ t.publishInfo = IF h.tr.publishInfo = {} THEN InfoOfAddress(h.msg) ELSE h.tr.publishInfo
    BY <1>1, <1>2, <1>4, Processed
  <1>6. h.tr.publishInfo = {}
    BY <1>2, <1>5 DEF DirectionInv, FromModel
  <1>7. h.msg \in SentTo(s)
    BY <1>2, <1>4 DEF MessagesTo
  <1>8. Given(t.publishInfo)
    <2>1. Holding(s, h.msg)
      BY <1>2 DEF Holding
    <2>2. Given(InfoOfAddress(h.msg))
      BY <1>7, <2>1, OfferedIsGiven
    <2> QED
      BY <1>5, <1>6, <2>2
  <1> QED
    BY <1>3, <1>5, <1>8 DEF Given

\* Every step keeps DataInv.
LEMMA NextData ==
  ASSUME LockInv, LockInv', EndpointInv, MovesInv, BoundsShape, DirectionInv, DataInv, [Next]_vars
  PROVE  DataInv'
  <1> USE DEF LockInv
  <1> DEFINE p == "provider"
             c == "consumer"
  <1>1. p \in Roles /\ c \in Roles /\ Peer(p) = c /\ Peer(c) = p /\ c # p
    BY DEF Roles, Peer
  <1> SUFFICES ASSUME "completion" \notin Range(outside)'
               PROVE  DataInv'
    BY DEF DataInv
  <1>2. /\ "completion" \notin Range(outside)
        /\ \A x : x \in Outside /\ outside' = Append(outside, x) => x # "completion"
    <2>1. outside \in Seq(Outside)
      BY DEF BoundsShape
    <2> QED
      BY <2>1, OutsideSteps, AppendedRange
  <1>3. \A s \in Roles : \A m \in MessagesTo(s) : Holding(s, m) => m.type # "completion"
    BY <1>2 DEF DataInv
  <1>4. ASSUME NEW s \in Roles, NEW m \in MessagesTo(s), Holding(s, m)'
        PROVE  m.type # "completion"
    <2>1. m \in SentTo(s) => m.type # "completion"
      BY DEF SentTo
    <2> QED
      BY <1>2, <1>3, <1>4, <2>1, HoldingFrom
  <1>5. published \subseteq published'
    BY <1>3, ServedStays
  <1>6. /\ \A infos : Given(infos) => Given(infos)'
        /\ \A m : Offered(m) => Offered(m)'
    BY <1>5 DEF Given, Offered
  <1>7. CASE ~Has(c)
    <2> SUFFICES ASSUME IsPull'
                 PROVE  /\ \A s \in Roles : \A x : ~Sending(p, x)' /\ ~Holding(c, x)'
                        /\ Row(c)'.state = "INITIAL"
                        /\ \A k \in Slots : http'[c][k].pc # "ready"
      BY <1>1, <1>4 DEF DataInv
    <2>1. Begin
      BY <1>7, BegunByBegin DEF IsPull
    <2>2. http' = http /\ worker' = worker /\ \E q : queue' = [queue EXCEPT ![c] = q]
      BY <2>1 DEF Begin
    <2>3. queue'[p] = queue[p]
      BY <1>1, <2>2 DEF WorkersShape
    <2>4. Row(c)'.state = "INITIAL"
      BY <1>1, <2>1, NewRow DEF IsPull
    <2>5. \A x : ~Sending(p, x) /\ ~Holding(c, x)
      BY <1>1, <1>7, NothingSent
    <2>6. \A x : ~Sending(p, x)' /\ ~Holding(c, x)'
      BY <2>2, <2>3, <2>5 DEF Sending, Holding
    <2>7. \A k \in Slots : http[c][k].pc # "ready"
      BY <1>1, <1>7 DEF QuietBefore, Idle
    <2> QED
      BY <2>2, <2>4, <2>6, <2>7
  <1>8. CASE Has(c) /\ ~IsPull
    <2>1. ~IsPull'
      BY <1>8, DirectionFixed
    <2> QED
      BY <1>4, <2>1 DEF DataInv
  <1>9. CASE Has(c) /\ IsPull
    <2>1. /\ \A e \in EntriesOf(p) : Sending(p, e) => Offered(e.msg)
          /\ \A m \in SentTo(c) : Holding(c, m) => Offered(m)
          /\ Row(c).state = "STARTED" => Row(c).ppid = 2 /\ Given(Row(c).publishInfo)
          /\ \A k \in Slots : http[c][k].pc = "ready" /\ http[c][k].tr.state = "STARTED" =>
               http[c][k].tr.ppid = 2 /\ Given(http[c][k].tr.publishInfo)
      BY <1>2, <1>9 DEF DataInv
    <2>2. ASSUME NEW e \in EntriesOf(p), Sending(p, e)'
          PROVE  Offered(e.msg)'
      <3>1. ASSUME NEW k \in Slots, HandlerProcess(p, k), NEW i \in DOMAIN http'[p][k].ops,
                   http'[p][k].ops[i].entry = e
            PROVE  Offered(e.msg)'
        <4>1. Row(p).direction = "PULL"
          BY <1>1, <1>9, <3>1, ProcessEffect DEF DirectionInv
        <4>2. Offered(http[p][k].ops[i].entry.msg)'
          BY <3>1, <4>1, StartOffers
        <4> QED
          BY <3>1, <4>2
      <3>2. Sending(p, e) => Offered(e.msg)'
        BY <1>6, <2>1
      <3> QED
        BY <1>1, <2>2, <3>1, <3>2, SendingFrom
    <2>3. ASSUME NEW m \in SentTo(c), Holding(c, m)'
          PROVE  Offered(m)'
      <3>1. m.type \notin Outside
        BY OutsideAssumption DEF SentTo
      <3>2. Holding(c, m) \/ \E e \in EntriesOf(p) : Sending(p, e) /\ e.msg = m
        BY <1>1, <2>3, <3>1, HoldingFrom
      <3> QED
        BY <1>6, <2>1, <3>2
    <2>4. ASSUME Row(c)'.state = "STARTED"
          PROVE  Row(c)'.ppid = 2 /\ Given(Row(c).publishInfo)'
      <3>1. CASE RowKept(c)
        BY <1>6, <1>9, <2>1, <2>4, <3>1 DEF RowKept, SameData
      <3>2. ~Begin /\ \A k \in Slots : ~CreateTransfer(c, k)
        BY <1>1, <1>9, BeginEffect, CreateEffect
      <3>3. ASSUME NEW k \in Slots, HandlerStore(c, k)
            PROVE  Row(c)'.ppid = 2 /\ Given(Row(c).publishInfo)'
        <4>1. http[c][k].pc = "ready" /\ Row(c)' = ToModel(http[c][k].tr)
          BY <1>1, <3>3, StoreEffect
        <4>2. /\ http[c][k].tr.state = "STARTED" /\ Row(c)'.ppid = http[c][k].tr.ppid
              /\ Row(c)'.publishInfo = http[c][k].tr.publishInfo
          BY <2>4, <4>1 DEF ToModel
        <4> QED
          BY <1>6, <2>1, <4>1, <4>2
      <3>4. ~Commit(c)
        <4>1. Commit(c) => Row(c)' = ToModel(worker[c].tr) /\ worker[c].tr.state = "REQUESTED"
          BY <1>1, CommitEffect
        <4> QED
          BY <2>4, <4>1 DEF ToModel
      <3>5. ~Terminate(c)
        BY <1>1, <2>4, TerminateTarget DEF Target
      <3> QED
        BY <1>1, <3>1, <3>2, <3>3, <3>4, <3>5, RowSteps
    <2>5. ASSUME NEW k \in Slots, http'[c][k].pc = "ready", http'[c][k].tr.state = "STARTED"
          PROVE  http'[c][k].tr.ppid = 2 /\ Given(http[c][k].tr.publishInfo)'
      <3>1. CASE HandlerProcess(c, k)
        BY <1>5, <1>9, <2>1, <2>5, <3>1, StartGives
      <3>2. CASE http[c][k].pc = "ready" /\ http'[c][k].tr = http[c][k].tr
        BY <1>6, <2>1, <2>5, <3>2
      <3> QED
        BY <1>1, <2>5, <3>1, <3>2, ReadyFrom
    <2> QED
      BY <1>4, <2>2, <2>3, <2>4, <2>5 DEF DataInv
  <1> QED
    BY <1>7, <1>8, <1>9

\* Every behaviour keeps DirectionInv.
THEOREM DirectionInvariant == Spec => []DirectionInv
  <1>1. Init => DirectionInv
    <2> SUFFICES ASSUME Init PROVE DirectionInv
      OBVIOUS
    <2>1. "consumer" \in Roles /\ "provider" \in Roles
      BY DEF Roles
    <2>2. ~Has("provider") /\ ~Has("consumer")
      BY <2>1 DEF Init, Has
    <2>3. \A x : ~Sending("consumer", x) /\ ~Holding("provider", x)
      BY <2>1, <2>2, InitLock, NothingSent DEF LockInv
    <2> QED
      BY <2>2, <2>3 DEF DirectionInv, IsPull
  <1>2. LockInv /\ LockInv' /\ MovesInv /\ DirectionInv /\ [Next]_vars => DirectionInv'
    BY NextDirection
  <1> QED
    BY <1>1, <1>2, LockInvariant, MovesInvariant, PTL DEF Spec

\* Every behaviour keeps DataInv.
THEOREM DataInvariant == Spec => []DataInv
  <1>1. Init => DataInv
    <2> SUFFICES ASSUME Init PROVE DataInv
      OBVIOUS
    <2>1. "consumer" \in Roles
      BY DEF Roles
    <2>2. ~Has("consumer")
      BY <2>1 DEF Init, Has
    <2>3. \A s \in Roles : \A x : ~Holding(s, x)
      BY <2>1, <2>2, InitLock, NothingSent DEF LockInv
    <2> QED
      BY <2>2, <2>3 DEF DataInv, IsPull
  <1>2. LockInv /\ LockInv' /\ EndpointInv /\ MovesInv /\ BoundsShape /\ DirectionInv /\ DataInv
          /\ [Next]_vars => DataInv'
    BY NextData
  <1> QED
    BY <1>1, <1>2, LockInvariant, EndpointInvariant, MovesInvariant, BoundsInvariant, DirectionInvariant,
       PTL DEF Spec

\* The consumer of a pull that has started was given an endpoint that its
\* provider serves, whatever was lost, retried, timed out or restarted, until
\* somebody sends a completion.
THEOREM TransferDataAvailable == Spec => []DataAvailable
  <1>1. LockInv /\ EndpointInv /\ DataInv => DataAvailable
    <2> SUFFICES ASSUME LockInv, EndpointInv, DataInv, NEW h \in Halves, h[1].state = "STARTED",
                        h[1].direction = "PULL", "completion" \notin Range(outside)
                 PROVE  \E e \in published :
                          /\ h[1].ppid = h[2].ppid /\ h[1].ppid = e.id
                          /\ \E i \in h[1].publishInfo : SameAccess(i, e.info)
      BY DEF DataAvailable
    <2>1. Has("consumer") /\ h[1] = Row("consumer") /\ Has("provider") /\ h[2] = Row("provider")
      BY HalvesAreRows
    <2>2. h[1].ppid = 2 /\ Given(h[1].publishInfo)
      BY <2>1 DEF DataInv, IsPull
    <2>3. h[2].ppid = 2
      BY <2>1, OneRow DEF LockInv, Roles, RowsOf, PpidsOf
    <2>4. \A e \in published : e.id = 2
      BY DEF EndpointInv
    <2> QED
      BY <2>2, <2>3, <2>4 DEF Given
  <1> QED
    BY <1>1, LockInvariant, EndpointInvariant, DataInvariant, PTL

=============================================================================
