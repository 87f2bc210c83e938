----------------------- MODULE NegotiationPeersProofs -----------------------
(***************************************************************************)
(* Proofs about NegotiationPeers for any number of requests served at the  *)
(* same time, any start of the negotiation, any services and any bounds.   *)
(***************************************************************************)
EXTENDS NegotiationPeers, NegotiationProofs

-----------------------------------------------------------------------------
(* The shape of the state, over the IDs drawn so far                       *)

Locks == {"free", "worker", "leaked"} \cup Slots

RowsOver(s, I) ==
  [ lock: Locks, state: States, ppid: PpidsOver(s, I), cpid: CpidsOver(s, I), agreement: I,
    callback: Bases, self: Bases, role: {s}, autoAccept: BOOLEAN ]

OperationsOver(s, I) == [entry: EntriesOver(s, I), attempts: 0..MaxAttempts]
QueuedOver(s, I) == [entry: EntriesOver(s, I), attempts: 0..(MaxAttempts - 1)]

AcksOver(I) == [ppid: I, cpid: I]

\* The requests that connector s serves come from its peer's reconciler.
RequestsOver(s, I) == [base: Bases, pid: I, msg: MessagesOver(Peer(s), I)]

Busy == {"send", "wait", "answered", "httpError"}

WorkersOver(s, I) ==
  {Idle}
    \cup [pc: {"acquire", "failed", "terminate"}, op: OperationsOver(s, I)]
    \cup [pc: {"send"}, op: OperationsOver(s, I), neg: CopiesOver(s, I)]
    \cup [pc: {"wait"}, op: OperationsOver(s, I), neg: CopiesOver(s, I), slot: Slots]
    \cup [pc: {"answered", "httpError"}, op: OperationsOver(s, I), neg: CopiesOver(s, I),
          ack: AcksOver(I)]

HandlersOver(s, I) ==
  {Idle}
    \cup [pc: {"arrived"}, live: BOOLEAN, req: RequestsOver(s, I)]
    \cup [pc: {"lock"}, live: BOOLEAN, req: RequestsOver(s, I),
          route: {"any", "consumer", "provider"}, pid: I]
    \cup [pc: {"locked"}, live: BOOLEAN, req: RequestsOver(s, I), neg: CopiesOver(s, I)]
    \cup [pc: {"stored", "apply"}, live: BOOLEAN, req: RequestsOver(s, I),
          neg: CopiesOver(s, I), entries: Seq(EntriesOver(s, I))]

ControlsOver(s, I) ==
  {Idle} \cup [pc: {"stored"}, neg: CopiesOver(s, I), entries: Seq(EntriesOver(s, I))]

StoreShape(I) ==
  /\ DOMAIN table = Roles /\ \A s \in Roles : table[s] \in Seq(RowsOver(s, I))
  /\ DOMAIN agreements = Roles /\ \A s \in Roles : agreements[s] \subseteq I

QueuesShape(I) == DOMAIN queue = Roles /\ \A s \in Roles : queue[s] \in Seq(QueuedOver(s, I))

WorkersShape(I) == DOMAIN worker = Roles /\ \A s \in Roles : worker[s] \in WorkersOver(s, I)

HandlersShape(I) ==
  /\ DOMAIN http = Roles
  /\ \A s \in Roles : DOMAIN http[s] = Slots /\ \A k \in Slots : http[s][k] \in HandlersOver(s, I)

ControlsShape(I) ==
  DOMAIN control = Roles /\ \A s \in Roles : control[s] \in ControlsOver(s, I)

\* A process that is down has no memory.
DownIsEmpty ==
  /\ up \in [Roles -> BOOLEAN]
  /\ \A s \in Roles : ~up[s] => /\ queue[s] = <<>> /\ worker[s] = Idle /\ control[s] = Idle
                                /\ \A k \in Slots : http[s][k] = Idle

\* A request whose client still listens is the one its peer's worker waits for.
Waiting ==
  \A s \in Roles :
    /\ \A k \in Slots : http[s][k] # Idle /\ http[s][k].live =>
         worker[Peer(s)].pc = "wait" /\ worker[Peer(s)].slot = k
    /\ worker[s].pc = "wait" =>
         http[Peer(s)][worker[s].slot] # Idle /\ http[Peer(s)][worker[s].slot].live

\* Whoever works on a copy has locked its row, and the copy is what the row
\* says, in the state the worker is about to store.
HandlerHolds(s, k) ==
  LET h == http[s][k] IN
  h.pc = "locked" =>
    /\ h.neg.id \in DOMAIN table[s] /\ table[s][h.neg.id].lock = k
    /\ h.neg = FromModel(table[s][h.neg.id], h.neg.id)

WorkerHolds(s) ==
  LET w == worker[s] IN
  w.pc \in Busy =>
    /\ w.neg.id \in DOMAIN table[s] /\ table[s][w.neg.id].lock = "worker"
    /\ w.neg = SetState(FromModel(table[s][w.neg.id], w.neg.id), w.op.entry.target)
    /\ w.op.entry.target \in validTransitions[table[s][w.neg.id].state]

LockOver(I) ==
  /\ emptyUUID \in I
  /\ StoreShape(I) /\ QueuesShape(I) /\ WorkersShape(I) /\ HandlersShape(I) /\ ControlsShape(I)
  /\ DownIsEmpty /\ Waiting
  /\ \A s \in Roles : WorkerHolds(s) /\ \A k \in Slots : HandlerHolds(s, k)

LockInv == uuid \in Nat \ {0} /\ LockOver(IDs)

\* The part of RowsMoveForward that is about one row.
ForwardRow(r, r1) ==
  /\ r1.state \in {r.state} \cup validTransitions[r.state]
  /\ r.state # "INITIAL" => KeepsPIDs(r, r1)

AllForward ==
  \A s \in Roles : \A i \in DOMAIN table[s] : ForwardRow(table[s][i], table'[s][i])

\* Steps are looked at over a set of IDs that has the one they may draw.
Before(I) ==
  LockOver(I) /\ uuid \in Nat \ {0} /\ (uuid' # uuid => uuid \in I)

-----------------------------------------------------------------------------
(* Rows, copies and entries                                                *)

\* Everything grows with the set of IDs.
LEMMA ShapesGrow ==
  ASSUME NEW I, NEW J, I \subseteq J, NEW s \in Roles
  PROVE  /\ RowsOver(s, I) \subseteq RowsOver(s, J)
         /\ OperationsOver(s, I) \subseteq OperationsOver(s, J)
         /\ QueuedOver(s, I) \subseteq QueuedOver(s, J)
         /\ WorkersOver(s, I) \subseteq WorkersOver(s, J)
         /\ HandlersOver(s, I) \subseteq HandlersOver(s, J)
         /\ ControlsOver(s, I) \subseteq ControlsOver(s, J)
  <1>1. Peer(s) \in Roles
    BY DEF Peer, Roles
  <1>2. /\ CopiesOver(s, I) \subseteq CopiesOver(s, J)
        /\ EntriesOver(s, I) \subseteq EntriesOver(s, J)
        /\ MessagesOver(Peer(s), I) \subseteq MessagesOver(Peer(s), J)
    BY <1>1, CopiesGrow
  <1>3. PpidsOver(s, I) \subseteq PpidsOver(s, J) /\ CpidsOver(s, I) \subseteq CpidsOver(s, J)
    BY DEF PpidsOver, CpidsOver
  <1>4. RowsOver(s, I) \subseteq RowsOver(s, J)
    BY <1>3 DEF RowsOver
  <1>5. /\ OperationsOver(s, I) \subseteq OperationsOver(s, J)
        /\ QueuedOver(s, I) \subseteq QueuedOver(s, J)
    BY <1>2 DEF OperationsOver, QueuedOver
  <1>6. WorkersOver(s, I) \subseteq WorkersOver(s, J)
    <2>1. AcksOver(I) \subseteq AcksOver(J)
      BY DEF AcksOver
    <2> DEFINE A == OperationsOver(s, I)  B == OperationsOver(s, J)
               C == CopiesOver(s, I)      D == CopiesOver(s, J)
    <2>2. A \subseteq B /\ C \subseteq D
      BY <1>2, <1>5
    <2> HIDE DEF A, B, C, D
    <2>3. ASSUME NEW w \in {Idle}
                   \cup [pc: {"acquire", "failed", "terminate"}, op: A]
                   \cup [pc: {"send"}, op: A, neg: C]
                   \cup [pc: {"wait"}, op: A, neg: C, slot: Slots]
                   \cup [pc: {"answered", "httpError"}, op: A, neg: C, ack: AcksOver(I)]
          PROVE  w \in {Idle}
                   \cup [pc: {"acquire", "failed", "terminate"}, op: B]
                   \cup [pc: {"send"}, op: B, neg: D]
                   \cup [pc: {"wait"}, op: B, neg: D, slot: Slots]
                   \cup [pc: {"answered", "httpError"}, op: B, neg: D, ack: AcksOver(J)]
      BY <2>1, <2>2
    <2> QED
      BY <2>3 DEF WorkersOver, A, B, C, D
  <1>7. Seq(EntriesOver(s, I)) \subseteq Seq(EntriesOver(s, J))
    BY <1>2, SeqMonotonic
  <1>8. RequestsOver(s, I) \subseteq RequestsOver(s, J)
    BY <1>2 DEF RequestsOver
  <1>9. HandlersOver(s, I) \subseteq HandlersOver(s, J) /\ ControlsOver(s, I) \subseteq ControlsOver(s, J)
    <2> DEFINE A == RequestsOver(s, I)     B == RequestsOver(s, J)
               C == CopiesOver(s, I)       D == CopiesOver(s, J)
               E == Seq(EntriesOver(s, I)) F == Seq(EntriesOver(s, J))
    <2>1. A \subseteq B /\ C \subseteq D /\ E \subseteq F
      BY <1>2, <1>7, <1>8
    <2> HIDE DEF A, B, C, D, E, F
    <2>2. ASSUME NEW h \in {Idle}
                   \cup [pc: {"arrived"}, live: BOOLEAN, req: A]
                   \cup [pc: {"lock"}, live: BOOLEAN, req: A,
                         route: {"any", "consumer", "provider"}, pid: I]
                   \cup [pc: {"locked"}, live: BOOLEAN, req: A, neg: C]
                   \cup [pc: {"stored", "apply"}, live: BOOLEAN, req: A, neg: C, entries: E]
          PROVE  h \in {Idle}
                   \cup [pc: {"arrived"}, live: BOOLEAN, req: B]
                   \cup [pc: {"lock"}, live: BOOLEAN, req: B,
                         route: {"any", "consumer", "provider"}, pid: J]
                   \cup [pc: {"locked"}, live: BOOLEAN, req: B, neg: D]
                   \cup [pc: {"stored", "apply"}, live: BOOLEAN, req: B, neg: D, entries: F]
      BY <2>1
    <2>3. HandlersOver(s, I) \subseteq HandlersOver(s, J)
      BY <2>2 DEF HandlersOver, A, B, C, D, E, F
    <2>4. ControlsOver(s, I) \subseteq ControlsOver(s, J)
      BY <2>1 DEF ControlsOver, C, D, E, F
    <2> QED
      BY <2>3, <2>4
  <1> QED
    BY <1>4, <1>5, <1>6, <1>9

\* The lock invariant holds over more IDs too.
LEMMA LockGrows ==
  ASSUME NEW I, NEW J, I \subseteq J, LockOver(I)
  PROVE  LockOver(J)
  <1>1. StoreShape(J)
    <2>1. ASSUME NEW s \in Roles PROVE table[s] \in Seq(RowsOver(s, J)) /\ agreements[s] \subseteq J
      BY ShapesGrow, SeqMonotonic DEF LockOver, StoreShape
    <2> QED
      BY <2>1 DEF LockOver, StoreShape
  <1>2. QueuesShape(J)
    <2>1. ASSUME NEW s \in Roles PROVE queue[s] \in Seq(QueuedOver(s, J))
      BY ShapesGrow, SeqMonotonic DEF LockOver, QueuesShape
    <2> QED
      BY <2>1 DEF LockOver, QueuesShape
  <1>3. WorkersShape(J) /\ HandlersShape(J) /\ ControlsShape(J)
    BY ShapesGrow DEF LockOver, WorkersShape, HandlersShape, ControlsShape
  <1> QED
    BY <1>1, <1>2, <1>3 DEF LockOver

\* Rows and copies are made of each other.
LEMMA ModelShapes ==
  ASSUME NEW s \in Roles, NEW I
  PROVE  /\ \A r \in RowsOver(s, I), i \in Nat : FromModel(r, i) \in CopiesOver(s, I)
         /\ \A n \in CopiesOver(s, I) : ToModel(n) \in RowsOver(s, I)
         /\ \A r \in RowsOver(s, I), o \in Locks : [r EXCEPT !.lock = o] \in RowsOver(s, I)
         /\ \A r \in RowsOver(s, I), t \in States : [r EXCEPT !.state = t] \in RowsOver(s, I)
  <1>1. \A r \in RowsOver(s, I), i \in Nat : FromModel(r, i) \in CopiesOver(s, I)
    BY DEF FromModel, RowsOver, CopiesOver
  <1>2. \A n \in CopiesOver(s, I) : ToModel(n) \in RowsOver(s, I)
    BY DEF ToModel, RowsOver, CopiesOver, Locks
  <1>3. \A r \in RowsOver(s, I), o \in Locks : [r EXCEPT !.lock = o] \in RowsOver(s, I)
    BY DEF RowsOver
  <1>4. \A r \in RowsOver(s, I), t \in States : [r EXCEPT !.state = t] \in RowsOver(s, I)
    BY DEF RowsOver
  <1> QED
    BY <1>1, <1>2, <1>3, <1>4

\* What is known of a row that is there.
LEMMA RowShapes ==
  ASSUME NEW I, StoreShape(I), NEW s \in Roles, NEW i \in DOMAIN table[s]
  PROVE  /\ table[s][i] \in RowsOver(s, I) /\ i \in Nat \ {0} /\ i \in 1..Len(table[s])
         /\ FromModel(table[s][i], i) \in CopiesOver(s, I)
         /\ table[s][i].state \in States /\ table[s][i].role = s /\ table[s][i].lock \in Locks
  <1>1. table[s] \in Seq(RowsOver(s, I))
    BY DEF StoreShape
  <1>2. i \in 1..Len(table[s]) /\ i \in Nat \ {0} /\ table[s][i] \in RowsOver(s, I)
    BY <1>1, LenProperties, ElementOfSeq
  <1>3. FromModel(table[s][i], i) \in CopiesOver(s, I)
    BY <1>2, ModelShapes
  <1> QED
    BY <1>2, <1>3 DEF RowsOver

\* What is known of a slot and of a worker.
LEMMA SlotShapes ==
  ASSUME NEW I, HandlersShape(I), NEW s \in Roles, NEW k \in Slots
  PROVE  LET h == http[s][k] IN
         /\ h \in HandlersOver(s, I)
         /\ h.pc \in {"idle", "arrived", "lock", "locked", "stored", "apply"}
         /\ h.pc = "idle" <=> h = Idle
         /\ h.pc # "idle" => h.live \in BOOLEAN /\ h.req \in RequestsOver(s, I)
         /\ h.pc = "lock" => h.pid \in I /\ h.route \in {"any", "consumer", "provider"}
         /\ h.pc \in {"locked", "stored", "apply"} => h.neg \in CopiesOver(s, I)
         /\ h.pc \in {"stored", "apply"} => h.entries \in Seq(EntriesOver(s, I))
  BY DEF HandlersShape, HandlersOver, Idle

LEMMA WorkerShapes ==
  ASSUME NEW I, WorkersShape(I), NEW s \in Roles
  PROVE  LET w == worker[s] IN
         /\ w.pc \in {"idle", "acquire", "failed", "terminate"} \cup Busy
         /\ w.pc = "idle" <=> w = Idle
         /\ w.pc # "idle" => w.op \in OperationsOver(s, I)
         /\ w.pc \in Busy => w.neg \in CopiesOver(s, I)
         /\ w.pc = "wait" => w.slot \in Slots
         /\ w.pc = "answered" => w.ack \in AcksOver(I)
  BY DEF WorkersShape, WorkersOver, Idle, Busy

\* The entries of an applyFunc are appended as operations of no attempt yet.
LEMMA OperationsQueued ==
  ASSUME NEW s \in Roles, NEW I, NEW entries \in Seq(EntriesOver(s, I))
  PROVE  Operations(entries) \in Seq(QueuedOver(s, I))
  <1>1. DOMAIN entries = 1..Len(entries) /\ Len(entries) \in Nat
        /\ \A i \in 1..Len(entries) : entries[i] \in EntriesOver(s, I)
    BY LenProperties, ElementOfSeq
  <1>2. \A i \in 1..Len(entries) : [entry |-> entries[i], attempts |-> 0] \in QueuedOver(s, I)
    BY <1>1, BoundsAssumption DEF QueuedOver
  <1>3. Operations(entries) \in [1..Len(entries) -> QueuedOver(s, I)]
    BY <1>1, <1>2 DEF Operations
  <1> QED
    BY <1>1, <1>3, SeqDef

\* The deque of s gets longer.
LEMMA QueueGrows ==
  ASSUME NEW s \in Roles, NEW I, QueuesShape(I), NEW entries \in Seq(EntriesOver(s, I)),
         queue' = [queue EXCEPT ![s] = @ \o Operations(entries)]
  PROVE  /\ QueuesShape(I)' /\ \A x \in Roles : x # s => queue'[x] = queue[x]
  <1>1. Operations(entries) \in Seq(QueuedOver(s, I)) /\ queue[s] \in Seq(QueuedOver(s, I))
    BY OperationsQueued DEF QueuesShape
  <1>2. queue[s] \o Operations(entries) \in Seq(QueuedOver(s, I))
    BY <1>1, ConcatProperties
  <1> QED
    BY <1>2 DEF QueuesShape

-----------------------------------------------------------------------------
(* Writing rows                                                            *)

\* At most row i of connector s changes, and o has its lock until then.
RowChange(s, i, o) ==
  /\ \A x \in Roles : \A j \in DOMAIN table[x] :
       j \in DOMAIN table'[x] /\ (x # s \/ j # i => table'[x][j] = table[x][j])
  /\ table' = table \/ (i \in DOMAIN table[s] => table[s][i].lock = o)

RowBecomes(s, i, r) == table' = [table EXCEPT ![s][i] = r]

\* The row is written by the one action that has or needs its lock.
LEMMA RowWritten ==
  ASSUME NEW I, StoreShape(I), NEW s \in Roles, NEW i \in DOMAIN table[s],
         NEW r \in RowsOver(s, I), RowBecomes(s, i, r), agreements' = agreements
  PROVE  /\ StoreShape(I)' /\ RowChange(s, i, table[s][i].lock) /\ table'[s][i] = r
         /\ \A x \in Roles : DOMAIN table'[x] = DOMAIN table[x]
  <1>1. table[s] \in Seq(RowsOver(s, I)) /\ i \in 1..Len(table[s])
    BY RowShapes DEF StoreShape
  <1>2. [table[s] EXCEPT ![i] = r] \in Seq(RowsOver(s, I))
    BY <1>1, ExceptSeq
  <1>3. /\ table'[s] = [table[s] EXCEPT ![i] = r] /\ DOMAIN table' = Roles
        /\ \A x \in Roles : x # s => table'[x] = table[x]
    BY DEF StoreShape, RowBecomes
  <1>4. StoreShape(I)'
    BY <1>2, <1>3 DEF StoreShape
  <1>5. \A x \in Roles : DOMAIN table'[x] = DOMAIN table[x]
    BY <1>3
  <1>6. table'[s][i] = r /\ \A j \in DOMAIN table[s] : j # i => table'[s][j] = table[s][j]
    BY <1>3
  <1> QED
    BY <1>3, <1>4, <1>5, <1>6 DEF RowChange

\* Two rows that differ in the lock only.
SameData(r, r1) ==
  /\ r1.state = r.state /\ r1.ppid = r.ppid /\ r1.cpid = r.cpid /\ r1.agreement = r.agreement
  /\ r1.callback = r.callback /\ r1.self = r.self
  /\ \A i \in Nat : FromModel(r1, i) = FromModel(r, i)

\* SetLock changes the lock of the row and nothing else.
LEMMA LockWritten ==
  ASSUME NEW I, StoreShape(I), NEW s \in Roles, NEW i \in DOMAIN table[s], NEW o \in Locks,
         SetLock(s, i, o), agreements' = agreements
  PROVE  /\ StoreShape(I)' /\ RowChange(s, i, table[s][i].lock)
         /\ table'[s][i].lock = o /\ SameData(table[s][i], table'[s][i])
         /\ \A x \in Roles : DOMAIN table'[x] = DOMAIN table[x]
         /\ AllForward
  <1> DEFINE r == [table[s][i] EXCEPT !.lock = o]
  <1>1. table[s][i] \in RowsOver(s, I)
    BY RowShapes
  <1>2. r \in RowsOver(s, I) /\ r.lock = o /\ SameData(table[s][i], r)
    BY <1>1 DEF RowsOver, SameData, FromModel
  <1>3. RowBecomes(s, i, r)
    BY DEF SetLock, RowBecomes
  <1> HIDE DEF r
  <1>4. /\ StoreShape(I)' /\ RowChange(s, i, table[s][i].lock) /\ table'[s][i] = r
        /\ \A x \in Roles : DOMAIN table'[x] = DOMAIN table[x]
    BY <1>2, <1>3, RowWritten
  <1>5. AllForward
    BY <1>2, <1>4 DEF AllForward, RowChange, ForwardRow, SameData, KeepsPIDs
  <1> QED
    BY <1>2, <1>4, <1>5

\* A copy that moved its row forward is stored.
LEMMA CopyWritten ==
  ASSUME NEW I, StoreShape(I), NEW s \in Roles, NEW i \in DOMAIN table[s],
         NEW n \in CopiesOver(s, I), n.id = i, ForwardRow(table[s][i], n),
         Put(s, n), agreements' = agreements
  PROVE  /\ StoreShape(I)' /\ RowChange(s, i, table[s][i].lock)
         /\ table'[s][i] = ToModel(n)
         /\ \A x \in Roles : DOMAIN table'[x] = DOMAIN table[x]
         /\ AllForward
  <1>1. PICK r \in RowsOver(s, I) : r = ToModel(n)
    BY ModelShapes
  <1>2. RowBecomes(s, i, r)
    BY <1>1 DEF Put, RowBecomes
  <1>3. r.state = n.state /\ r.ppid = n.ppid /\ r.cpid = n.cpid
    BY <1>1 DEF ToModel
  <1>4. /\ StoreShape(I)' /\ RowChange(s, i, table[s][i].lock) /\ table'[s][i] = r
        /\ \A x \in Roles : DOMAIN table'[x] = DOMAIN table[x]
    BY <1>2, RowWritten
  <1>5. AllForward
    BY <1>3, <1>4 DEF AllForward, RowChange, ForwardRow, KeepsPIDs
  <1> QED
    BY <1>1, <1>4, <1>5

\* A table that does not change.
LEMMA TableKept ==
  ASSUME table' = table
  PROVE  /\ AllForward /\ \A s, i, o : RowChange(s, i, o)
         /\ \A I : StoreShape(I) /\ agreements' = agreements => StoreShape(I)'
  BY DEF AllForward, ForwardRow, KeepsPIDs, StoreShape, RowChange

\* Slot k of s works on the same copy as before, or on none.
SlotGoesOn(s, k) ==
  http'[s][k].pc = "locked" => http[s][k].pc = "locked" /\ http'[s][k].neg = http[s][k].neg

\* The worker of s works for the same entry as before, or for none.
WorkerGoesOn(s) ==
  worker'[s].pc \in Busy =>
    worker[s].pc \in Busy /\ worker'[s].op = worker[s].op /\ worker'[s].neg = worker[s].neg

\* Nobody but the owner of a row's lock notices that the row is written.
LEMMA HoldsKept ==
  ASSUME NEW I, LockOver(I), NEW s \in Roles, NEW i, NEW o, RowChange(s, i, o)
  PROVE  /\ \A x \in Roles, k \in Slots :
              SlotGoesOn(x, k) /\ (x = s => k # o) => HandlerHolds(x, k)'
         /\ \A x \in Roles :
              WorkerGoesOn(x) /\ (x = s => o # "worker") => WorkerHolds(x)'
         /\ table' = table =>
              /\ \A x \in Roles, k \in Slots : SlotGoesOn(x, k) => HandlerHolds(x, k)'
              /\ \A x \in Roles : WorkerGoesOn(x) => WorkerHolds(x)'
  <1>1. ASSUME NEW x \in Roles, NEW k \in Slots, SlotGoesOn(x, k), x = s /\ table' # table => k # o
        PROVE  HandlerHolds(x, k)'
    <2>1. SUFFICES ASSUME http'[x][k].pc = "locked"
                   PROVE  /\ http'[x][k].neg.id \in DOMAIN table'[x]
                          /\ table'[x][http'[x][k].neg.id].lock = k
                          /\ http'[x][k].neg =
                               FromModel(table'[x][http'[x][k].neg.id], http'[x][k].neg.id)
      BY DEF HandlerHolds
    <2> DEFINE j == http[x][k].neg.id
    <2>2. http[x][k].pc = "locked" /\ http'[x][k].neg = http[x][k].neg
      BY <1>1, <2>1 DEF SlotGoesOn
    <2>3. /\ j \in DOMAIN table[x] /\ table[x][j].lock = k
          /\ http[x][k].neg = FromModel(table[x][j], j)
      BY <2>2 DEF LockOver, HandlerHolds
    <2>4. j \in DOMAIN table'[x] /\ table'[x][j] = table[x][j]
      BY <1>1, <2>3 DEF RowChange
    <2> QED
      BY <2>2, <2>3, <2>4
  <1>2. ASSUME NEW x \in Roles, WorkerGoesOn(x), x = s /\ table' # table => o # "worker"
        PROVE  WorkerHolds(x)'
    <2>1. SUFFICES ASSUME worker'[x].pc \in Busy
                   PROVE  LET w == worker'[x] IN
                          /\ w.neg.id \in DOMAIN table'[x] /\ table'[x][w.neg.id].lock = "worker"
                          /\ w.neg = SetState(FromModel(table'[x][w.neg.id], w.neg.id), w.op.entry.target)
                          /\ w.op.entry.target \in validTransitions[table'[x][w.neg.id].state]
      BY DEF WorkerHolds
    <2> DEFINE j == worker[x].neg.id
    <2>2. worker[x].pc \in Busy /\ worker'[x].neg = worker[x].neg /\ worker'[x].op = worker[x].op
      BY <1>2, <2>1 DEF WorkerGoesOn
    <2>3. /\ j \in DOMAIN table[x] /\ table[x][j].lock = "worker"
          /\ worker[x].neg = SetState(FromModel(table[x][j], j), worker[x].op.entry.target)
          /\ worker[x].op.entry.target \in validTransitions[table[x][j].state]
      BY <2>2 DEF LockOver, WorkerHolds
    <2>4. j \in DOMAIN table'[x] /\ table'[x][j] = table[x][j]
      BY <1>2, <2>3 DEF RowChange
    <2> QED
      BY <2>2, <2>3, <2>4
  <1> QED
    BY <1>1, <1>2

-----------------------------------------------------------------------------
(* Moves of handlers and workers                                           *)

SlotBecomes(s, k, n) == http' = [http EXCEPT ![s][k] = n]
WorkerBecomes(s, n) == worker' = [worker EXCEPT ![s] = n]

\* The worker of connector s goes over to something else.
LEMMA WorkerWritten ==
  ASSUME NEW I, WorkersShape(I), NEW s \in Roles, NEW n \in WorkersOver(s, I), WorkerBecomes(s, n)
  PROVE  /\ WorkersShape(I)' /\ worker'[s] = n
         /\ \A x \in Roles : x # s => worker'[x] = worker[x]
  BY DEF WorkersShape, WorkerBecomes

\* A slot goes over to something else.
LEMMA SlotWritten ==
  ASSUME NEW I, HandlersShape(I), NEW s \in Roles, NEW k \in Slots,
         NEW n \in HandlersOver(s, I), SlotBecomes(s, k, n)
  PROVE  /\ HandlersShape(I)' /\ http'[s][k] = n
         /\ \A x \in Roles, y \in Slots : x # s \/ y # k => http'[x][y] = http[x][y]
  <1>1. http' = [http EXCEPT ![s][k] = n]
    BY DEF SlotBecomes
  <1> QED
    BY <1>1 DEF HandlersShape

\* A handler goes on with its request.
LEMMA SlotMoves ==
  ASSUME NEW I, LockOver(I), NEW s \in Roles, NEW k \in Slots, http[s][k].pc # "idle",
         NEW n \in HandlersOver(s, I), n # Idle, n.live = http[s][k].live,
         SlotBecomes(s, k, n), worker' = worker
  PROVE  /\ HandlersShape(I)' /\ WorkersShape(I)' /\ Waiting' /\ up[s] /\ http'[s][k] = n
         /\ \A x \in Roles, y \in Slots : x # s \/ y # k => http'[x][y] = http[x][y]
         /\ \A x \in Roles : WorkerGoesOn(x)
         /\ \A x \in Roles, y \in Slots : x # s \/ y # k => SlotGoesOn(x, y)
  <1>1. /\ HandlersShape(I)' /\ http'[s][k] = n
        /\ \A x \in Roles, y \in Slots : x # s \/ y # k => http'[x][y] = http[x][y]
    <2>1. HandlersShape(I)
      BY DEF LockOver
    <2>2. http' = [http EXCEPT ![s][k] = n]
      BY DEF SlotBecomes
    <2> QED
      BY <2>1, <2>2 DEF HandlersShape
  <1>2. http[s][k] # Idle
    BY DEF Idle
  <1>3. \A x \in Roles : worker[x].pc = "wait" => worker[x].slot \in Slots
    BY WorkerShapes DEF LockOver
  <1>4. Waiting'
    BY <1>1, <1>2, <1>3 DEF Waiting, LockOver, Peer, Roles
  <1>5. WorkersShape(I)' /\ up[s]
    BY <1>2 DEF LockOver, WorkersShape, DownIsEmpty
  <1> QED
    BY <1>1, <1>4, <1>5 DEF WorkerGoesOn, SlotGoesOn

\* The worker goes from one thing to another without having waited.
LEMMA WorkerMoves ==
  ASSUME NEW I, LockOver(I), NEW s \in Roles, worker[s].pc # "wait",
         NEW n \in WorkersOver(s, I), n.pc # "wait", WorkerBecomes(s, n), http' = http
  PROVE  /\ HandlersShape(I)' /\ WorkersShape(I)' /\ Waiting' /\ worker'[s] = n
         /\ \A x \in Roles : x # s => worker'[x] = worker[x] /\ WorkerGoesOn(x)
         /\ \A x \in Roles, y \in Slots : SlotGoesOn(x, y)
         /\ worker[s].pc # "idle" => up[s]
  <1>1. /\ WorkersShape(I)' /\ worker'[s] = n
        /\ \A x \in Roles : x # s => worker'[x] = worker[x]
    BY WorkerWritten DEF LockOver
  <1>2. Waiting'
    BY <1>1 DEF Waiting, LockOver, Peer, Roles
  <1>3. HandlersShape(I)'
    BY DEF LockOver, HandlersShape
  <1>4. worker[s].pc # "idle" => up[s]
    BY DEF LockOver, DownIsEmpty, Idle
  <1> QED
    BY <1>1, <1>2, <1>3, <1>4 DEF WorkerGoesOn, SlotGoesOn

\* The answer frees the slot; the worker, if it waits for it, goes on with the
\* operation and the copy that it had.
LEMMA Answered ==
  ASSUME NEW I, LockOver(I), NEW s \in Roles, NEW k \in Slots, http[s][k].pc # "idle",
         NEW pc \in {"answered", "httpError"}, NEW ack \in AcksOver(I),
         Answer(s, k, pc, ack)
  PROVE  /\ HandlersShape(I)' /\ WorkersShape(I)' /\ Waiting' /\ up[s]
         /\ http'[s][k] = Idle
         /\ \A x \in Roles, y \in Slots : x # s \/ y # k => http'[x][y] = http[x][y]
         /\ worker'[s] = worker[s]
         /\ ~http[s][k].live => worker' = worker
         /\ http[s][k].live =>
              /\ worker[Peer(s)].pc = "wait" /\ worker[Peer(s)].slot = k
              /\ worker'[Peer(s)].pc = pc /\ worker'[Peer(s)].ack = ack
              /\ worker'[Peer(s)].op = worker[Peer(s)].op
              /\ worker'[Peer(s)].neg = worker[Peer(s)].neg
         /\ \A x \in Roles : WorkerGoesOn(x) /\ (worker[x] = Idle => worker'[x] = Idle)
         /\ \A x \in Roles, y \in Slots : SlotGoesOn(x, y)
  <1> DEFINE p == Peer(s)
  <1>1. p \in Roles /\ p # s /\ \A x \in Roles : x = s \/ x = p
    BY DEF Peer, Roles
  <1>2. http' = [http EXCEPT ![s][k] = Idle]
    BY DEF Answer
  <1>3. Idle \in HandlersOver(s, I) /\ Idle.pc = "idle"
    BY DEF HandlersOver, Idle
  <1>4. /\ HandlersShape(I)' /\ http'[s][k] = Idle
        /\ \A x \in Roles, y \in Slots : x # s \/ y # k => http'[x][y] = http[x][y]
    <2>1. HandlersShape(I)
      BY DEF LockOver
    <2> QED
      BY <1>2, <1>3, <2>1 DEF HandlersShape
  <1>5. \A x \in Roles : worker[x].pc = "wait" => worker[x].slot \in Slots
    BY WorkerShapes DEF LockOver
  <1>6. http[s][k] # Idle
    BY <1>3
  <1>7. up[s]
    BY <1>6 DEF LockOver, DownIsEmpty
  <1>8. \A x \in Roles, y \in Slots : SlotGoesOn(x, y)
    BY <1>3, <1>4 DEF SlotGoesOn
  <1>9. CASE ~http[s][k].live
    <2>1. worker' = worker
      BY <1>9 DEF Answer
    <2>2. Waiting'
      BY <1>1, <1>4, <1>5, <1>9, <2>1 DEF LockOver, Waiting, Peer, Roles
    <2>3. WorkersShape(I)' /\ \A x \in Roles : WorkerGoesOn(x)
      BY <2>1 DEF LockOver, WorkersShape, WorkerGoesOn
    <2> QED
      BY <1>4, <1>7, <1>8, <1>9, <2>1, <2>2, <2>3
  <1>10. CASE http[s][k].live
    <2> DEFINE n == [pc |-> pc, op |-> worker[p].op, neg |-> worker[p].neg, ack |-> ack]
    <2>1. WorkerBecomes(p, n)
      BY <1>10 DEF Answer, WorkerBecomes
    <2>2. worker[p].pc = "wait" /\ worker[p].slot = k
      BY <1>6, <1>10 DEF LockOver, Waiting
    <2>3. worker[p].op \in OperationsOver(p, I) /\ worker[p].neg \in CopiesOver(p, I) /\ worker[p] # Idle
      BY <1>1, <2>2, WorkerShapes DEF Busy, LockOver
    <2>4. n \in WorkersOver(p, I) /\ n.pc = pc /\ n.op = worker[p].op /\ n.neg = worker[p].neg
      BY <2>3 DEF WorkersOver
    <2> HIDE DEF n
    <2>5. /\ WorkersShape(I)' /\ worker'[p] = n
          /\ \A x \in Roles : x # p => worker'[x] = worker[x]
      BY <1>1, <2>1, <2>4, WorkerWritten DEF LockOver
    <2>6. Waiting'
      BY <1>1, <1>4, <1>5, <2>2, <2>4, <2>5 DEF LockOver, Waiting, Peer, Roles
    <2>7. \A x \in Roles : WorkerGoesOn(x) /\ (worker[x] = Idle => worker'[x] = Idle)
      BY <1>1, <2>2, <2>3, <2>4, <2>5 DEF WorkerGoesOn, Busy
    <2> QED
      BY <1>1, <1>4, <1>7, <1>8, <1>10, <2>2, <2>5, <2>6, <2>7 DEF n
  <1> QED
    BY <1>9, <1>10

-----------------------------------------------------------------------------
(* Every step keeps the lock invariant: the handlers                       *)

\* A handler answers; the row it held, if any, was its own or free.
LEMMA AnswerKeeps ==
  ASSUME NEW I, LockOver(I), NEW s \in Roles, NEW k \in Slots, http[s][k].pc # "idle",
         NEW pc \in {"answered", "httpError"}, NEW ack \in AcksOver(I),
         Answer(s, k, pc, ack),
         NEW i, NEW o \in {"free", k}, RowChange(s, i, o), StoreShape(I)',
         QueuesShape(I)', \A x \in Roles : x # s => queue'[x] = queue[x],
         control' = control, up' = up
  PROVE  LockOver(I)'
  <1>1. /\ HandlersShape(I)' /\ WorkersShape(I)' /\ Waiting' /\ up[s] /\ http'[s][k] = Idle
        /\ \A x \in Roles, y \in Slots : x # s \/ y # k => http'[x][y] = http[x][y]
        /\ \A x \in Roles : WorkerGoesOn(x) /\ (worker[x] = Idle => worker'[x] = Idle)
        /\ \A x \in Roles, y \in Slots : SlotGoesOn(x, y)
    BY Answered
  <1>2. ControlsShape(I)'
    BY DEF LockOver, ControlsShape
  <1>3. DownIsEmpty'
    BY <1>1 DEF LockOver, DownIsEmpty
  <1>4. o # "worker" /\ \A y \in Slots : y = o => y = k
    BY SlotsAssumption
  <1>5. HandlerHolds(s, k)'
    BY <1>1 DEF HandlerHolds, Idle
  <1>6. \A x \in Roles : WorkerHolds(x)' /\ \A y \in Slots : HandlerHolds(x, y)'
    BY <1>1, <1>4, <1>5, HoldsKept
  <1> QED
    BY <1>1, <1>2, <1>3, <1>6 DEF LockOver

\* The answers that refuse name no PIDs.
LEMMA NoAckShape ==
  ASSUME NEW I, LockOver(I)
  PROVE  NoAck \in AcksOver(I)
  BY DEF LockOver, NoAck, AcksOver

\* A handler refuses and leaves its own row, or a free one, unlocked or leaked.
LEMMA RefuseKeeps ==
  ASSUME NEW I, LockOver(I), NEW s \in Roles, NEW k \in Slots, http[s][k].pc # "idle",
         Refuse(s, k), UNCHANGED <<agreements, queue, control, up>>,
         \/ table' = table
         \/ \E i \in DOMAIN table[s], o \in {"free", "leaked"} :
              table[s][i].lock \in {"free", k} /\ SetLock(s, i, o)
  PROVE  LockOver(I)' /\ AllForward
  <1>1. Answer(s, k, "httpError", NoAck) /\ NoAck \in AcksOver(I)
    BY NoAckShape DEF Refuse
  <1>2. QueuesShape(I)' /\ \A x \in Roles : x # s => queue'[x] = queue[x]
    BY DEF LockOver, QueuesShape
  <1>3. CASE table' = table
    <2>1. AllForward /\ RowChange(s, 0, "free") /\ StoreShape(I)'
      BY <1>3, TableKept DEF LockOver
    <2> QED
      BY <1>1, <1>2, <2>1, AnswerKeeps
  <1>4. CASE \E i \in DOMAIN table[s], o \in {"free", "leaked"} :
               table[s][i].lock \in {"free", k} /\ SetLock(s, i, o)
    <2>1. PICK i \in DOMAIN table[s], o \in {"free", "leaked"} :
            table[s][i].lock \in {"free", k} /\ SetLock(s, i, o)
      BY <1>4
    <2>2. StoreShape(I)' /\ RowChange(s, i, table[s][i].lock) /\ AllForward
      BY <2>1, LockWritten DEF LockOver, Locks
    <2> QED
      BY <1>1, <1>2, <2>1, <2>2, AnswerKeeps
  <1> QED
    BY <1>3, <1>4

LEMMA HandlerNotFoundKeeps ==
  ASSUME NEW I, Before(I), NEW s \in Roles, NEW k \in Slots, HandlerNotFound(s, k)
  PROVE  LockOver(I)' /\ AllForward
  <1>1. /\ LockOver(I) /\ http[s][k].pc # "idle" /\ Refuse(s, k)
        /\ UNCHANGED <<agreements, queue, control, up>>
    BY DEF HandlerNotFound, Before
  <1>2. \/ table' = table
        \/ \E i \in DOMAIN table[s], o \in {"free", "leaked"} :
             table[s][i].lock \in {"free", k} /\ SetLock(s, i, o)
    BY DEF HandlerNotFound, Wanted, Lookup
  <1> QED
    BY <1>1, <1>2, RefuseKeeps

LEMMA HandlerRejectKeeps ==
  ASSUME NEW I, Before(I), NEW s \in Roles, NEW k \in Slots, HandlerReject(s, k)
  PROVE  LockOver(I)' /\ AllForward
  <1>1. /\ LockOver(I) /\ http[s][k].pc # "idle" /\ Refuse(s, k)
        /\ UNCHANGED <<agreements, queue, control, up>>
    BY DEF HandlerReject, Before
  <1>2. http[s][k].neg.id \in DOMAIN table[s] /\ table[s][http[s][k].neg.id].lock = k
    BY <1>1 DEF HandlerReject, LockOver, HandlerHolds
  <1>3. SetLock(s, http[s][k].neg.id, "free")
    BY DEF HandlerReject
  <1> QED
    BY <1>1, <1>2, <1>3, RefuseKeeps

LEMMA HandlerNotifyFailsKeeps ==
  ASSUME NEW I, Before(I), NEW s \in Roles, NEW k \in Slots, HandlerNotifyFails(s, k)
  PROVE  LockOver(I)' /\ AllForward
  <1>1. /\ LockOver(I) /\ http[s][k].pc # "idle" /\ Refuse(s, k)
        /\ UNCHANGED <<table, agreements, queue, control, up>>
    BY DEF HandlerNotifyFails, Before, store
  <1> QED
    BY <1>1, RefuseKeeps

LEMMA HandlerCancelledKeeps ==
  ASSUME NEW I, Before(I), NEW s \in Roles, NEW k \in Slots, HandlerCancelled(s, k)
  PROVE  LockOver(I)' /\ AllForward
  <1>1. /\ LockOver(I) /\ http[s][k].pc # "idle" /\ Refuse(s, k)
        /\ UNCHANGED <<agreements, queue, control, up>>
    BY DEF HandlerCancelled, Before
  <1>2. CASE http[s][k].pc = "locked"
    <2>1. http[s][k].neg.id \in DOMAIN table[s] /\ table[s][http[s][k].neg.id].lock = k
      BY <1>1, <1>2 DEF LockOver, HandlerHolds
    <2>2. SetLock(s, http[s][k].neg.id, "leaked")
      BY <1>2 DEF HandlerCancelled
    <2> QED
      BY <1>1, <2>1, <2>2, RefuseKeeps
  <1>3. CASE http[s][k].pc # "locked"
    <2>1. table' = table
      BY <1>3 DEF HandlerCancelled
    <2> QED
      BY <1>1, <2>1, RefuseKeeps
  <1> QED
    BY <1>2, <1>3

\* A handler goes on with its request, and so does everybody else.
LEMMA GoOnKeeps ==
  ASSUME NEW I, LockOver(I), NEW s \in Roles, NEW k \in Slots, http[s][k].pc # "idle",
         NEW n \in HandlersOver(s, I), n # Idle, n.live = http[s][k].live,
         SlotBecomes(s, k, n), StoreShape(I)',
         NEW i, NEW o \in {"free", k}, RowChange(s, i, o),
         n.pc = "locked" => /\ n.neg.id \in DOMAIN table'[s] /\ table'[s][n.neg.id].lock = k
                            /\ n.neg = FromModel(table'[s][n.neg.id], n.neg.id),
         UNCHANGED <<queue, worker, control, up>>
  PROVE  LockOver(I)'
  <1>1. /\ HandlersShape(I)' /\ WorkersShape(I)' /\ Waiting' /\ up[s] /\ http'[s][k] = n
        /\ \A x \in Roles, y \in Slots : x # s \/ y # k => http'[x][y] = http[x][y]
        /\ \A x \in Roles : WorkerGoesOn(x)
        /\ \A x \in Roles, y \in Slots : x # s \/ y # k => SlotGoesOn(x, y)
    BY SlotMoves
  <1>2. ControlsShape(I)' /\ QueuesShape(I)'
    BY DEF LockOver, ControlsShape, QueuesShape
  <1>3. DownIsEmpty'
    BY <1>1 DEF LockOver, DownIsEmpty
  <1>4. o # "worker" /\ \A y \in Slots : y = o => y = k
    BY SlotsAssumption
  <1>5. HandlerHolds(s, k)'
    BY <1>1 DEF HandlerHolds
  <1>6. \A x \in Roles : WorkerHolds(x)' /\ \A y \in Slots : HandlerHolds(x, y)'
    BY <1>1, <1>4, <1>5, HoldsKept
  <1> QED
    BY <1>1, <1>2, <1>3, <1>6 DEF LockOver

\* The routes that make negotiations.
LEMMA CreatingRoutes ==
  ASSUME NEW I, NEW s \in Roles, NEW req \in RequestsOver(s, I)
  PROVE  LET route == Route(req.base, req.pid, req.msg.type) IN
         /\ route = "newRequest" => s = "provider" /\ req.msg.type = "request"
                                      /\ req.base = "root" /\ req.pid = emptyUUID
         /\ route = "newOffer" => s = "consumer" /\ req.msg.type = "offer"
                                    /\ req.base = "root" /\ req.pid = emptyUUID
         /\ route \in {"newRequest", "newOffer", "any", "provider", "consumer", "none"}
  <1> DEFINE type == req.msg.type
             route == Route(req.base, req.pid, req.msg.type)
  <1>1. type \in TypesFrom(Peer(s)) /\ s \in {"consumer", "provider"}
    BY DEF RequestsOver, MessagesOver, Roles
  <1>2. CASE type = "termination"
    <2>1. route = "any"
      BY <1>2 DEF Route
    <2> QED
      BY <2>1
  <1>3. CASE type # "termination" /\ req.base = "root" /\ type = "request" /\ req.pid = emptyUUID
    <2>1. route = "newRequest"
      BY <1>3 DEF Route
    <2> QED
      BY <1>1, <1>3, <2>1 DEF TypesFrom, Peer
  <1>4. CASE type # "termination" /\ req.base = "root" /\ type = "offer" /\ req.pid = emptyUUID
    <2>1. route = "newOffer"
      BY <1>4 DEF Route
    <2> QED
      BY <1>1, <1>4, <2>1 DEF TypesFrom, Peer
  <1>5. CASE /\ type # "termination"
             /\ ~(req.base = "root" /\ type \in {"request", "offer"} /\ req.pid = emptyUUID)
    <2>1. route \in {"provider", "none", "consumer"}
      BY <1>5 DEF Route
    <2> QED
      BY <2>1
  <1> QED
    BY <1>2, <1>3, <1>4, <1>5

\* The mux dispatches the request, or refuses it.
LEMMA RouteRequestKeeps ==
  ASSUME NEW I, Before(I), NEW s \in Roles, NEW k \in Slots, RouteRequest(s, k)
  PROVE  LockOver(I)' /\ AllForward
  <1> DEFINE h == http[s][k]
             route == Route(h.req.base, h.req.pid, h.req.msg.type)
  <1>1. /\ LockOver(I) /\ h.pc = "arrived" /\ route \notin {"newRequest", "newOffer"}
        /\ UNCHANGED <<table, agreements, queue, control, up>>
    BY DEF RouteRequest, Before, store
  <1>2. h.live \in BOOLEAN /\ h.req \in RequestsOver(s, I)
    BY <1>1, SlotShapes DEF LockOver
  <1>3. CASE route = "none"
    <2>1. Refuse(s, k)
      BY <1>3 DEF RouteRequest
    <2> QED
      BY <1>1, <2>1, RefuseKeeps
  <1>4. CASE route # "none"
    <2>1. route \in {"any", "provider", "consumer"}
      BY <1>1, <1>2, <1>4, CreatingRoutes
    <2> DEFINE n == [pc |-> "lock", req |-> h.req, live |-> h.live,
                     route |-> route, pid |-> h.req.pid]
    <2>2. SlotBecomes(s, k, n) /\ worker' = worker
      BY <1>4 DEF RouteRequest, SlotBecomes
    <2>3. h.req.pid \in I
      BY <1>2 DEF RequestsOver
    <2>4. n \in HandlersOver(s, I) /\ n.pc = "lock" /\ n.live = h.live
      BY <1>2, <2>1, <2>3 DEF HandlersOver
    <2> HIDE DEF n
    <2>5. n # Idle
      BY <2>4 DEF Idle
    <2>6. StoreShape(I)' /\ RowChange(s, 0, "free") /\ AllForward
      BY <1>1, TableKept DEF LockOver
    <2> QED
      BY <1>1, <2>2, <2>4, <2>5, <2>6, GoOnKeeps
  <1> QED
    BY <1>3, <1>4

\* A row is added to the table.
LEMMA RowAdded ==
  ASSUME NEW I, StoreShape(I), NEW s \in Roles, NEW r \in RowsOver(s, I),
         table' = [table EXCEPT ![s] = Append(@, r)], agreements' = agreements
  PROVE  /\ StoreShape(I)' /\ AllForward /\ RowChange(s, Len(table[s]) + 1, "free")
         /\ table'[s] = Append(table[s], r) /\ \A x \in Roles : x # s => table'[x] = table[x]
         /\ Len(table[s]) \in Nat /\ DOMAIN table[s] = 1..Len(table[s])
         /\ DOMAIN table'[s] = 1..(Len(table[s]) + 1) /\ table'[s][Len(table[s]) + 1] = r
         /\ \A i \in DOMAIN table[s] : table'[s][i] = table[s][i]
  <1>1. table[s] \in Seq(RowsOver(s, I)) /\ DOMAIN table = Roles
    BY DEF StoreShape
  <1>2. /\ table'[s] = Append(table[s], r) /\ DOMAIN table' = Roles
        /\ \A x \in Roles : x # s => table'[x] = table[x]
    BY <1>1
  <1>3. /\ Append(table[s], r) \in Seq(RowsOver(s, I)) /\ Len(table[s]) \in Nat
        /\ DOMAIN table[s] = 1..Len(table[s])
        /\ Len(Append(table[s], r)) = Len(table[s]) + 1
        /\ \A i \in 1..Len(table[s]) : Append(table[s], r)[i] = table[s][i]
        /\ Append(table[s], r)[Len(table[s]) + 1] = r
    BY <1>1, AppendProperties, LenProperties
  <1>4. DOMAIN Append(table[s], r) = 1..(Len(table[s]) + 1)
    BY <1>3, LenProperties
  <1>5. StoreShape(I)'
    BY <1>2, <1>3 DEF StoreShape
  <1>6. \A i \in DOMAIN table[s] : i \in DOMAIN table'[s] /\ table'[s][i] = table[s][i]
    BY <1>2, <1>3, <1>4
  <1>7. AllForward
    BY <1>2, <1>6 DEF AllForward, ForwardRow, KeepsPIDs
  <1>8. RowChange(s, Len(table[s]) + 1, "free")
    <2>1. Len(table[s]) + 1 \notin DOMAIN table[s]
      BY <1>3
    <2>2. \A x \in Roles : \A j \in DOMAIN table[x] :
            j \in DOMAIN table'[x] /\ table'[x][j] = table[x][j]
      BY <1>2, <1>6
    <2> QED
      BY <2>1, <2>2 DEF RowChange
  <1> QED
    BY <1>2, <1>3, <1>4, <1>5, <1>6, <1>7, <1>8

\* A negotiation is made of a request or an offer without a PID.
Inserted(s, k, I, n) ==
  LET h == http[s][k] IN
  /\ n \in CopiesOver(s, I) /\ ~Conflict(s, n)
  /\ \/ s = "provider" /\ n = NegotiationOfRequest(s, h.req.msg)
     \/ s = "consumer" /\ n = NegotiationOfOffer(s, h.req.msg)
  /\ LocalPID(n) = uuid /\ n.role = s /\ n.state = "INITIAL" /\ n.agreement = emptyUUID
  /\ uuid' = uuid + 1 /\ uuid \in I
  /\ table' = [table EXCEPT ![s] = Append(@, ToModel(n))]
  /\ SlotBecomes(s, k, [pc |-> "lock", req |-> h.req, live |-> h.live,
                        route |-> s, pid |-> uuid])
  /\ worker' = worker

\* What is stored when a request or an offer without a PID arrives.
LEMMA CreateEffect ==
  ASSUME NEW I, Before(I), NEW s \in Roles, NEW k \in Slots, CreateNegotiation(s, k)
  PROVE  /\ http[s][k].pc = "arrived" /\ http[s][k].req \in RequestsOver(s, I)
         /\ http[s][k].req.pid = emptyUUID /\ UNCHANGED <<agreements, queue, control, poll, up>>
         /\ \/ Refuse(s, k) /\ UNCHANGED <<table, uuid>>
            \/ \E n : Inserted(s, k, I, n)
  <1> DEFINE h == http[s][k]
             m == h.req.msg
             route == Route(h.req.base, h.req.pid, m.type)
             n == IF route = "newRequest" THEN NegotiationOfRequest(s, m) ELSE NegotiationOfOffer(s, m)
  <1>1. h.pc = "arrived" /\ route \in {"newRequest", "newOffer"}
        /\ UNCHANGED <<agreements, queue, control, poll, up>>
    BY DEF CreateNegotiation
  <1>2. h.live \in BOOLEAN /\ h.req \in RequestsOver(s, I)
    BY <1>1, SlotShapes DEF Before, LockOver
  <1>3. /\ route = "newRequest" => s = "provider" /\ m.type = "request"
        /\ route = "newOffer" => s = "consumer" /\ m.type = "offer"
        /\ h.req.pid = emptyUUID
    BY <1>1, <1>2, CreatingRoutes
  <1>4. CASE Conflict(s, n)
    <2>1. Refuse(s, k) /\ UNCHANGED <<table, uuid>>
      BY <1>4 DEF CreateNegotiation
    <2> QED
      BY <1>1, <1>2, <1>3, <2>1
  <1>5. CASE ~Conflict(s, n)
    <2>1. /\ table' = [table EXCEPT ![s] = Append(@, ToModel(n))] /\ uuid' = uuid + 1
          /\ http' = [http EXCEPT ![s][k] = [pc |-> "lock", req |-> h.req, live |-> h.live,
                                             route |-> n.role, pid |-> LocalPID(n)]]
          /\ worker' = worker
      BY <1>5 DEF CreateNegotiation
    <2>2. uuid \in I /\ uuid # emptyUUID /\ emptyUUID \in I
      BY <2>1 DEF Before, LockOver, emptyUUID
    <2>3. m.ppid \in I /\ m.cpid \in I /\ m.callback \in Bases
      BY <1>2 DEF RequestsOver, MessagesOver
    <2>4. CASE route = "newRequest"
      <3>1. n = NegotiationOfRequest(s, m) /\ s = "provider"
        BY <1>3, <2>4
      <3>2. (~Service[s]) \in BOOLEAN
        OBVIOUS
      <3>3. /\ NegotiationOfRequest(s, m) \in CopiesOver(s, I)
            /\ NegotiationOfRequest(s, m).role = s /\ NegotiationOfRequest(s, m).state = "INITIAL"
            /\ LocalPID(NegotiationOfRequest(s, m)) = uuid
            /\ NegotiationOfRequest(s, m).agreement = emptyUUID
        BY <2>2, <2>3, <3>1, <3>2
        DEF NegotiationOfRequest, New, CopiesOver, PpidsOver, CpidsOver, LocalPID, States, Bases
      <3>4. Inserted(s, k, I, n)
        BY <1>5, <2>1, <2>2, <3>1, <3>3 DEF Inserted, SlotBecomes
      <3> QED
        BY <1>1, <1>2, <1>3, <3>4
    <2>5. CASE route = "newOffer"
      <3>1. n = NegotiationOfOffer(s, m) /\ s = "consumer"
        BY <1>3, <2>5
      <3>2. (~Service[s]) \in BOOLEAN
        OBVIOUS
      <3>3. /\ NegotiationOfOffer(s, m) \in CopiesOver(s, I)
            /\ NegotiationOfOffer(s, m).role = s /\ NegotiationOfOffer(s, m).state = "INITIAL"
            /\ LocalPID(NegotiationOfOffer(s, m)) = uuid
            /\ NegotiationOfOffer(s, m).agreement = emptyUUID
        BY <2>2, <2>3, <3>1, <3>2
        DEF NegotiationOfOffer, New, CopiesOver, PpidsOver, CpidsOver, LocalPID, States, Bases
      <3>4. Inserted(s, k, I, n)
        BY <1>5, <2>1, <2>2, <3>1, <3>3 DEF Inserted, SlotBecomes
      <3> QED
        BY <1>1, <1>2, <1>3, <3>4
    <2> QED
      BY <1>1, <2>4, <2>5
  <1> QED
    BY <1>4, <1>5

\* A negotiation is made of a request or an offer.
LEMMA CreateNegotiationKeeps ==
  ASSUME NEW I, Before(I), NEW s \in Roles, NEW k \in Slots, CreateNegotiation(s, k)
  PROVE  LockOver(I)' /\ AllForward
  <1> DEFINE h == http[s][k]
             m == h.req.msg
  <1>1. /\ h.pc = "arrived" /\ h.req \in RequestsOver(s, I)
        /\ UNCHANGED <<agreements, queue, control, poll, up>> /\ LockOver(I)
    BY CreateEffect DEF Before
  <1>2. CASE Refuse(s, k) /\ UNCHANGED <<table, uuid>>
    BY <1>1, <1>2, RefuseKeeps
  <1>3. CASE \E n : Inserted(s, k, I, n)
    <2> PICK n : Inserted(s, k, I, n)
      BY <1>3
    <2>1. /\ n \in CopiesOver(s, I) /\ uuid \in I
          /\ table' = [table EXCEPT ![s] = Append(@, ToModel(n))]
          /\ SlotBecomes(s, k, [pc |-> "lock", req |-> h.req, live |-> h.live,
                                route |-> s, pid |-> uuid])
          /\ worker' = worker
      BY DEF Inserted
    <2>2. PICK r \in RowsOver(s, I) : r = ToModel(n)
      BY <2>1, ModelShapes
    <2>3. table' = [table EXCEPT ![s] = Append(@, r)] /\ StoreShape(I)
      BY <1>1, <2>1, <2>2 DEF LockOver
    <2>4. StoreShape(I)' /\ AllForward /\ RowChange(s, Len(table[s]) + 1, "free")
      BY <1>1, <2>3, RowAdded
    <2> DEFINE x == [pc |-> "lock", req |-> h.req, live |-> h.live, route |-> s, pid |-> uuid]
    <2>5. h.live \in BOOLEAN /\ s \in {"consumer", "provider"}
      BY <1>1, SlotShapes DEF LockOver, Roles
    <2>6. x \in HandlersOver(s, I) /\ x.pc = "lock" /\ x.live = h.live
      BY <1>1, <2>1, <2>5 DEF HandlersOver
    <2>7. SlotBecomes(s, k, x) /\ worker' = worker
      BY <2>1
    <2> HIDE DEF x
    <2>8. x # Idle /\ x.pc # "locked" /\ h.pc # "idle"
      BY <1>1, <2>6 DEF Idle
    <2> QED
      BY <1>1, <2>4, <2>6, <2>7, <2>8, GoOnKeeps
  <1> QED
    BY <1>2, <1>3, CreateEffect

\* A copy fits any set that its own IDs are in.
LEMMA CopyRestricted ==
  ASSUME NEW s \in Roles, NEW I, NEW n \in CopiesOver(s, I), NEW J, IDsOf(n) \subseteq J
  PROVE  n \in CopiesOver(s, J)
  BY DEF CopiesOver, PpidsOver, CpidsOver, IDsOf

\* The entries that Sent allows are over the IDs of the negotiation.
LEMMA SentEntries ==
  ASSUME NEW s \in Roles, NEW I, emptyUUID \in I, NEW n, NEW fresh, NEW out,
         out.neg \in CopiesOver(s, I), Sent(s, n, fresh, out)
  PROVE  out.entries \in Seq(EntriesOver(s, I))
  <1>1. CASE out.entries = <<>>
    BY <1>1, EmptySeq
  <1>2. CASE \E e : out.entries = <<e>> /\ EntryOf(s, out.neg, e)
    <2>1. PICK e : out.entries = <<e>> /\ EntryOf(s, out.neg, e)
      BY <1>2
    <2>2. IDsOf(out.neg) \subseteq I
      BY DEF IDsOf, CopiesOver, PpidsOver, CpidsOver
    <2>3. e \in EntriesOver(s, I)
      BY <2>1, <2>2, CopiesGrow DEF EntryOf
    <2>4. <<e>> \in Seq(EntriesOver(s, I))
      BY <2>3
    <2> QED
      BY <2>1, <2>4
  <1> QED
    BY <1>1, <1>2 DEF Sent

\* A fresh UUID that is in the negotiation has been drawn.
LEMMA FreshUUID ==
  ASSUME NEW I, Before(I), NEW s \in Roles, NEW n \in CopiesOver(s, I \cup {uuid}),
         uuid' = UuidAfter(n)
  PROVE  n \in CopiesOver(s, I)
  <1>1. CASE uuid \in {n.ppid, n.cpid, n.agreement}
    <2>1. uuid \in I
      BY <1>1 DEF Before, UuidAfter
    <2>2. I \cup {uuid} = I
      BY <2>1
    <2> QED
      BY <2>2
  <1>2. CASE uuid \notin {n.ppid, n.cpid, n.agreement}
    <2>1. n.ppid \in I /\ n.cpid \in I /\ n.agreement \in I
      BY <1>2 DEF CopiesOver, PpidsOver, CpidsOver
    <2>2. IDsOf(n) \subseteq I
      BY <2>1 DEF IDsOf, Before, LockOver
    <2> QED
      BY <2>2, CopyRestricted
  <1> QED
    BY <1>1, <1>2

\* What processMessage makes of the negotiation n with message m: one Recv,
\* and perhaps one Send.
Processed(s, I, n, m, out) ==
  \E r \in CopiesOver(s, I \cup {uuid}) :
    /\ Received(s, I \cup {uuid}, n, m, r) /\ RecvAs(n, m, r)
    /\ IF n.state = "INITIAL"
         THEN /\ m.type = IF s = "provider" THEN "request" ELSE "offer"
              /\ r.initial /\ r.cpid = n.cpid
              /\ r.ppid = IF s = "provider" THEN uuid ELSE n.ppid
         ELSE KeepsPIDs(n, r) /\ r.initial = n.initial
    /\ SameButAgreement(r, out.neg) /\ Sent(s, r, uuid, out)

LEMMA ProcessMoves ==
  ASSUME NEW I, Before(I), NEW s \in Roles, NEW n \in CopiesOver(s, I),
         NEW m \in MessagesOver(Peer(s), I), NEW found, NEW out, out = Process(s, n, m, found),
         out.ok, uuid' = UuidAfter(out.neg)
  PROVE  /\ Processed(s, I, n, m, out)
         /\ out.neg \in CopiesOver(s, I) /\ out.neg.id = n.id
         /\ out.entries \in Seq(EntriesOver(s, I))
         /\ out.neg.state \in validTransitions[n.state]
         /\ n.state # "INITIAL" => KeepsPIDs(n, out.neg)
  <1> DEFINE K == I \cup {uuid}
             r == Recv(n, m, uuid, found)
  <1>1. emptyUUID \in K /\ uuid \in K \ {emptyUUID} /\ emptyUUID \in I
    BY DEF Before, LockOver, emptyUUID
  <1>2. n \in CopiesOver(s, K) /\ m \in MessagesOver(Peer(s), K)
    <2>1. Peer(s) \in Roles /\ I \subseteq K
      BY DEF Peer, Roles
    <2> QED
      BY <2>1, CopiesGrow
  <1> HIDE DEF K
  <1>3. r.ok
    BY DEF Process, SendFails
  <1> HIDE DEF r
  <1>4. /\ Received(s, K, n, m, r.neg) /\ r.neg \in CopiesOver(s, K)
        /\ IF n.state = "INITIAL"
             THEN /\ m.type = IF s = "provider" THEN "request" ELSE "offer"
                  /\ r.neg.initial /\ r.neg.cpid = n.cpid
                  /\ r.neg.ppid = IF s = "provider" THEN uuid ELSE n.ppid
             ELSE KeepsPIDs(n, r.neg) /\ r.neg.initial = n.initial
    BY <1>1, <1>2, <1>3, RecvMoves DEF Received, r
  <1>5. /\ out.neg \in CopiesOver(s, K) /\ SameButAgreement(r.neg, out.neg)
        /\ Sent(s, r.neg, uuid, out)
    <2>1. CASE r.neg.autoAccept \/ ~Service[s]
      <3>1. out = Send(r.neg, uuid, found)
        BY <1>3, <2>1 DEF Process, r
      <3>2. r.neg.state \in SendsFrom(s)
        BY <1>4 DEF Received, SendsFrom
      <3> QED
        BY <1>1, <1>4, <3>1, <3>2, SendMoves
    <2>2. CASE ~(r.neg.autoAccept \/ ~Service[s])
      <3>1. out = SendsNothing(r.neg)
        BY <1>3, <2>2 DEF Process, r
      <3>2. out.neg = r.neg /\ out.entries = <<>>
        BY <3>1 DEF SendsNothing
      <3> QED
        BY <1>4, <3>2 DEF Sent, SameButAgreement
    <2> QED
      BY <2>1, <2>2
  <1>6. Processed(s, I, n, m, out)
    <2>1. RecvAs(n, m, r.neg)
      BY <1>1, <1>2, <1>3, RecvExactly DEF r
    <2> QED
      BY <1>4, <1>5, <2>1 DEF Processed, K
  <1>7. out.neg \in CopiesOver(s, I)
    BY <1>5, FreshUUID DEF K
  <1>8. out.entries \in Seq(EntriesOver(s, I))
    BY <1>1, <1>5, <1>7, SentEntries
  <1>9. /\ out.neg.id = n.id /\ out.neg.state \in validTransitions[n.state]
        /\ n.state # "INITIAL" => KeepsPIDs(n, out.neg)
    BY <1>4, <1>5 DEF Received, SameButAgreement, KeepsPIDs
  <1> QED
    BY <1>6, <1>7, <1>8, <1>9

\* What a handler that works on a locked row knows.
LEMMA LockedHandler ==
  ASSUME NEW I, LockOver(I), NEW s \in Roles, NEW k \in Slots, http[s][k].pc = "locked"
  PROVE  LET h == http[s][k] IN
         /\ h.live \in BOOLEAN /\ h.req \in RequestsOver(s, I) /\ h.neg \in CopiesOver(s, I)
         /\ h.req.msg \in MessagesOver(Peer(s), I)
         /\ h.neg.id \in DOMAIN table[s] /\ table[s][h.neg.id].lock = k
         /\ h.neg = FromModel(table[s][h.neg.id], h.neg.id)
         /\ h.neg.state = table[s][h.neg.id].state /\ h.neg.ppid = table[s][h.neg.id].ppid
         /\ h.neg.cpid = table[s][h.neg.id].cpid /\ h.neg.agreement = table[s][h.neg.id].agreement
  <1> DEFINE h == http[s][k]
  <1>1. h.live \in BOOLEAN /\ h.req \in RequestsOver(s, I) /\ h.neg \in CopiesOver(s, I)
    BY SlotShapes DEF LockOver
  <1>2. h.req.msg \in MessagesOver(Peer(s), I)
    BY <1>1 DEF RequestsOver
  <1>3. /\ h.neg.id \in DOMAIN table[s] /\ table[s][h.neg.id].lock = k
        /\ h.neg = FromModel(table[s][h.neg.id], h.neg.id)
    BY DEF LockOver, HandlerHolds
  <1>4. /\ h.neg.state = table[s][h.neg.id].state /\ h.neg.ppid = table[s][h.neg.id].ppid
        /\ h.neg.cpid = table[s][h.neg.id].cpid /\ h.neg.agreement = table[s][h.neg.id].agreement
    BY <1>3 DEF FromModel
  <1> QED
    BY <1>1, <1>2, <1>3, <1>4

\* The handler of slot k stores out.neg.
StoredBy(s, k, I, out) ==
  /\ http[s][k].pc = "locked" /\ UNCHANGED <<agreements, queue, worker, control, poll, up>>
  /\ Processed(s, I, http[s][k].neg, http[s][k].req.msg, out)
  /\ out.neg \in CopiesOver(s, I) /\ out.neg.id = http[s][k].neg.id
  /\ out.entries \in Seq(EntriesOver(s, I))
  /\ ForwardRow(table[s][out.neg.id], out.neg)
  /\ Put(s, out.neg) /\ uuid' = UuidAfter(out.neg)
  /\ SlotBecomes(s, k, [pc |-> IF out.neg.newAgreement THEN "stored" ELSE "apply",
                        req |-> http[s][k].req, live |-> http[s][k].live,
                        neg |-> out.neg, entries |-> out.entries])

\* The message is processed, whatever the dataset lookup says.
LEMMA StoreEffect ==
  ASSUME NEW I, Before(I), NEW s \in Roles, NEW k \in Slots, HandlerStore(s, k)
  PROVE  \E out : StoredBy(s, k, I, out)
  <1> DEFINE h == http[s][k]
  <1>1. h.pc = "locked" /\ LockOver(I)
    BY DEF HandlerStore, Before
  <1>2. PICK out :
          /\ \E found \in Found : out = Process(s, h.neg, h.req.msg, found)
          /\ out.ok /\ Put(s, out.neg) /\ uuid' = UuidAfter(out.neg)
          /\ http' = [http EXCEPT ![s][k] =
               [pc |-> IF out.neg.newAgreement THEN "stored" ELSE "apply",
                req |-> h.req, live |-> h.live, neg |-> out.neg, entries |-> out.entries]]
    BY DEF HandlerStore
  <1>3. h.neg \in CopiesOver(s, I) /\ h.req.msg \in MessagesOver(Peer(s), I)
    BY <1>1, LockedHandler
  <1>4. /\ Processed(s, I, h.neg, h.req.msg, out)
        /\ out.neg \in CopiesOver(s, I) /\ out.neg.id = h.neg.id
        /\ out.entries \in Seq(EntriesOver(s, I))
        /\ out.neg.state \in validTransitions[h.neg.state]
        /\ h.neg.state # "INITIAL" => KeepsPIDs(h.neg, out.neg)
    <2>1. PICK found \in Found : out = Process(s, h.neg, h.req.msg, found)
      BY <1>2
    <2>2. out.ok /\ uuid' = UuidAfter(out.neg)
      BY <1>2
    <2> HIDE DEF h
    <2> QED
      BY <1>3, <2>1, <2>2, ProcessMoves
  <1>5. ForwardRow(table[s][out.neg.id], out.neg)
    <2>1. /\ h.neg.state = table[s][h.neg.id].state /\ h.neg.ppid = table[s][h.neg.id].ppid
          /\ h.neg.cpid = table[s][h.neg.id].cpid
      BY <1>1, LockedHandler
    <2> QED
      BY <1>4, <2>1 DEF ForwardRow, KeepsPIDs
  <1>6. UNCHANGED <<agreements, queue, worker, control, poll, up>>
    BY DEF HandlerStore
  <1>7. StoredBy(s, k, I, out)
    BY <1>1, <1>2, <1>4, <1>5, <1>6 DEF StoredBy, SlotBecomes
  <1> QED
    BY <1>7

LEMMA HandlerStoreKeeps ==
  ASSUME NEW I, Before(I), NEW s \in Roles, NEW k \in Slots, HandlerStore(s, k)
  PROVE  LockOver(I)' /\ AllForward
  <1> DEFINE h == http[s][k]
  <1>1. /\ h.pc = "locked" /\ LockOver(I)
        /\ UNCHANGED <<agreements, queue, worker, control, poll, up>>
    BY DEF HandlerStore, Before
  <1>2. PICK out : StoredBy(s, k, I, out)
    BY StoreEffect
  <1>3. h.neg.id \in DOMAIN table[s] /\ table[s][h.neg.id].lock = k
        /\ h.live \in BOOLEAN /\ h.req \in RequestsOver(s, I)
    BY <1>1, LockedHandler
  <1>4. /\ StoreShape(I)' /\ RowChange(s, h.neg.id, k) /\ AllForward
    BY <1>1, <1>2, <1>3, CopyWritten DEF LockOver, StoredBy
  <1> DEFINE x == [pc |-> IF out.neg.newAgreement THEN "stored" ELSE "apply",
                   req |-> h.req, live |-> h.live, neg |-> out.neg, entries |-> out.entries]
  <1>5. x.pc \in {"stored", "apply"} /\ x.live = h.live
    OBVIOUS
  <1>6. x \in HandlersOver(s, I)
    BY <1>2, <1>3 DEF HandlersOver, StoredBy
  <1>7. SlotBecomes(s, k, x)
    BY <1>2 DEF StoredBy
  <1> HIDE DEF x
  <1>8. x # Idle /\ x.pc # "locked"
    BY <1>5 DEF Idle
  <1> QED
    BY <1>1, <1>4, <1>5, <1>6, <1>7, <1>8, GoOnKeeps

\* processMessage: the row is locked.
LEMMA HandlerLockKeeps ==
  ASSUME NEW I, Before(I), NEW s \in Roles, NEW k \in Slots, HandlerLock(s, k)
  PROVE  LockOver(I)' /\ AllForward
  <1> DEFINE h == http[s][k]
  <1>1. LockOver(I) /\ UNCHANGED <<agreements, queue, worker, control, poll, up>>
    BY DEF HandlerLock, Before
  <1>2. PICK i \in Wanted(s, k) :
          /\ Free(s, i) /\ SetLock(s, i, k)
          /\ http' = [http EXCEPT ![s][k] = [pc |-> "locked", req |-> h.req, live |-> h.live,
                                             neg |-> FromModel(table[s][i], i)]]
    BY DEF HandlerLock
  <1>3. i \in DOMAIN table[s] /\ h.pc = "lock" /\ table[s][i].lock = "free" /\ k \in Locks
    BY <1>2 DEF Wanted, Lookup, Free, Locks
  <1>4. h.live \in BOOLEAN /\ h.req \in RequestsOver(s, I) /\ FromModel(table[s][i], i) \in CopiesOver(s, I)
        /\ i \in Nat
    BY <1>1, <1>3, SlotShapes, RowShapes DEF LockOver
  <1>5. /\ StoreShape(I)' /\ RowChange(s, i, "free") /\ AllForward
        /\ table'[s][i].lock = k /\ SameData(table[s][i], table'[s][i])
        /\ i \in DOMAIN table'[s]
    BY <1>1, <1>2, <1>3, LockWritten DEF LockOver
  <1> DEFINE x == [pc |-> "locked", req |-> h.req, live |-> h.live, neg |-> FromModel(table[s][i], i)]
  <1>6. x \in HandlersOver(s, I) /\ x.pc = "locked" /\ x.live = h.live
        /\ x.neg = FromModel(table[s][i], i)
    BY <1>4 DEF HandlersOver
  <1>7. SlotBecomes(s, k, x)
    BY <1>2 DEF SlotBecomes
  <1> HIDE DEF x
  <1>8. x # Idle /\ h.pc # "idle" /\ x.neg.id = i
    BY <1>3, <1>6 DEF Idle, FromModel
  <1>9. /\ x.neg.id \in DOMAIN table'[s] /\ table'[s][x.neg.id].lock = k
        /\ x.neg = FromModel(table'[s][x.neg.id], x.neg.id)
    BY <1>4, <1>5, <1>6, <1>8 DEF SameData
  <1> QED
    BY <1>1, <1>5, <1>6, <1>7, <1>8, <1>9, GoOnKeeps

\* storeNegotiation: the agreement is stored.
LEMMA HandlerPutAgreementKeeps ==
  ASSUME NEW I, Before(I), NEW s \in Roles, NEW k \in Slots, HandlerPutAgreement(s, k)
  PROVE  LockOver(I)' /\ AllForward
  <1> DEFINE h == http[s][k]
  <1>1. /\ LockOver(I) /\ UNCHANGED <<table, queue, worker, control, poll, up>> /\ h.pc = "stored"
        /\ agreements' = [agreements EXCEPT ![s] = @ \cup {h.neg.agreement}]
        /\ http' = [http EXCEPT ![s][k].pc = "apply"]
    BY DEF HandlerPutAgreement, Before
  <1>2. /\ h.live \in BOOLEAN /\ h.req \in RequestsOver(s, I) /\ h.neg \in CopiesOver(s, I)
        /\ h.entries \in Seq(EntriesOver(s, I)) /\ h \in HandlersOver(s, I)
    BY <1>1, SlotShapes DEF LockOver
  <1>3. h \in [pc: {"stored", "apply"}, live: BOOLEAN, req: RequestsOver(s, I),
               neg: CopiesOver(s, I), entries: Seq(EntriesOver(s, I))]
    BY <1>1, <1>2 DEF HandlersOver, Idle
  <1> DEFINE x == [h EXCEPT !.pc = "apply"]
  <1>4. /\ x \in [pc: {"stored", "apply"}, live: BOOLEAN, req: RequestsOver(s, I),
                  neg: CopiesOver(s, I), entries: Seq(EntriesOver(s, I))]
        /\ x.live = h.live /\ x.pc = "apply"
    BY <1>3
  <1>5. x \in HandlersOver(s, I)
    BY <1>4 DEF HandlersOver
  <1>6. SlotBecomes(s, k, x)
    BY <1>1 DEF SlotBecomes
  <1> HIDE DEF x
  <1>7. x # Idle /\ x.pc # "locked" /\ h.pc # "idle"
    BY <1>1, <1>4 DEF Idle
  <1>8. h.neg.agreement \in I
    BY <1>2 DEF CopiesOver
  <1>9. StoreShape(I)'
    BY <1>1, <1>8 DEF LockOver, StoreShape
  <1>10. RowChange(s, 0, "free") /\ AllForward
    BY <1>1, TableKept
  <1> QED
    BY <1>1, <1>4, <1>5, <1>6, <1>7, <1>9, <1>10, GoOnKeeps

\* processMessage: the answer is queued and the request acknowledged.
LEMMA HandlerApplyKeeps ==
  ASSUME NEW I, Before(I), NEW s \in Roles, NEW k \in Slots, HandlerApply(s, k)
  PROVE  LockOver(I)' /\ AllForward
  <1> DEFINE h == http[s][k]
             ack == [ppid |-> h.neg.ppid, cpid |-> h.neg.cpid]
  <1>1. /\ LockOver(I) /\ UNCHANGED <<table, agreements, control, poll, up>> /\ h.pc = "apply"
        /\ queue' = [queue EXCEPT ![s] = @ \o Operations(h.entries)]
        /\ Answer(s, k, "answered", ack)
    BY DEF HandlerApply, Before, store
  <1>2. h.neg \in CopiesOver(s, I) /\ h.entries \in Seq(EntriesOver(s, I))
    BY <1>1, SlotShapes DEF LockOver
  <1>3. ack \in AcksOver(I)
    BY <1>2 DEF CopiesOver, PpidsOver, CpidsOver, AcksOver
  <1> HIDE DEF ack
  <1>4. QueuesShape(I)' /\ \A x \in Roles : x # s => queue'[x] = queue[x]
    BY <1>1, <1>2, QueueGrows DEF LockOver
  <1>5. StoreShape(I)' /\ RowChange(s, 0, "free") /\ AllForward
    BY <1>1, TableKept DEF LockOver
  <1> QED
    BY <1>1, <1>3, <1>4, <1>5, AnswerKeeps

-----------------------------------------------------------------------------
(* Every step keeps the lock invariant: the reconcilers                    *)

\* The worker of s goes on; the row it writes, if any, is its own or free.
LEMMA WorkerStepKeeps ==
  ASSUME NEW I, LockOver(I), NEW s \in Roles, up[s], worker[s].pc # "wait",
         NEW n \in WorkersOver(s, I), n.pc # "wait", WorkerBecomes(s, n), http' = http,
         StoreShape(I)', QueuesShape(I)', \A x \in Roles : x # s => queue'[x] = queue[x],
         NEW i, NEW o \in {"free", "worker"}, RowChange(s, i, o),
         n.pc \in Busy =>
           /\ n.neg.id \in DOMAIN table'[s] /\ table'[s][n.neg.id].lock = "worker"
           /\ n.neg = SetState(FromModel(table'[s][n.neg.id], n.neg.id), n.op.entry.target)
           /\ n.op.entry.target \in validTransitions[table'[s][n.neg.id].state],
         control' = control, up' = up
  PROVE  LockOver(I)'
  <1>1. /\ HandlersShape(I)' /\ WorkersShape(I)' /\ Waiting' /\ worker'[s] = n
        /\ \A x \in Roles : x # s => worker'[x] = worker[x] /\ WorkerGoesOn(x)
        /\ \A x \in Roles, y \in Slots : SlotGoesOn(x, y)
    BY WorkerMoves
  <1>2. ControlsShape(I)'
    BY DEF LockOver, ControlsShape
  <1>3. DownIsEmpty'
    BY <1>1 DEF LockOver, DownIsEmpty
  <1>4. \A y \in Slots : y # o
    BY SlotsAssumption
  <1>5. WorkerHolds(s)'
    BY <1>1 DEF WorkerHolds
  <1>6. \A x \in Roles : WorkerHolds(x)' /\ \A y \in Slots : HandlerHolds(x, y)'
    BY <1>1, <1>4, <1>5, HoldsKept
  <1> QED
    BY <1>1, <1>2, <1>3, <1>6 DEF LockOver

\* A worker that is not idle is one of a running process.
LEMMA WorkerIsUp ==
  ASSUME NEW I, LockOver(I), NEW s \in Roles, worker[s].pc # "idle"
  PROVE  up[s] /\ worker[s].op \in OperationsOver(s, I)
  <1>1. worker[s] # Idle
    BY DEF Idle
  <1> QED
    BY <1>1, WorkerShapes DEF LockOver, DownIsEmpty

\* A worker that has nothing locked any more.
LEMMA LooseWorkers ==
  ASSUME NEW I, NEW s \in Roles, NEW op \in OperationsOver(s, I),
         NEW pc \in {"acquire", "failed", "terminate"}
  PROVE  LET n == [pc |-> pc, op |-> op] IN
         n \in WorkersOver(s, I) /\ n.pc \notin Busy /\ n.pc # "wait" /\ n.pc = pc /\ n.op = op
  BY DEF WorkersOver, Busy

LEMMA IdleWorker ==
  ASSUME NEW I, NEW s \in Roles
  PROVE  Idle \in WorkersOver(s, I) /\ Idle.pc \notin Busy /\ Idle.pc # "wait"
  BY DEF WorkersOver, Idle, Busy

\* An operation is taken off the deque.
LEMMA TakeKeeps ==
  ASSUME NEW I, Before(I), NEW s \in Roles, NEW i \in DOMAIN queue[s], Take(s, i)
  PROVE  LockOver(I)' /\ AllForward
  <1>1. /\ LockOver(I) /\ UNCHANGED <<table, agreements, http, control, up>>
        /\ up[s] /\ worker[s].pc = "idle"
        /\ queue' = [queue EXCEPT ![s] = SubSeq(@, 1, i - 1) \o SubSeq(@, i + 1, Len(@))]
    BY DEF Take, Before, store
  <1>2. queue[s] \in Seq(QueuedOver(s, I)) /\ DOMAIN queue = Roles
    BY <1>1 DEF LockOver, QueuesShape
  <1>3. i \in 1..Len(queue[s]) /\ Len(queue[s]) \in Nat /\ queue[s][i] \in QueuedOver(s, I)
    BY <1>2, LenProperties, ElementOfSeq
  <1>4. SubSeq(queue[s], 1, i - 1) \o SubSeq(queue[s], i + 1, Len(queue[s])) \in Seq(QueuedOver(s, I))
    <2>1. \A j \in 1..(i - 1) : queue[s][j] \in QueuedOver(s, I)
      BY <1>2, <1>3, ElementOfSeq
    <2>2. \A j \in (i + 1)..Len(queue[s]) : queue[s][j] \in QueuedOver(s, I)
      BY <1>2, <1>3, ElementOfSeq
    <2>3. SubSeq(queue[s], 1, i - 1) \in Seq(QueuedOver(s, I))
      BY <1>2, <1>3, <2>1, SubSeqProperties
    <2>4. SubSeq(queue[s], i + 1, Len(queue[s])) \in Seq(QueuedOver(s, I))
      BY <1>2, <1>3, <2>2, SubSeqProperties
    <2> QED
      BY <2>3, <2>4, ConcatProperties
  <1>5. QueuesShape(I)' /\ \A x \in Roles : x # s => queue'[x] = queue[x]
    BY <1>1, <1>2, <1>4 DEF LockOver, QueuesShape
  <1>6. PICK op \in OperationsOver(s, I) : op = [queue[s][i] EXCEPT !.attempts = @ + 1]
    <2>1. 0..(MaxAttempts - 1) \subseteq Nat /\ \A a \in 0..(MaxAttempts - 1) : a + 1 \in 0..MaxAttempts
      BY BoundsAssumption
    <2> QED
      BY <1>3, <2>1 DEF QueuedOver, OperationsOver
  <1>7. WorkerBecomes(s, [pc |-> "acquire", op |-> op])
    BY <1>6 DEF Take, WorkerBecomes
  <1> DEFINE n == [pc |-> "acquire", op |-> op]
  <1>8. n \in WorkersOver(s, I) /\ n.pc \notin Busy /\ n.pc # "wait"
    BY LooseWorkers
  <1>9. WorkerBecomes(s, n)
    BY <1>7
  <1> HIDE DEF n
  <1>10. StoreShape(I)' /\ RowChange(s, 0, "free") /\ AllForward
    BY <1>1, TableKept DEF LockOver
  <1> QED
    BY <1>1, <1>5, <1>8, <1>9, <1>10, WorkerStepKeeps

\* reconcileEntry: the row is locked and the next state set in the copy.
LEMMA AcquireKeeps ==
  ASSUME NEW I, Before(I), NEW s \in Roles, Acquire(s)
  PROVE  LockOver(I)' /\ AllForward
  <1> DEFINE op == worker[s].op
  <1>1. /\ LockOver(I) /\ UNCHANGED <<agreements, queue, http, control, up>>
        /\ worker[s].pc = "acquire"
    BY DEF Acquire, Before
  <1>2. PICK i \in EntryRows(s, op.entry) :
          /\ CanUpdate(s, i, op.entry) /\ SetLock(s, i, "worker")
          /\ worker' = [worker EXCEPT ![s] =
               [pc |-> "send", op |-> op,
                neg |-> SetState(FromModel(table[s][i], i), op.entry.target)]]
    BY DEF Acquire
  <1>3. up[s] /\ op \in OperationsOver(s, I) /\ op.entry.target \in States
    BY <1>1, WorkerIsUp DEF OperationsOver, EntriesOver
  <1>4. i \in DOMAIN table[s] /\ table[s][i].lock = "free" /\ "worker" \in Locks
        /\ op.entry.target \in validTransitions[table[s][i].state]
    BY <1>2 DEF EntryRows, Lookup, CanUpdate, CanSetState, Free, Locks
  <1>5. /\ StoreShape(I)' /\ RowChange(s, i, "free") /\ AllForward
        /\ table'[s][i].lock = "worker" /\ SameData(table[s][i], table'[s][i])
        /\ i \in DOMAIN table'[s]
    BY <1>1, <1>2, <1>4, LockWritten DEF LockOver
  <1>6. FromModel(table[s][i], i) \in CopiesOver(s, I) /\ i \in Nat
    BY <1>1, <1>4, RowShapes DEF LockOver
  <1> DEFINE neg == SetState(FromModel(table[s][i], i), op.entry.target)
             n == [pc |-> "send", op |-> op, neg |-> neg]
  <1>7. neg.id = i
    BY DEF SetState, FromModel
  <1>8. neg \in CopiesOver(s, I)
    BY <1>3, <1>6 DEF SetState, CopiesOver
  <1>9. neg = SetState(FromModel(table'[s][i], i), op.entry.target)
    BY <1>5, <1>6 DEF SameData
  <1> HIDE DEF neg, op
  <1>10. n \in WorkersOver(s, I) /\ n.pc = "send" /\ n.op = op /\ n.neg = neg
    BY <1>3, <1>8 DEF WorkersOver
  <1>11. WorkerBecomes(s, n)
    BY <1>2 DEF WorkerBecomes, neg, op
  <1> HIDE DEF n
  <1>12. /\ n.neg.id \in DOMAIN table'[s] /\ table'[s][n.neg.id].lock = "worker"
         /\ n.neg = SetState(FromModel(table'[s][n.neg.id], n.neg.id), n.op.entry.target)
         /\ n.op.entry.target \in validTransitions[table'[s][n.neg.id].state]
    BY <1>4, <1>5, <1>7, <1>9, <1>10 DEF SameData
  <1>13. QueuesShape(I)'
    BY <1>1 DEF LockOver, QueuesShape
  <1> QED
    BY <1>1, <1>3, <1>5, <1>10, <1>11, <1>12, <1>13, WorkerStepKeeps

\* reconcileEntry: the row cannot be had.
LEMMA AcquireFailsKeeps ==
  ASSUME NEW I, Before(I), NEW s \in Roles, AcquireFails(s)
  PROVE  LockOver(I)' /\ AllForward
  <1> DEFINE op == worker[s].op
             n == [pc |-> "failed", op |-> op]
  <1>1. /\ LockOver(I) /\ UNCHANGED <<agreements, queue, http, control, up>>
        /\ worker[s].pc = "acquire" /\ WorkerBecomes(s, n)
    BY DEF AcquireFails, Before, WorkerBecomes
  <1>2. up[s] /\ op \in OperationsOver(s, I)
    BY <1>1, WorkerIsUp
  <1>3. n \in WorkersOver(s, I) /\ n.pc \notin Busy /\ n.pc # "wait"
    BY <1>2, LooseWorkers
  <1> HIDE DEF n
  <1>4. QueuesShape(I)'
    BY <1>1 DEF LockOver, QueuesShape
  <1>5. CASE table' = table
    <2>1. StoreShape(I)' /\ RowChange(s, 0, "free") /\ AllForward
      BY <1>1, <1>5, TableKept DEF LockOver
    <2> QED
      BY <1>1, <1>2, <1>3, <1>4, <2>1, WorkerStepKeeps
  <1>6. CASE \E i \in DOMAIN table[s] : table[s][i].lock = "free" /\ SetLock(s, i, "leaked")
    <2>1. PICK i \in DOMAIN table[s] : table[s][i].lock = "free" /\ SetLock(s, i, "leaked")
      BY <1>6
    <2>2. StoreShape(I)' /\ RowChange(s, i, "free") /\ AllForward
      BY <1>1, <2>1, LockWritten DEF LockOver, Locks
    <2> QED
      BY <1>1, <1>2, <1>3, <1>4, <2>2, WorkerStepKeeps
  <1> QED
    BY <1>5, <1>6 DEF AcquireFails, EntryRows, Lookup

\* What a worker with a copy knows.
LEMMA BusyWorker ==
  ASSUME NEW I, LockOver(I), NEW s \in Roles, worker[s].pc \in Busy
  PROVE  LET w == worker[s] IN
         /\ up[s] /\ w.op \in OperationsOver(s, I) /\ w.neg \in CopiesOver(s, I)
         /\ w.neg.id \in DOMAIN table[s] /\ table[s][w.neg.id].lock = "worker"
         /\ w.neg = SetState(FromModel(table[s][w.neg.id], w.neg.id), w.op.entry.target)
         /\ w.op.entry.target \in validTransitions[table[s][w.neg.id].state]
         /\ w.neg.state = w.op.entry.target /\ w.neg.ppid = table[s][w.neg.id].ppid
         /\ w.neg.cpid = table[s][w.neg.id].cpid /\ w.neg.agreement = table[s][w.neg.id].agreement
  <1> DEFINE w == worker[s]
  <1>1. w.pc # "idle"
    BY DEF Busy
  <1>2. up[s] /\ w.op \in OperationsOver(s, I)
    BY <1>1, WorkerIsUp
  <1>3. w.neg \in CopiesOver(s, I)
    BY WorkerShapes DEF LockOver
  <1>4. /\ w.neg.id \in DOMAIN table[s] /\ table[s][w.neg.id].lock = "worker"
        /\ w.neg = SetState(FromModel(table[s][w.neg.id], w.neg.id), w.op.entry.target)
        /\ w.op.entry.target \in validTransitions[table[s][w.neg.id].state]
    BY DEF LockOver, WorkerHolds
  <1> DEFINE c == FromModel(table[s][w.neg.id], w.neg.id)
  <1>5. /\ c.ppid = table[s][w.neg.id].ppid /\ c.cpid = table[s][w.neg.id].cpid
        /\ c.agreement = table[s][w.neg.id].agreement
    BY DEF FromModel
  <1>6. c \in CopiesOver(s, I)
    BY <1>4, RowShapes DEF LockOver
  <1> HIDE DEF c
  <1>7. LET n == SetState(c, w.op.entry.target) IN
          n.state = w.op.entry.target /\ n.ppid = c.ppid /\ n.cpid = c.cpid /\ n.agreement = c.agreement
    BY <1>6 DEF SetState, CopiesOver
  <1> QED
    BY <1>2, <1>3, <1>4, <1>5, <1>7 DEF c

\* The request reaches the peer and the worker waits for the answer.
LEMMA SendHTTPRequestKeeps ==
  ASSUME NEW I, Before(I), NEW s \in Roles, NEW k \in Slots, SendHTTPRequest(s, k)
  PROVE  LockOver(I)' /\ AllForward
  <1> DEFINE p == Peer(s)
             w == worker[s]
             req == [base |-> w.op.entry.base, pid |-> w.op.entry.pid, msg |-> w.op.entry.msg]
             h == [pc |-> "arrived", live |-> TRUE, req |-> req]
             n == [pc |-> "wait", op |-> w.op, neg |-> w.neg, slot |-> k]
  <1>1. /\ LockOver(I) /\ UNCHANGED <<table, agreements, queue, control, up>>
        /\ w.pc = "send" /\ up[p] /\ http[p][k].pc = "idle"
        /\ http' = [http EXCEPT ![p][k] = h] /\ WorkerBecomes(s, n)
    BY DEF SendHTTPRequest, Before, store, WorkerBecomes
  <1>2. p \in Roles /\ p # s /\ Peer(p) = s /\ \A x \in Roles : x = s \/ x = p
    BY DEF Peer, Roles
  <1>3. w.pc \in Busy /\ w.op \in OperationsOver(s, I) /\ w.neg \in CopiesOver(s, I) /\ up[s]
    BY <1>1, BusyWorker DEF Busy
  <1>4. h \in HandlersOver(p, I)
    <2>1. w.op.entry \in EntriesOver(s, I)
      BY <1>3 DEF OperationsOver
    <2>2. req \in RequestsOver(p, I)
      BY <1>2, <2>1 DEF EntriesOver, RequestsOver
    <2> HIDE DEF req
    <2> QED
      BY <2>2 DEF HandlersOver
  <1>5. n \in WorkersOver(s, I) /\ n.pc = "wait" /\ n.slot = k /\ n.op = w.op /\ n.neg = w.neg
    BY <1>3 DEF WorkersOver
  <1>6. h.live /\ h.pc = "arrived" /\ h # Idle
    BY DEF Idle
  <1> HIDE DEF h, n
  <1>7. /\ HandlersShape(I)' /\ http'[p][k] = h
        /\ \A x \in Roles, y \in Slots : x # p \/ y # k => http'[x][y] = http[x][y]
    <2>1. HandlersShape(I)
      BY <1>1 DEF LockOver
    <2> QED
      BY <1>1, <1>2, <1>4, <2>1 DEF HandlersShape
  <1>8. WorkersShape(I)' /\ worker'[s] = n /\ \A x \in Roles : x # s => worker'[x] = worker[x]
    BY <1>1, <1>5, WorkerWritten DEF LockOver
  <1>9. Waiting'
    <2>1. \A x \in Roles : worker[x].pc = "wait" => worker[x].slot \in Slots
      BY <1>1, WorkerShapes DEF LockOver
    <2>2. \A y \in Slots : ~(http[p][y] # Idle /\ http[p][y].live)
      BY <1>1, <1>2 DEF LockOver, Waiting
    <2>3. \A y \in Slots : http'[p][y] # Idle /\ http'[p][y].live => y = k
      BY <1>2, <1>7, <2>2
    <2>4. Waiting
      BY <1>1 DEF LockOver
    <2> QED
      BY <1>2, <1>5, <1>6, <1>7, <1>8, <2>1, <2>3, <2>4 DEF Waiting
  <1>10. DownIsEmpty'
    BY <1>1, <1>2, <1>3, <1>7, <1>8 DEF LockOver, DownIsEmpty
  <1>11. /\ \A x \in Roles : WorkerGoesOn(x)
         /\ \A x \in Roles, y \in Slots : SlotGoesOn(x, y)
    BY <1>2, <1>3, <1>5, <1>6, <1>7, <1>8 DEF WorkerGoesOn, SlotGoesOn
  <1>12. \A i, o : RowChange(s, i, o)
    BY <1>1, TableKept
  <1>13. StoreShape(I)' /\ AllForward
    BY <1>1, TableKept DEF LockOver
  <1>14. \A x \in Roles : WorkerHolds(x)' /\ \A y \in Slots : HandlerHolds(x, y)'
    BY <1>1, <1>11, <1>12, HoldsKept
  <1>15. QueuesShape(I)' /\ ControlsShape(I)'
    BY <1>1 DEF LockOver, QueuesShape, ControlsShape
  <1> QED
    BY <1>1, <1>7, <1>8, <1>9, <1>10, <1>13, <1>14, <1>15 DEF LockOver

\* The request fails with the copy still in the worker's hands.
LEMMA FailedWorker ==
  ASSUME NEW I, LockOver(I), NEW s \in Roles, worker[s].pc \in Busy
  PROVE  LET n == [pc |-> "httpError", op |-> worker[s].op, neg |-> worker[s].neg, ack |-> NoAck] IN
         /\ n \in WorkersOver(s, I) /\ n.pc = "httpError" /\ n.pc \in Busy /\ n.pc # "wait"
         /\ n.op = worker[s].op /\ n.neg = worker[s].neg
  <1>1. worker[s].op \in OperationsOver(s, I) /\ worker[s].neg \in CopiesOver(s, I) /\ NoAck \in AcksOver(I)
    BY BusyWorker, NoAckShape
  <1> QED
    BY <1>1 DEF WorkersOver, Busy

LEMMA SendFailsEarlyKeeps ==
  ASSUME NEW I, Before(I), NEW s \in Roles, SendFailsEarly(s)
  PROVE  LockOver(I)' /\ AllForward
  <1> DEFINE n == [pc |-> "httpError", op |-> worker[s].op, neg |-> worker[s].neg, ack |-> NoAck]
  <1>1. /\ LockOver(I) /\ UNCHANGED <<table, agreements, queue, http, control, up>>
        /\ worker[s].pc = "send" /\ worker[s].pc \in Busy /\ WorkerBecomes(s, n)
    BY DEF SendFailsEarly, Before, store, WorkerBecomes, Busy
  <1>2. /\ n \in WorkersOver(s, I) /\ n.pc # "wait" /\ n.op = worker[s].op /\ n.neg = worker[s].neg
    BY <1>1, FailedWorker
  <1> HIDE DEF n
  <1>3. StoreShape(I)' /\ RowChange(s, 0, "free") /\ AllForward
    BY <1>1, TableKept DEF LockOver
  <1>4. /\ up[s] /\ n.neg.id \in DOMAIN table'[s] /\ table'[s][n.neg.id].lock = "worker"
        /\ n.neg = SetState(FromModel(table'[s][n.neg.id], n.neg.id), n.op.entry.target)
        /\ n.op.entry.target \in validTransitions[table'[s][n.neg.id].state]
    BY <1>1, <1>2, BusyWorker
  <1>5. QueuesShape(I)'
    BY <1>1 DEF LockOver, QueuesShape
  <1> QED
    BY <1>1, <1>2, <1>3, <1>4, <1>5, WorkerStepKeeps

\* The connection breaks: the handler's client no longer listens.
LEMMA ConnectionLostKeeps ==
  ASSUME NEW I, Before(I), NEW s \in Roles, ConnectionLost(s)
  PROVE  LockOver(I)' /\ AllForward
  <1> DEFINE p == Peer(s)
             w == worker[s]
             k == w.slot
             h == [http[p][k] EXCEPT !.live = FALSE]
             n == [pc |-> "httpError", op |-> w.op, neg |-> w.neg, ack |-> NoAck]
  <1>1. /\ LockOver(I) /\ UNCHANGED <<table, agreements, queue, control, up>>
        /\ w.pc = "wait" /\ w.pc \in Busy
        /\ http' = [http EXCEPT ![p][k].live = FALSE] /\ WorkerBecomes(s, n)
    BY DEF ConnectionLost, Before, store, WorkerBecomes, Busy
  <1>2. p \in Roles /\ p # s /\ Peer(p) = s /\ \A x \in Roles : x = s \/ x = p
    BY DEF Peer, Roles
  <1>3. k \in Slots /\ http[p][k] # Idle /\ up[s] /\ up[p]
    <2>1. k \in Slots
      BY <1>1, WorkerShapes DEF LockOver
    <2>2. http[p][k] # Idle
      BY <1>1 DEF LockOver, Waiting
    <2> QED
      BY <1>1, <1>2, <2>1, <2>2, BusyWorker DEF LockOver, DownIsEmpty
  <1>4. /\ h \in HandlersOver(p, I) /\ h.pc = http[p][k].pc /\ ~h.live
        /\ h.pc = "locked" => h.neg = http[p][k].neg
    <2>1. http[p][k] \in HandlersOver(p, I)
      BY <1>1, <1>2, <1>3, SlotShapes DEF LockOver
    <2> QED
      BY <1>3, <2>1 DEF HandlersOver
  <1>5. n \in WorkersOver(s, I) /\ n.pc = "httpError" /\ n.op = w.op /\ n.neg = w.neg
    BY <1>1, FailedWorker
  <1>6. /\ HandlersShape(I)' /\ http'[p][k] = h
        /\ \A x \in Roles, y \in Slots : x # p \/ y # k => http'[x][y] = http[x][y]
    <2>1. HandlersShape(I)
      BY <1>1 DEF LockOver
    <2>2. SlotBecomes(p, k, h)
      BY <1>1 DEF SlotBecomes
    <2> HIDE DEF h, p, k
    <2> QED
      BY <1>2, <1>3, <1>4, <2>1, <2>2, SlotWritten
  <1> HIDE DEF h, n
  <1>7. WorkersShape(I)' /\ worker'[s] = n /\ \A x \in Roles : x # s => worker'[x] = worker[x]
    BY <1>1, <1>5, WorkerWritten DEF LockOver
  <1>8. Waiting'
    <2>1. \A x \in Roles : worker[x].pc = "wait" => worker[x].slot \in Slots
      BY <1>1, WorkerShapes DEF LockOver
    <2>2. Waiting
      BY <1>1 DEF LockOver
    <2>3. \A y \in Slots : http[p][y] # Idle /\ http[p][y].live => y = k
      BY <1>2, <2>2 DEF Waiting
    <2>4. \A y \in Slots : ~(http'[p][y] # Idle /\ http'[p][y].live)
      BY <1>2, <1>4, <1>6, <2>3
    <2> QED
      BY <1>2, <1>5, <1>6, <1>7, <2>1, <2>2, <2>4 DEF Waiting
  <1>9. DownIsEmpty'
    BY <1>1, <1>2, <1>3, <1>6, <1>7 DEF LockOver, DownIsEmpty
  <1>10. /\ \A x \in Roles : WorkerGoesOn(x)
         /\ \A x \in Roles, y \in Slots : SlotGoesOn(x, y)
    BY <1>1, <1>2, <1>4, <1>5, <1>6, <1>7 DEF WorkerGoesOn, SlotGoesOn
  <1>11. \A i, o : RowChange(s, i, o)
    BY <1>1, TableKept
  <1>12. StoreShape(I)' /\ AllForward
    BY <1>1, TableKept DEF LockOver
  <1>13. \A x \in Roles : WorkerHolds(x)' /\ \A y \in Slots : HandlerHolds(x, y)'
    BY <1>1, <1>10, <1>11, HoldsKept
  <1>14. QueuesShape(I)' /\ ControlsShape(I)'
    BY <1>1 DEF LockOver, QueuesShape, ControlsShape
  <1> QED
    BY <1>1, <1>6, <1>7, <1>8, <1>9, <1>12, <1>13, <1>14 DEF LockOver

\* An acknowledgement brings at most the peer's PID.
LEMMA AckApplied ==
  ASSUME NEW s \in Roles, NEW I, NEW n \in CopiesOver(s, I), NEW ack \in AcksOver(I)
  PROVE  LET r == ApplyResponse(n, ack) IN
         /\ r \in CopiesOver(s, I) /\ KeepsPIDs(n, r)
         /\ r.id = n.id /\ r.state = n.state /\ r.agreement = n.agreement
  <1> DEFINE r == ApplyResponse(n, ack)
             a == [n EXCEPT !.ppid = ack.ppid, !.modified = TRUE]
             b == [n EXCEPT !.cpid = ack.cpid, !.modified = TRUE]
  <1>1. ack.ppid \in I /\ ack.cpid \in I
    BY DEF AcksOver
  <1>2. \/ r = a /\ n.ppid = emptyUUID /\ ack.ppid # emptyUUID
        \/ r = b /\ n.cpid = emptyUUID /\ ack.cpid # emptyUUID
        \/ r = n
    BY DEF ApplyResponse
  <1>3. ASSUME n.ppid = emptyUUID, ack.ppid # emptyUUID
        PROVE  /\ a \in CopiesOver(s, I) /\ KeepsPIDs(n, a)
               /\ a.id = n.id /\ a.state = n.state /\ a.agreement = n.agreement
    BY <1>1, <1>3 DEF CopiesOver, PpidsOver, KeepsPIDs
  <1>4. ASSUME n.cpid = emptyUUID, ack.cpid # emptyUUID
        PROVE  /\ b \in CopiesOver(s, I) /\ KeepsPIDs(n, b)
               /\ b.id = n.id /\ b.state = n.state /\ b.agreement = n.agreement
    BY <1>1, <1>4 DEF CopiesOver, CpidsOver, KeepsPIDs
  <1> HIDE DEF r, a, b
  <1> QED
    BY <1>2, <1>3, <1>4 DEF KeepsPIDs, r

\* reconcileEntry: the state that the peer acknowledged is stored.
LEMMA CommitEffect ==
  ASSUME NEW I, Before(I), NEW s \in Roles, Commit(s)
  PROVE  /\ worker[s].pc = "answered" /\ WorkerBecomes(s, Idle)
         /\ UNCHANGED <<agreements, queue, http, control, poll, up>>
         /\ LET n == ApplyResponse(worker[s].neg, worker[s].ack) IN
            /\ n \in CopiesOver(s, I) /\ n.id = worker[s].neg.id
            /\ n.id \in DOMAIN table[s] /\ table[s][n.id].lock = "worker"
            /\ KeepsPIDs(worker[s].neg, n)
            /\ n.state = worker[s].op.entry.target /\ n.state = worker[s].neg.state
            /\ n.agreement = worker[s].neg.agreement /\ n.agreement = table[s][n.id].agreement
            /\ ForwardRow(table[s][n.id], n) /\ Put(s, n)
  <1> DEFINE w == worker[s]
             n == ApplyResponse(w.neg, w.ack)
  <1>1. /\ w.pc = "answered" /\ w.pc \in Busy /\ WorkerBecomes(s, Idle) /\ Put(s, n)
        /\ UNCHANGED <<agreements, queue, http, control, poll, up>> /\ LockOver(I)
    BY DEF Commit, Before, WorkerBecomes, Busy
  <1>2. /\ w.neg \in CopiesOver(s, I) /\ w.neg.id \in DOMAIN table[s]
        /\ table[s][w.neg.id].lock = "worker"
        /\ w.op.entry.target \in validTransitions[table[s][w.neg.id].state]
        /\ w.neg.state = w.op.entry.target /\ w.neg.ppid = table[s][w.neg.id].ppid
        /\ w.neg.cpid = table[s][w.neg.id].cpid /\ w.neg.agreement = table[s][w.neg.id].agreement
    BY <1>1, BusyWorker
  <1>3. w.ack \in AcksOver(I)
    BY <1>1, WorkerShapes DEF LockOver
  <1>4. /\ n \in CopiesOver(s, I) /\ KeepsPIDs(w.neg, n)
        /\ n.id = w.neg.id /\ n.state = w.neg.state /\ n.agreement = w.neg.agreement
    BY <1>2, <1>3, AckApplied
  <1> HIDE DEF n
  <1>5. ForwardRow(table[s][n.id], n)
    BY <1>2, <1>4 DEF ForwardRow, KeepsPIDs
  <1> QED
    BY <1>1, <1>2, <1>4, <1>5 DEF n

LEMMA CommitKeeps ==
  ASSUME NEW I, Before(I), NEW s \in Roles, Commit(s)
  PROVE  LockOver(I)' /\ AllForward
  <1> DEFINE n == ApplyResponse(worker[s].neg, worker[s].ack)
  <1>1. /\ worker[s].pc = "answered" /\ WorkerBecomes(s, Idle)
        /\ UNCHANGED <<agreements, queue, http, control, up>>
        /\ n \in CopiesOver(s, I) /\ n.id \in DOMAIN table[s] /\ table[s][n.id].lock = "worker"
        /\ ForwardRow(table[s][n.id], n) /\ Put(s, n)
    BY CommitEffect
  <1> HIDE DEF n
  <1>2. LockOver(I)
    BY DEF Before
  <1>3. StoreShape(I)' /\ RowChange(s, n.id, "worker") /\ AllForward
    BY <1>1, <1>2, CopyWritten DEF LockOver
  <1>4. QueuesShape(I)' /\ up[s]
    BY <1>1, <1>2, WorkerIsUp DEF LockOver, QueuesShape
  <1> QED
    BY <1>1, <1>2, <1>3, <1>4, IdleWorker, WorkerStepKeeps

\* handleError: another attempt is queued, and the row is released.
LEMMA RequeueKeeps ==
  ASSUME NEW I, Before(I), NEW s \in Roles, Requeue(s)
  PROVE  LockOver(I)' /\ AllForward
  <1> DEFINE w == worker[s]
  <1>1. /\ LockOver(I) /\ UNCHANGED <<agreements, http, control, up>>
        /\ w.pc \in {"failed", "httpError"} /\ w.op.attempts < MaxAttempts
        /\ queue' = [queue EXCEPT ![s] = Append(@, w.op)] /\ WorkerBecomes(s, Idle)
    BY DEF Requeue, Before, WorkerBecomes
  <1>2. up[s] /\ w.op \in OperationsOver(s, I)
    BY <1>1, WorkerIsUp
  <1>3. w.op \in QueuedOver(s, I)
    <2>1. w.op.attempts \in 0..(MaxAttempts - 1)
      BY <1>1, <1>2, BoundsAssumption DEF OperationsOver
    <2> QED
      BY <1>2, <2>1 DEF OperationsOver, QueuedOver
  <1>4. QueuesShape(I)' /\ \A x \in Roles : x # s => queue'[x] = queue[x]
    <2>1. queue[s] \in Seq(QueuedOver(s, I)) /\ QueuesShape(I)
      BY <1>1 DEF LockOver, QueuesShape
    <2>2. Append(queue[s], w.op) \in Seq(QueuedOver(s, I))
      BY <1>3, <2>1, AppendProperties
    <2> QED
      BY <1>1, <2>1, <2>2 DEF QueuesShape
  <1>5. CASE w.pc = "httpError"
    <2>1. w.pc \in Busy /\ SetLock(s, w.neg.id, "free")
      BY <1>5 DEF Busy, Requeue
    <2>2. w.neg.id \in DOMAIN table[s] /\ table[s][w.neg.id].lock = "worker" /\ "free" \in Locks
      BY <1>1, <2>1, BusyWorker DEF Locks
    <2>3. StoreShape(I)' /\ RowChange(s, w.neg.id, "worker") /\ AllForward
      BY <1>1, <2>1, <2>2, LockWritten DEF LockOver
    <2> QED
      BY <1>1, <1>2, <1>4, <1>5, <2>3, IdleWorker, WorkerStepKeeps
  <1>6. CASE w.pc # "httpError"
    <2>1. table' = table
      BY <1>6 DEF Requeue
    <2>2. StoreShape(I)' /\ RowChange(s, 0, "free") /\ AllForward
      BY <1>1, <2>1, TableKept DEF LockOver
    <2>3. w.pc # "wait"
      BY <1>1
    <2> QED
      BY <1>1, <1>2, <1>4, <2>2, <2>3, IdleWorker, WorkerStepKeeps
  <1> QED
    BY <1>5, <1>6

\* handleError: no more attempts.
LEMMA GiveUpKeeps ==
  ASSUME NEW I, Before(I), NEW s \in Roles, GiveUp(s)
  PROVE  LockOver(I)' /\ AllForward
  <1> DEFINE n == [worker[s] EXCEPT !.pc = "terminate"]
  <1>1. /\ LockOver(I) /\ UNCHANGED <<table, agreements, queue, http, control, up>>
        /\ worker[s].pc = "failed" /\ WorkerBecomes(s, n)
    BY DEF GiveUp, Before, WorkerBecomes, store
  <1>2. up[s] /\ worker[s] \in WorkersOver(s, I)
    BY <1>1, WorkerIsUp DEF LockOver, WorkersShape
  <1>3. n \in WorkersOver(s, I) /\ n.pc = "terminate"
    BY <1>1, <1>2 DEF WorkersOver, Idle
  <1> HIDE DEF n
  <1>4. n.pc \notin Busy /\ n.pc # "wait"
    BY <1>3 DEF Busy
  <1>5. StoreShape(I)' /\ RowChange(s, 0, "free") /\ AllForward
    BY <1>1, TableKept DEF LockOver
  <1>6. QueuesShape(I)'
    BY <1>1 DEF LockOver, QueuesShape
  <1> QED
    BY <1>1, <1>2, <1>3, <1>4, <1>5, <1>6, WorkerStepKeeps

\* terminateAttempt: the target state is stored unanswered.
LEMMA TerminateEffect ==
  ASSUME NEW I, Before(I), NEW s \in Roles, Terminate(s)
  PROVE  LET entry == worker[s].op.entry IN
         /\ worker[s].pc = "terminate" /\ WorkerBecomes(s, Idle)
         /\ UNCHANGED <<agreements, queue, http, control, poll, up>>
         /\ \E i \in EntryRows(s, entry) :
              /\ i \in DOMAIN table[s] /\ Free(s, i)
              /\ entry.target \in States /\ entry.target \in validTransitions[table[s][i].state]
              /\ RowBecomes(s, i, [table[s][i] EXCEPT !.state = entry.target])
  <1> DEFINE entry == worker[s].op.entry
  <1>1. /\ worker[s].pc = "terminate" /\ WorkerBecomes(s, Idle)
        /\ UNCHANGED <<agreements, queue, http, control, poll, up>> /\ LockOver(I)
    BY DEF Terminate, Before, WorkerBecomes
  <1>2. entry.target \in States
    BY <1>1, WorkerIsUp DEF OperationsOver, EntriesOver
  <1>3. PICK i \in EntryRows(s, entry) :
          CanUpdate(s, i, entry) /\ table' = [table EXCEPT ![s][i].state = entry.target]
    BY DEF Terminate
  <1>4. /\ i \in DOMAIN table[s] /\ Free(s, i)
        /\ entry.target \in validTransitions[table[s][i].state]
        /\ RowBecomes(s, i, [table[s][i] EXCEPT !.state = entry.target])
    BY <1>3 DEF EntryRows, Lookup, CanUpdate, CanSetState, RowBecomes
  <1> QED
    BY <1>1, <1>2, <1>3, <1>4

LEMMA TerminateKeeps ==
  ASSUME NEW I, Before(I), NEW s \in Roles, Terminate(s)
  PROVE  LockOver(I)' /\ AllForward
  <1> DEFINE target == worker[s].op.entry.target
  <1>1. /\ worker[s].pc = "terminate" /\ WorkerBecomes(s, Idle) /\ LockOver(I)
        /\ UNCHANGED <<agreements, queue, http, control, up>>
    BY TerminateEffect DEF Before
  <1>2. PICK i \in DOMAIN table[s] :
          /\ Free(s, i) /\ target \in States /\ target \in validTransitions[table[s][i].state]
          /\ RowBecomes(s, i, [table[s][i] EXCEPT !.state = target])
    BY TerminateEffect
  <1> DEFINE r == [table[s][i] EXCEPT !.state = target]
  <1>3. table[s][i] \in RowsOver(s, I) /\ table[s][i].lock = "free"
    BY <1>1, <1>2, RowShapes DEF LockOver, Free
  <1>4. r \in RowsOver(s, I) /\ r.state = target
        /\ r.ppid = table[s][i].ppid /\ r.cpid = table[s][i].cpid
    BY <1>2, <1>3 DEF RowsOver
  <1>5. RowBecomes(s, i, r)
    BY <1>2
  <1> HIDE DEF r
  <1>6. StoreShape(I)' /\ RowChange(s, i, "free") /\ table'[s][i] = r
    BY <1>1, <1>3, <1>4, <1>5, RowWritten DEF LockOver
  <1>7. AllForward
    BY <1>2, <1>4, <1>6 DEF AllForward, RowChange, ForwardRow, KeepsPIDs
  <1>8. QueuesShape(I)' /\ up[s] /\ worker[s].pc # "wait"
    BY <1>1, WorkerIsUp DEF LockOver, QueuesShape
  <1> QED
    BY <1>1, <1>6, <1>7, <1>8, IdleWorker, WorkerStepKeeps

-----------------------------------------------------------------------------
(* Every step keeps the lock invariant: death, restart, control plane      *)

\* What is left of row i when its process dies.
Unlocked(r, i, released) ==
  [r EXCEPT !.lock = IF r.lock = "free" \/ i \in released THEN "free" ELSE "leaked"]

\* The rows of a dying connector keep their data.
LEMMA TableAfterDeath ==
  ASSUME NEW I, StoreShape(I), NEW s \in Roles, NEW released, Die(s, released)
  PROVE  /\ StoreShape(I)' /\ AllForward /\ agreements' = agreements
         /\ \A x \in Roles : x # s => table'[x] = table[x]
         /\ DOMAIN table'[s] = DOMAIN table[s]
         /\ \A i \in DOMAIN table[s] :
              /\ SameData(table[s][i], table'[s][i]) /\ table'[s][i].lock \in {"free", "leaked"}
  <1> DEFINE rows == [i \in DOMAIN table[s] |-> IF table[s][i].lock = "free" \/ i \in released
                        THEN [table[s][i] EXCEPT !.lock = "free"]
                        ELSE [table[s][i] EXCEPT !.lock = "leaked"]]
  <1>1. table' = [table EXCEPT ![s] = rows] /\ agreements' = agreements
    BY DEF Die
  <1>2. table[s] \in Seq(RowsOver(s, I)) /\ Len(table[s]) \in Nat /\ DOMAIN table[s] = 1..Len(table[s])
    BY LenProperties DEF StoreShape
  <1>3. \A i \in DOMAIN table[s] :
          /\ rows[i] \in RowsOver(s, I) /\ rows[i].lock \in {"free", "leaked"}
          /\ SameData(table[s][i], rows[i])
    <2>1. SUFFICES ASSUME NEW i \in DOMAIN table[s]
                   PROVE  /\ rows[i] \in RowsOver(s, I) /\ rows[i].lock \in {"free", "leaked"}
                          /\ SameData(table[s][i], rows[i])
      OBVIOUS
    <2> DEFINE r == table[s][i]
    <2>2. r \in RowsOver(s, I)
      BY RowShapes
    <2> HIDE DEF r
    <2>3. ASSUME NEW o \in {"free", "leaked"}
          PROVE  LET q == [r EXCEPT !.lock = o] IN
                 q \in RowsOver(s, I) /\ q.lock = o /\ SameData(r, q)
      BY <2>2 DEF RowsOver, Locks, SameData, FromModel
    <2>4. \E o \in {"free", "leaked"} : rows[i] = [r EXCEPT !.lock = o]
      BY DEF r
    <2> HIDE DEF rows
    <2>5. PICK o \in {"free", "leaked"} : rows[i] = [r EXCEPT !.lock = o]
      BY <2>4
    <2> QED
      BY <2>3, <2>5 DEF r
  <1>4. rows \in [1..Len(table[s]) -> RowsOver(s, I)] /\ DOMAIN rows = DOMAIN table[s]
    BY <1>2, <1>3
  <1>5. rows \in Seq(RowsOver(s, I))
    BY <1>2, <1>4, SeqDef
  <1> HIDE DEF rows
  <1>6. table'[s] = rows /\ DOMAIN table' = Roles /\ \A x \in Roles : x # s => table'[x] = table[x]
    BY <1>1 DEF StoreShape
  <1>7. StoreShape(I)'
    BY <1>1, <1>5, <1>6 DEF StoreShape
  <1>8. AllForward
    BY <1>3, <1>6 DEF AllForward, ForwardRow, KeepsPIDs, SameData
  <1> QED
    BY <1>1, <1>3, <1>4, <1>6, <1>7, <1>8

\* The handlers of the dying connector are gone, those of its peer go on.
LEMMA HandlersAfterDeath ==
  ASSUME NEW I, LockOver(I), NEW s \in Roles, NEW released, Die(s, released)
  PROVE  /\ HandlersShape(I)'
         /\ \A k \in Slots : http'[s][k] = Idle
         /\ \A k \in Slots : http'[Peer(s)][k] # Idle => ~http'[Peer(s)][k].live
         /\ \A k \in Slots : http[Peer(s)][k] = Idle => http'[Peer(s)][k] = Idle
         /\ \A k \in Slots : http[Peer(s)][k] # Idle =>
              http'[Peer(s)][k] = [http[Peer(s)][k] EXCEPT !.live = FALSE]
         /\ \A k \in Slots : SlotGoesOn(s, k) /\ SlotGoesOn(Peer(s), k)
  <1> DEFINE p == Peer(s)
             there == [k \in Slots |-> IF http[p][k].pc = "idle" THEN Idle
                                       ELSE [http[p][k] EXCEPT !.live = FALSE]]
             here == [k \in Slots |-> Idle]
  <1>1. p \in Roles /\ p # s /\ \A x \in Roles : x = s \/ x = p
    BY DEF Peer, Roles
  <1>2. http' = [http EXCEPT ![s] = here, ![p] = there]
    BY DEF Die
  <1>3. HandlersShape(I)
    BY DEF LockOver
  <1>4. \A k \in Slots : /\ http[p][k] \in HandlersOver(p, I)
                         /\ (http[p][k].pc = "idle" <=> http[p][k] = Idle)
    BY <1>1, <1>3, SlotShapes
  <1>5. ASSUME NEW k \in Slots, http[p][k] # Idle
        PROVE  LET h == http[p][k]
                   n == [h EXCEPT !.live = FALSE]
               IN  /\ n \in HandlersOver(p, I) /\ ~n.live /\ n.pc = h.pc
                   /\ h.pc = "locked" => n.neg = h.neg
    BY <1>4, <1>5 DEF HandlersOver
  <1>6. Idle \in HandlersOver(p, I) /\ Idle \in HandlersOver(s, I) /\ Idle.pc = "idle"
    BY DEF HandlersOver, Idle
  <1>7. \A k \in Slots : /\ there[k] \in HandlersOver(p, I)
                         /\ http[p][k] = Idle => there[k] = Idle
                         /\ http[p][k] # Idle => there[k] = [http[p][k] EXCEPT !.live = FALSE]
    BY <1>4, <1>5, <1>6
  <1>8. DOMAIN there = Slots /\ DOMAIN here = Slots /\ \A k \in Slots : here[k] = Idle
    OBVIOUS
  <1> HIDE DEF here, there, p
  <1>9. DOMAIN http' = Roles /\ http'[s] = here /\ http'[p] = there
    BY <1>1, <1>2, <1>3 DEF HandlersShape
  <1>10. HandlersShape(I)'
    <2>1. DOMAIN http'[s] = Slots /\ \A k \in Slots : http'[s][k] \in HandlersOver(s, I)
      BY <1>6, <1>8, <1>9
    <2>2. DOMAIN http'[p] = Slots /\ \A k \in Slots : http'[p][k] \in HandlersOver(p, I)
      BY <1>7, <1>8, <1>9
    <2>3. ASSUME NEW x \in Roles
          PROVE  DOMAIN http'[x] = Slots /\ \A k \in Slots : http'[x][k] \in HandlersOver(x, I)
      BY <1>1, <2>1, <2>2
    <2> QED
      BY <1>9, <2>3 DEF HandlersShape
  <1>11. ASSUME NEW k \in Slots PROVE SlotGoesOn(s, k) /\ SlotGoesOn(p, k)
    <2>1. SlotGoesOn(s, k)
      BY <1>6, <1>8, <1>9 DEF SlotGoesOn
    <2>2. CASE http[p][k] = Idle
      BY <1>6, <1>7, <1>9, <2>1, <2>2 DEF SlotGoesOn
    <2>3. CASE http[p][k] # Idle
      <3>1. http'[p][k] = [http[p][k] EXCEPT !.live = FALSE]
        BY <1>7, <1>9, <2>3
      <3>2. http'[p][k].pc = http[p][k].pc /\ (http[p][k].pc = "locked" => http'[p][k].neg = http[p][k].neg)
        BY <1>5, <2>3, <3>1
      <3> QED
        BY <2>1, <3>2 DEF SlotGoesOn
    <2> QED
      BY <2>2, <2>3
  <1>12. \A k \in Slots : http'[p][k] # Idle => ~http'[p][k].live
    BY <1>5, <1>7, <1>9
  <1> QED
    BY <1>7, <1>8, <1>9, <1>10, <1>11, <1>12 DEF p

\* The dying connector's worker is gone; its peer's does not wait for it.
LEMMA WorkersAfterDeath ==
  ASSUME NEW I, LockOver(I), NEW s \in Roles, NEW released, Die(s, released)
  PROVE  /\ WorkersShape(I)' /\ worker'[s] = Idle
         /\ worker'[Peer(s)].pc # "wait" /\ WorkerGoesOn(Peer(s))
         /\ worker[Peer(s)] = Idle => worker'[Peer(s)] = Idle
         /\ IF worker[Peer(s)].pc = "wait"
              THEN worker'[Peer(s)] = [pc |-> "httpError", op |-> worker[Peer(s)].op,
                                       neg |-> worker[Peer(s)].neg, ack |-> NoAck]
              ELSE worker'[Peer(s)] = worker[Peer(s)]
  <1> DEFINE p == Peer(s)
             w == worker[p]
             failed == [pc |-> "httpError", op |-> w.op, neg |-> w.neg, ack |-> NoAck]
             there == IF w.pc = "wait" THEN failed ELSE w
  <1>1. p \in Roles /\ p # s /\ \A x \in Roles : x = s \/ x = p
    BY DEF Peer, Roles
  <1>2. worker' = [worker EXCEPT ![s] = Idle, ![p] = there]
    BY DEF Die
  <1>3. WorkersShape(I) /\ w \in WorkersOver(p, I) /\ Idle.pc = "idle"
    BY <1>1 DEF LockOver, WorkersShape, Idle
  <1>4. CASE w.pc = "wait"
    <2>1. w.pc \in Busy
      BY <1>4 DEF Busy
    <2>2. /\ failed \in WorkersOver(p, I) /\ failed.pc # "wait" /\ failed.op = w.op /\ failed.neg = w.neg
      BY <1>1, <2>1, FailedWorker
    <2>3. there = failed
      BY <1>4
    <2> HIDE DEF there, failed
    <2>4. /\ WorkersShape(I)' /\ worker'[s] = Idle /\ worker'[p] = failed
      BY <1>1, <1>2, <1>3, <2>2, <2>3, IdleWorker DEF WorkersShape
    <2>5. WorkerGoesOn(p) /\ w # Idle
      BY <1>3, <1>4, <2>1, <2>2, <2>4 DEF WorkerGoesOn
    <2> QED
      BY <1>4, <2>2, <2>4, <2>5 DEF failed
  <1>5. CASE w.pc # "wait"
    <2>1. there = w
      BY <1>5
    <2> HIDE DEF there
    <2>2. /\ WorkersShape(I)' /\ worker'[s] = Idle /\ worker'[p] = w
      BY <1>1, <1>2, <1>3, <2>1, IdleWorker DEF WorkersShape
    <2> QED
      BY <1>5, <2>2 DEF WorkerGoesOn
  <1> QED
    BY <1>4, <1>5

LEMMA DieKeeps ==
  ASSUME NEW I, LockOver(I), NEW s \in Roles, NEW released, Die(s, released)
  PROVE  LockOver(I)' /\ AllForward
  <1> DEFINE p == Peer(s)
  <1>1. p \in Roles /\ p # s /\ Peer(p) = s /\ \A x \in Roles : x = s \/ x = p
    BY DEF Peer, Roles
  <1>2. /\ StoreShape(I)' /\ AllForward
        /\ table'[p] = table[p]
    BY <1>1, TableAfterDeath DEF LockOver
  <1>3. /\ HandlersShape(I)' /\ \A k \in Slots : http'[s][k] = Idle
        /\ \A k \in Slots : http'[p][k] # Idle => ~http'[p][k].live
        /\ \A k \in Slots : http[p][k] = Idle => http'[p][k] = Idle
        /\ \A k \in Slots : SlotGoesOn(p, k)
    BY HandlersAfterDeath
  <1>4. /\ WorkersShape(I)' /\ worker'[s] = Idle /\ worker'[p].pc # "wait" /\ WorkerGoesOn(p)
        /\ worker[p] = Idle => worker'[p] = Idle
    BY WorkersAfterDeath
  <1>5. /\ up' = [up EXCEPT ![s] = FALSE] /\ queue' = [queue EXCEPT ![s] = <<>>]
        /\ control' = [control EXCEPT ![s] = Idle]
    BY DEF Die
  <1>6. QueuesShape(I)' /\ ControlsShape(I)' /\ DownIsEmpty'
    <2>1. <<>> \in Seq(QueuedOver(s, I)) /\ Idle \in ControlsOver(s, I)
      BY EmptySeq DEF ControlsOver
    <2>2. QueuesShape(I)' /\ ControlsShape(I)'
      BY <1>5, <2>1 DEF LockOver, QueuesShape, ControlsShape
    <2>3. /\ queue'[s] = <<>> /\ queue'[p] = queue[p] /\ control'[s] = Idle /\ control'[p] = control[p]
      BY <1>1, <1>5 DEF LockOver, QueuesShape, ControlsShape
    <2>4. DownIsEmpty'
      BY <1>1, <1>3, <1>4, <1>5, <2>3 DEF LockOver, DownIsEmpty
    <2> QED
      BY <2>2, <2>4
  <1>7. Waiting'
    BY <1>1, <1>3, <1>4 DEF Waiting, Idle
  <1>8. WorkerHolds(s)' /\ \A k \in Slots : HandlerHolds(s, k)'
    BY <1>3, <1>4 DEF WorkerHolds, HandlerHolds, Busy, Idle
  <1>9. WorkerHolds(p)' /\ \A k \in Slots : HandlerHolds(p, k)'
    BY <1>1, <1>2, <1>3, <1>4 DEF LockOver, WorkerHolds, HandlerHolds, WorkerGoesOn, SlotGoesOn
  <1>10. \A x \in Roles : WorkerHolds(x)' /\ \A k \in Slots : HandlerHolds(x, k)'
    BY <1>1, <1>8, <1>9
  <1> QED
    BY <1>2, <1>3, <1>4, <1>6, <1>7, <1>10 DEF LockOver

LEMMA CrashKeeps ==
  ASSUME NEW I, Before(I), NEW s \in Roles, PanicHolding(s) \/ PanicTerminating(s) \/ Crash(s)
  PROVE  LockOver(I)' /\ AllForward
  BY DieKeeps DEF Before, PanicHolding, PanicTerminating, Crash

LEMMA RestartKeeps ==
  ASSUME NEW I, Before(I), NEW s \in Roles, Restart(s)
  PROVE  LockOver(I)' /\ AllForward
  <1>1. /\ LockOver(I) /\ UNCHANGED <<table, agreements, queue, worker, http, control>>
        /\ up' = [up EXCEPT ![s] = TRUE]
    BY DEF Restart, Before, store
  <1>2. AllForward
    BY <1>1, TableKept
  <1>3. DownIsEmpty'
    BY <1>1 DEF LockOver, DownIsEmpty
  <1>4. Waiting' /\ \A x \in Roles : WorkerHolds(x)' /\ \A k \in Slots : HandlerHolds(x, k)'
    BY <1>1 DEF LockOver, Waiting, WorkerHolds, HandlerHolds
  <1>5. StoreShape(I)' /\ QueuesShape(I)' /\ WorkersShape(I)' /\ HandlersShape(I)' /\ ControlsShape(I)'
    BY <1>1 DEF LockOver, StoreShape, QueuesShape, WorkersShape, HandlersShape, ControlsShape
  <1> QED
    BY <1>1, <1>2, <1>3, <1>4, <1>5 DEF LockOver

\* A control call works on a row that is free.
LEMMA OperateKeeps ==
  ASSUME NEW I, LockOver(I), NEW s \in Roles, up[s],
         NEW i, RowChange(s, i, "free"), StoreShape(I)', QueuesShape(I)', ControlsShape(I)',
         \A x \in Roles : x # s => queue'[x] = queue[x] /\ control'[x] = control[x],
         UNCHANGED <<worker, http, up>>
  PROVE  LockOver(I)'
  <1>1. WorkersShape(I)' /\ HandlersShape(I)' /\ Waiting' /\ DownIsEmpty'
    BY DEF LockOver, WorkersShape, HandlersShape, Waiting, DownIsEmpty
  <1>2. /\ \A x \in Roles : WorkerGoesOn(x)
        /\ \A x \in Roles, y \in Slots : SlotGoesOn(x, y)
    BY DEF WorkerGoesOn, SlotGoesOn
  <1>3. \A y \in Slots : y # "free"
    BY SlotsAssumption
  <1>4. \A x \in Roles : WorkerHolds(x)' /\ \A y \in Slots : HandlerHolds(x, y)'
    BY <1>2, <1>3, HoldsKept
  <1> QED
    BY <1>1, <1>4 DEF LockOver

\* What a control call may do.
LEMMA ControlCallsShape ==
  ASSUME NEW c \in ControlCalls
  PROVE  c.role \in Roles /\ c.from \subseteq SendsFrom(c.role) /\ c.initial \in BOOLEAN
  <1>1. \/ c.role = "consumer" /\ c.from \in {{"INITIAL", "OFFERED"}, {"OFFERED"}, {"AGREED"}}
        \/ c.role = "provider"
           /\ c.from \in {{"INITIAL", "REQUESTED"}, {"REQUESTED", "ACCEPTED"}, {"VERIFIED"}}
    BY DEF ControlCalls
  <1>2. c.initial \in BOOLEAN
    <2> DEFINE calling(r, f, b) == [role |-> r, from |-> f, initial |-> b]
    <2>1. \A r, f, b : calling(r, f, b).initial = b
      OBVIOUS
    <2>2. \/ c \in { calling("consumer", {"INITIAL", "OFFERED"}, TRUE),
                     calling("provider", {"INITIAL", "REQUESTED"}, TRUE) }
          \/ c \in { calling("consumer", {"OFFERED"}, FALSE),
                     calling("provider", {"REQUESTED", "ACCEPTED"}, FALSE),
                     calling("consumer", {"AGREED"}, FALSE),
                     calling("provider", {"VERIFIED"}, FALSE) }
      BY DEF ControlCalls
    <2> HIDE DEF calling
    <2>3. c.initial = TRUE \/ c.initial = FALSE
      BY <2>1, <2>2
    <2> QED
      BY <2>3
  <1>3. /\ SendsFrom("consumer") = {"TERMINATED", "OFFERED", "AGREED", "FINALIZED", "INITIAL"}
        /\ SendsFrom("provider") = {"TERMINATED", "REQUESTED", "ACCEPTED", "VERIFIED", "INITIAL"}
    BY DEF SendsFrom, ReceivedBy
  <1> QED
    BY <1>1, <1>2, <1>3 DEF Roles

\* The copy that a control call works on.
LEMMA CalledShape ==
  ASSUME NEW I, StoreShape(I), NEW s \in Roles, NEW i \in DOMAIN table[s], NEW c \in ControlCalls,
         NEW auto \in BOOLEAN
  PROVE  LET n == Called(s, i, c, auto) IN
         /\ n \in CopiesOver(s, I) /\ n.id = i /\ n.state = table[s][i].state
         /\ n.ppid = table[s][i].ppid /\ n.cpid = table[s][i].cpid
         /\ n.agreement = table[s][i].agreement /\ ~n.newAgreement
  <1> DEFINE m == FromModel(table[s][i], i)
  <1>1. m \in CopiesOver(s, I) /\ c.initial \in BOOLEAN
    BY RowShapes, ControlCallsShape
  <1>2. /\ m.id = i /\ m.state = table[s][i].state
        /\ m.ppid = table[s][i].ppid /\ m.cpid = table[s][i].cpid
        /\ m.agreement = table[s][i].agreement /\ m.newAgreement = FALSE
    BY DEF FromModel
  <1>3. Called(s, i, c, auto) = [m EXCEPT !.initial = c.initial, !.autoAccept = @ \/ auto]
    BY DEF Called
  <1> HIDE DEF m
  <1>4. (m.autoAccept \/ auto) \in BOOLEAN
    OBVIOUS
  <1> QED
    BY <1>1, <1>2, <1>3, <1>4 DEF CopiesOver

CallResult(s, i, c, auto) == Send(Called(s, i, c, auto), uuid, TRUE)

\* What a control call makes of the negotiation.
LEMMA CallEffect ==
  ASSUME NEW I, Before(I), NEW s \in Roles, NEW i \in DOMAIN table[s], NEW c \in ControlCalls,
         NEW auto \in CallAuto, Call(s, i, c, auto)
  PROVE  LET n == Called(s, i, c, auto)
             out == CallResult(s, i, c, auto)
         IN  /\ c.role = s /\ up[s] /\ control[s].pc = "idle" /\ Free(s, i) /\ n.state \in c.from
             /\ out.neg \in CopiesOver(s, I) /\ out.entries \in Seq(EntriesOver(s, I))
             /\ SameButAgreement(n, out.neg) /\ Sent(s, n, uuid, out) /\ uuid' = UuidAfter(out.neg)
             /\ out.neg.id = i /\ ForwardRow(table[s][i], out.neg)
  <1> DEFINE n == Called(s, i, c, auto)
             K == I \cup {uuid}
             out == Send(n, uuid, TRUE)
  <1>1. /\ c.role = s /\ up[s] /\ control[s].pc = "idle" /\ Free(s, i) /\ n.state \in c.from
        /\ uuid' = UuidAfter(out.neg) /\ out.ok
    BY DEF Call, CallBegins
  <1>2. /\ n \in CopiesOver(s, I) /\ n.id = i /\ n.state = table[s][i].state
        /\ n.ppid = table[s][i].ppid /\ n.cpid = table[s][i].cpid
    BY CalledShape, FlagsAssumption DEF Before, LockOver
  <1>3. n.state \in SendsFrom(s)
    BY <1>1, ControlCallsShape
  <1> HIDE DEF n
  <1>4. n \in CopiesOver(s, K) /\ uuid \in K /\ emptyUUID \in I
    BY <1>2, CopiesGrow DEF Before, LockOver
  <1> HIDE DEF K
  <1>5. out.neg \in CopiesOver(s, K) /\ SameButAgreement(n, out.neg) /\ Sent(s, n, uuid, out)
    BY <1>1, <1>3, <1>4, SendMoves
  <1> HIDE DEF out
  <1>6. out.neg \in CopiesOver(s, I)
    BY <1>1, <1>5, FreshUUID DEF K
  <1>7. out.entries \in Seq(EntriesOver(s, I))
    BY <1>4, <1>5, <1>6, SentEntries
  <1>8. out.neg.id = i /\ ForwardRow(table[s][i], out.neg)
    BY <1>2, <1>5 DEF SameButAgreement, ForwardRow, KeepsPIDs
  <1> QED
    BY <1>1, <1>5, <1>6, <1>7, <1>8 DEF n, out, CallResult

\* sendContractMessage.
LEMMA CallKeeps ==
  ASSUME NEW I, Before(I), NEW s \in Roles, NEW i \in DOMAIN table[s], NEW c \in ControlCalls,
         NEW auto \in CallAuto, Call(s, i, c, auto)
  PROVE  LockOver(I)' /\ AllForward
  <1> DEFINE out == CallResult(s, i, c, auto)
  <1>1. /\ LockOver(I) /\ UNCHANGED <<agreements, worker, http, up>>
        /\ IF out.neg.modified THEN Put(s, out.neg) ELSE UNCHANGED table
        /\ IF out.neg.newAgreement
             THEN /\ control' = [control EXCEPT ![s] =
                       [pc |-> "stored", neg |-> out.neg, entries |-> out.entries]]
                  /\ UNCHANGED queue
             ELSE /\ queue' = [queue EXCEPT ![s] = @ \o Operations(out.entries)]
                  /\ UNCHANGED control
    BY DEF Call, Before, CallResult
  <1>2. /\ up[s] /\ table[s][i].lock = "free"
        /\ out.neg \in CopiesOver(s, I) /\ out.entries \in Seq(EntriesOver(s, I))
        /\ out.neg.id = i /\ ForwardRow(table[s][i], out.neg)
    BY CallEffect DEF Free
  <1> HIDE DEF out
  <1>3. StoreShape(I)' /\ RowChange(s, i, "free") /\ AllForward
    <2>1. CASE out.neg.modified
      BY <1>1, <1>2, <2>1, CopyWritten DEF LockOver
    <2>2. CASE ~out.neg.modified
      BY <1>1, <2>2, TableKept DEF LockOver
    <2> QED
      BY <2>1, <2>2
  <1>4. /\ QueuesShape(I)' /\ ControlsShape(I)'
        /\ \A x \in Roles : x # s => queue'[x] = queue[x] /\ control'[x] = control[x]
    <2>1. CASE out.neg.newAgreement
      <3>1. [pc |-> "stored", neg |-> out.neg, entries |-> out.entries] \in ControlsOver(s, I)
        BY <1>2 DEF ControlsOver
      <3>2. /\ control' = [control EXCEPT ![s] = 
                 [pc |-> "stored", neg |-> out.neg, entries |-> out.entries]]
            /\ queue' = queue
        BY <1>1, <2>1
      <3> QED
        BY <1>1, <3>1, <3>2 DEF LockOver, QueuesShape, ControlsShape
    <2>2. CASE ~out.neg.newAgreement
      <3>1. queue' = [queue EXCEPT ![s] = @ \o Operations(out.entries)] /\ control' = control
        BY <1>1, <2>2
      <3>2. QueuesShape(I)' /\ \A x \in Roles : x # s => queue'[x] = queue[x]
        BY <1>1, <1>2, <3>1, QueueGrows DEF LockOver
      <3> QED
        BY <1>1, <3>1, <3>2 DEF LockOver, ControlsShape
    <2> QED
      BY <2>1, <2>2
  <1> QED
    BY <1>1, <1>2, <1>3, <1>4, OperateKeeps

LEMMA CallPutAgreementKeeps ==
  ASSUME NEW I, Before(I), NEW s \in Roles, CallPutAgreement(s)
  PROVE  LockOver(I)' /\ AllForward
  <1>1. /\ LockOver(I) /\ UNCHANGED <<table, worker, http, up>> /\ control[s].pc = "stored"
        /\ agreements' = [agreements EXCEPT ![s] = @ \cup {control[s].neg.agreement}]
        /\ queue' = [queue EXCEPT ![s] = @ \o Operations(control[s].entries)]
        /\ control' = [control EXCEPT ![s] = Idle]
    BY DEF CallPutAgreement, Before
  <1>2. control[s].neg \in CopiesOver(s, I) /\ control[s].entries \in Seq(EntriesOver(s, I))
        /\ control[s] # Idle
    BY <1>1 DEF LockOver, ControlsShape, ControlsOver, Idle
  <1>3. up[s] /\ control[s].neg.agreement \in I
    BY <1>1, <1>2 DEF LockOver, DownIsEmpty, CopiesOver
  <1>4. StoreShape(I)'
    BY <1>1, <1>3 DEF LockOver, StoreShape
  <1>5. QueuesShape(I)' /\ \A x \in Roles : x # s => queue'[x] = queue[x]
    BY <1>1, <1>2, QueueGrows DEF LockOver
  <1>6. ControlsShape(I)' /\ \A x \in Roles : x # s => control'[x] = control[x]
    BY <1>1 DEF LockOver, ControlsShape, ControlsOver
  <1>7. AllForward /\ RowChange(s, 0, "free")
    BY <1>1, TableKept
  <1> QED
    BY <1>1, <1>3, <1>4, <1>5, <1>6, <1>7, OperateKeeps

LEMMA CallRefusedKeeps ==
  ASSUME NEW I, Before(I), NEW s \in Roles, NEW i \in DOMAIN table[s], NEW c, CallRefused(s, i, c)
  PROVE  LockOver(I)' /\ AllForward
  <1>1. /\ LockOver(I) /\ UNCHANGED <<agreements, queue, worker, http, control, up>>
        /\ up[s] /\ table[s][i].lock = "free" /\ SetLock(s, i, "leaked") /\ "leaked" \in Locks
    BY DEF CallRefused, CallBegins, Free, Before, Locks
  <1>2. StoreShape(I)' /\ RowChange(s, i, "free") /\ AllForward
    BY <1>1, LockWritten DEF LockOver
  <1>3. QueuesShape(I)' /\ ControlsShape(I)'
    BY <1>1 DEF LockOver, QueuesShape, ControlsShape
  <1> QED
    BY <1>1, <1>2, <1>3, OperateKeeps

\* The entry of a termination is about the row that was read.
LEMMA TerminationMade ==
  ASSUME NEW I, emptyUUID \in I, NEW s \in Roles, NEW n \in CopiesOver(s, I)
  PROVE  LET e == TerminationEntry(n) IN
         /\ EntryOf(s, n, e) /\ e.target = "TERMINATED" /\ e.msg.type = "termination"
         /\ e \in EntriesOver(s, I) /\ <<e>> \in Seq(EntriesOver(s, I))
  <1> DEFINE e == Entry(n, RemotePID(n), "termination", "none", "TERMINATED")
  <1>1. "termination" \in TypesFrom(s) /\ "none" \in EventsFrom(s) /\ "TERMINATED" \in States
    BY DEF TypesFrom, EventsFrom, States
  <1>2. EntryOf(s, n, e) /\ e.target = "TERMINATED" /\ e.msg.type = "termination"
    BY <1>1, EntryMade
  <1>3. IDsOf(n) \subseteq I
    BY DEF IDsOf, CopiesOver, PpidsOver, CpidsOver
  <1> HIDE DEF e
  <1>4. e \in EntriesOver(s, I)
    BY <1>2, <1>3, CopiesGrow DEF EntryOf
  <1>5. <<e>> \in Seq(EntriesOver(s, I))
    BY <1>4
  <1> QED
    BY <1>2, <1>4, <1>5 DEF TerminationEntry, e

LEMMA ContractTerminateKeeps ==
  ASSUME NEW I, Before(I), NEW s \in Roles, NEW i \in DOMAIN table[s], ContractTerminate(s, i)
  PROVE  LockOver(I)' /\ AllForward
  <1> DEFINE entries == <<TerminationEntry(FromModel(table[s][i], i))>>
  <1>1. /\ LockOver(I) /\ UNCHANGED <<table, agreements, worker, http, control, up>> /\ up[s]
        /\ queue' = [queue EXCEPT ![s] = @ \o Operations(entries)]
    BY DEF ContractTerminate, Before, store
  <1>2. FromModel(table[s][i], i) \in CopiesOver(s, I) /\ emptyUUID \in I
    BY <1>1, RowShapes DEF LockOver
  <1>3. entries \in Seq(EntriesOver(s, I))
    BY <1>2, TerminationMade
  <1> HIDE DEF entries
  <1>4. QueuesShape(I)' /\ \A x \in Roles : x # s => queue'[x] = queue[x]
    BY <1>1, <1>3, QueueGrows DEF LockOver
  <1>5. AllForward /\ RowChange(s, 0, "free") /\ StoreShape(I)' /\ ControlsShape(I)'
    BY <1>1, TableKept DEF LockOver, ControlsShape
  <1> QED
    BY <1>1, <1>4, <1>5, OperateKeeps

\* A step that touches neither the store nor any process.
LEMMA StutterKeeps ==
  ASSUME NEW I, LockOver(I), UNCHANGED <<table, agreements, queue, worker, http, control, up>>
  PROVE  LockOver(I)' /\ AllForward
  <1>1. AllForward
    BY TableKept
  <1>2. /\ DownIsEmpty' /\ Waiting' /\ \A x \in Roles : WorkerHolds(x)'
        /\ \A x \in Roles, k \in Slots : HandlerHolds(x, k)'
    BY DEF LockOver, DownIsEmpty, Waiting, WorkerHolds, HandlerHolds
  <1>3. StoreShape(I)' /\ QueuesShape(I)' /\ WorkersShape(I)' /\ HandlersShape(I)' /\ ControlsShape(I)'
    BY DEF LockOver, StoreShape, QueuesShape, WorkersShape, HandlersShape, ControlsShape
  <1> QED
    BY <1>1, <1>2, <1>3 DEF LockOver

\* Nothing is there before the first UUID is drawn.
LEMMA NothingYet ==
  ASSUME LockInv, uuid = 1
  PROVE  /\ \A s \in Roles : table[s] = <<>> /\ DOMAIN table[s] = {}
         /\ \A s \in Roles : worker[s].pc \notin Busy
         /\ \A s \in Roles, k \in Slots : http[s][k].pc # "locked"
  <1>1. IDs = {emptyUUID}
    BY DEF IDs, emptyUUID
  <1>2. \A s \in Roles : RowsOver(s, IDs) = {}
    BY <1>1 DEF RowsOver, PpidsOver, CpidsOver, Roles
  <1>3. \A s \in Roles : table[s] \in Seq({})
    BY <1>2 DEF LockInv, LockOver, StoreShape
  <1>4. ASSUME NEW s \in Roles PROVE table[s] = <<>> /\ DOMAIN table[s] = {}
    <2>1. table[s] \in Seq({}) /\ Len(table[s]) \in Nat /\ DOMAIN table[s] = 1..Len(table[s])
      BY <1>3, LenProperties
    <2>2. \A i \in 1..Len(table[s]) : table[s][i] \in {}
      BY <2>1, ElementOfSeq
    <2>3. Len(table[s]) = 0
      BY <2>1, <2>2
    <2>4. table[s] = <<>>
      BY <2>1, <2>3, EmptySeq
    <2> QED
      BY <2>1, <2>3, <2>4
  <1> QED
    BY <1>4 DEF LockInv, LockOver, WorkerHolds, HandlerHolds

\* The negotiation that a control call starts.
FirstOf(s, n) ==
  /\ n.role = s /\ n.state = "INITIAL" /\ n.id = 0 /\ ~n.newAgreement
  /\ LocalPID(n) = uuid /\ RemotePID(n) = emptyUUID /\ n.agreement = emptyUUID

\* Where its messages go and what they name as the address to answer.
FirstAddress(s, n) ==
  /\ n.callback = "root"
  /\ s = "consumer" => n.self = "callback" \/ "request" \in Starts
  /\ s = "provider" => n.self = "root" /\ ~(Starts \subseteq {"download"})

LEMMA FirstShape ==
  ASSUME NEW I, emptyUUID \in I, uuid \in I, uuid # emptyUUID, NEW start \in Starts,
         NEW auto \in BOOLEAN
  PROVE  LET first == FirstNegotiation(start, auto) IN
         /\ first.role = IF start \in {"download", "request"} THEN "consumer" ELSE "provider"
         /\ first.role \in Roles /\ first \in CopiesOver(first.role, I) /\ FirstOf(first.role, first)
         /\ FirstAddress(first.role, first)
  <1> DEFINE first == FirstNegotiation(start, auto)
  <1>1. start \in {"download", "upload", "request", "offer"}
    BY StartsAssumption
  <1>2. ASSUME NEW callback \in Bases, NEW self \in Bases, NEW flag \in BOOLEAN
        PROVE  LET c == New("consumer", emptyUUID, uuid, callback, self, flag)
                   p == New("provider", uuid, emptyUUID, callback, self, flag)
               IN  /\ c \in CopiesOver("consumer", I) /\ FirstOf("consumer", c)
                   /\ p \in CopiesOver("provider", I) /\ FirstOf("provider", p)
    BY DEF New, CopiesOver, PpidsOver, CpidsOver, FirstOf, LocalPID, RemotePID, States
  <1>3. /\ (~Service["consumer"]) \in BOOLEAN /\ (~Service["provider"]) \in BOOLEAN
        /\ (auto \/ ~Service["consumer"]) \in BOOLEAN /\ (auto \/ ~Service["provider"]) \in BOOLEAN
    OBVIOUS
  <1>4. "root" \in Bases /\ "callback" \in Bases
    BY DEF Bases
  <1>5. CASE start = "download"
    <2>1. first = New("consumer", emptyUUID, uuid, "root", "callback", ~Service["consumer"])
      BY <1>5 DEF FirstNegotiation, DownloadNegotiation
    <2>2. first \in CopiesOver("consumer", I) /\ FirstOf("consumer", first)
      BY <1>2, <1>3, <1>4, <2>1
    <2>3. FirstAddress("consumer", first)
      BY <1>5, <2>1 DEF New, FirstAddress
    <2> QED
      BY <1>5, <2>2, <2>3 DEF FirstOf, Roles
  <1>6. CASE start = "request"
    <2>1. first = New("consumer", emptyUUID, uuid, "root", "root", auto \/ ~Service["consumer"])
      BY <1>6 DEF FirstNegotiation, RequestNegotiation
    <2>2. first \in CopiesOver("consumer", I) /\ FirstOf("consumer", first)
      BY <1>2, <1>3, <1>4, <2>1
    <2>3. FirstAddress("consumer", first)
      BY <1>6, <2>1 DEF New, FirstAddress
    <2> QED
      BY <1>6, <2>2, <2>3 DEF FirstOf, Roles
  <1>7. CASE start = "upload"
    <2>1. first = New("provider", uuid, emptyUUID, "root", "root", ~Service["provider"])
      BY <1>7 DEF FirstNegotiation, UploadNegotiation
    <2>2. first \in CopiesOver("provider", I) /\ FirstOf("provider", first)
      BY <1>2, <1>3, <1>4, <2>1
    <2>3. FirstAddress("provider", first)
      BY <1>7, <2>1 DEF New, FirstAddress
    <2> QED
      BY <1>7, <2>2, <2>3 DEF FirstOf, Roles
  <1>8. CASE start = "offer"
    <2>1. first = New("provider", uuid, emptyUUID, "root", "root", auto \/ ~Service["provider"])
      BY <1>8 DEF FirstNegotiation, OfferNegotiation
    <2>2. first \in CopiesOver("provider", I) /\ FirstOf("provider", first)
      BY <1>2, <1>3, <1>4, <2>1
    <2>3. FirstAddress("provider", first)
      BY <1>8, <2>1 DEF New, FirstAddress
    <2> QED
      BY <1>8, <2>2, <2>3 DEF FirstOf, Roles
  <1> QED
    BY <1>1, <1>5, <1>6, <1>7, <1>8

\* What the first call stores and queues.
Begun(s, I, n, o, entries) ==
  /\ n \in CopiesOver(s, I) /\ FirstOf(s, n) /\ FirstAddress(s, n) /\ uuid = 1 /\ uuid' = 2
  /\ \/ entries = <<>>
     \/ \E e : /\ entries = <<e>> /\ EntryOf(s, n, e) /\ SentAs(n, e)
              /\ e.target # "AGREED" /\ e.target \in validTransitions["INITIAL"]
  /\ entries \in Seq(EntriesOver(s, I))
  /\ up[s] /\ table' = [table EXCEPT ![s] = <<[ToModel(n) EXCEPT !.lock = o]>>]
  /\ queue' = [queue EXCEPT ![s] = Operations(entries)]
  /\ UNCHANGED <<agreements, worker, http, control, up>>

LEMMA BeginEffect ==
  ASSUME NEW I, Before(I), Begin
  PROVE  \E s \in Roles, o \in {"free", "leaked"} : \E n, entries : Begun(s, I, n, o, entries)
  <1>1. PICK start \in Starts, found \in Found, auto \in CallAuto :
         LET first == FirstNegotiation(start, auto)
             sent == Send(first, uuid, found)
         IN
         /\ up[first.role]
         /\ table' = [table EXCEPT ![first.role] =
              <<[ToModel(first) EXCEPT !.lock = IF sent.ok THEN "free" ELSE "leaked"]>>]
         /\ queue' = [queue EXCEPT ![first.role] = Operations(sent.entries)]
    BY DEF Begin
  <1>2. /\ uuid = 1 /\ uuid' = 2 /\ uuid \in I /\ uuid # emptyUUID /\ emptyUUID \in I
        /\ UNCHANGED <<agreements, worker, http, control, up>>
    BY DEF Begin, Before, LockOver, emptyUUID
  <1> DEFINE n == FirstNegotiation(start, auto)
             s == n.role
             sent == Send(n, uuid, found)
             o == IF sent.ok THEN "free" ELSE "leaked"
  <1>3. s \in Roles /\ n \in CopiesOver(s, I) /\ FirstOf(s, n) /\ FirstAddress(s, n)
    BY <1>2, FirstShape, FlagsAssumption
  <1>4. /\ up[s] /\ table' = [table EXCEPT ![s] = <<[ToModel(n) EXCEPT !.lock = o]>>]
        /\ queue' = [queue EXCEPT ![s] = Operations(sent.entries)] /\ o \in {"free", "leaked"}
    BY <1>1
  <1> HIDE DEF n, s, o
  <1>5. n.state = "INITIAL" /\ n.agreement = emptyUUID
    BY <1>3 DEF FirstOf
  <1>6. CASE sent.ok
    <2>1. n.state \in SendsFrom(s)
      BY <1>5 DEF SendsFrom
    <2>2. /\ sent.neg = n /\ Sent(s, n, uuid, sent)
      BY <1>2, <1>3, <1>5, <1>6, <2>1, SendMoves
    <2> HIDE DEF sent
    <2>3. sent.entries \in Seq(EntriesOver(s, I))
      BY <1>2, <1>3, <2>2, SentEntries
    <2>4. \/ sent.entries = <<>>
          \/ \E e : sent.entries = <<e>> /\ EntryOf(s, n, e) /\ SentAs(n, e)
                    /\ e.target # "AGREED" /\ e.target \in validTransitions["INITIAL"]
      <3>1. "AGREED" \notin validTransitions["INITIAL"]
        BY DEF validTransitions
      <3> QED
        BY <1>5, <2>2, <3>1 DEF Sent
    <2>5. Begun(s, I, n, o, sent.entries)
      BY <1>2, <1>3, <1>4, <2>3, <2>4 DEF Begun
    <2> QED
      BY <1>3, <1>4, <2>5
  <1>7. CASE ~sent.ok
    <2>1. sent = InitialSend(n, found)
      BY <1>5 DEF Send
    <2>2. sent.entries = <<>>
      <3>1. InitialSend(n, found) \in {sendContractRequest(n), sendContractOffer(n), SendFails(n)}
        BY DEF InitialSend
      <3>2. sendContractRequest(n).ok /\ sendContractOffer(n).ok /\ SendFails(n).entries = <<>>
        BY DEF sendContractRequest, sendContractOffer, SendFails, Sends
      <3> QED
        BY <1>7, <2>1, <3>1, <3>2
    <2>3. sent.entries \in Seq(EntriesOver(s, I))
      BY <2>2, EmptySeq
    <2> HIDE DEF sent
    <2>4. Begun(s, I, n, o, sent.entries)
      BY <1>2, <1>3, <1>4, <2>2, <2>3 DEF Begun
    <2> QED
      BY <1>3, <1>4, <2>4
  <1> QED
    BY <1>6, <1>7

LEMMA BeginKeeps ==
  ASSUME NEW I, LockInv, Before(I), Begin
  PROVE  LockOver(I)' /\ AllForward
  <1>1. PICK s \in Roles, o \in {"free", "leaked"} : \E n, entries : Begun(s, I, n, o, entries)
    BY BeginEffect
  <1>2. PICK n, entries : Begun(s, I, n, o, entries)
    BY <1>1
  <1>3. /\ n \in CopiesOver(s, I) /\ uuid = 1 /\ entries \in Seq(EntriesOver(s, I))
        /\ up[s] /\ table' = [table EXCEPT ![s] = <<[ToModel(n) EXCEPT !.lock = o]>>]
        /\ queue' = [queue EXCEPT ![s] = Operations(entries)]
        /\ UNCHANGED <<agreements, worker, http, control, up>> /\ LockOver(I)
    BY <1>2 DEF Begun, Before
  <1>4. PICK r \in RowsOver(s, I) : r = [ToModel(n) EXCEPT !.lock = o]
    BY <1>3, ModelShapes DEF Locks
  <1>5. /\ \A x \in Roles : DOMAIN table[x] = {} /\ worker[x].pc \notin Busy
        /\ \A x \in Roles, k \in Slots : http[x][k].pc # "locked"
    BY <1>3, NothingYet
  <1>6. StoreShape(I)'
    <2>1. <<r>> \in Seq(RowsOver(s, I))
      OBVIOUS
    <2>2. table' = [table EXCEPT ![s] = <<r>>]
      BY <1>3, <1>4
    <2> QED
      BY <1>3, <2>1, <2>2 DEF LockOver, StoreShape
  <1>7. AllForward
    BY <1>5 DEF AllForward
  <1>8. QueuesShape(I)' /\ \A x \in Roles : x # s => queue'[x] = queue[x]
    <2>1. Operations(entries) \in Seq(QueuedOver(s, I))
      BY <1>3, OperationsQueued
    <2> QED
      BY <1>3, <2>1 DEF LockOver, QueuesShape
  <1>9. /\ DownIsEmpty' /\ Waiting' /\ WorkersShape(I)' /\ HandlersShape(I)' /\ ControlsShape(I)'
    BY <1>3, <1>8 DEF LockOver, DownIsEmpty, Waiting, WorkersShape, HandlersShape, ControlsShape
  <1>10. \A x \in Roles : WorkerHolds(x)' /\ \A k \in Slots : HandlerHolds(x, k)'
    BY <1>3, <1>5 DEF WorkerHolds, HandlerHolds
  <1> QED
    BY <1>3, <1>6, <1>7, <1>8, <1>9, <1>10 DEF LockOver

-----------------------------------------------------------------------------
(* The lock invariant and what follows from it                             *)

\* A step moves the UUID on by one, or not at all.
LEMMA UuidMoves ==
  ASSUME uuid \in Nat \ {0}, Next
  PROVE  uuid' \in {uuid, uuid + 1}
  <1>1. Begin => uuid' = uuid + 1
    BY DEF Begin
  <1>2. ASSUME NEW s \in Roles, Reconcile(s)
        PROVE  uuid' = uuid
    BY <1>2 DEF Reconcile, Take, Acquire, AcquireFails, SendHTTPRequest, SendFailsEarly, Commit,
       Requeue, GiveUp, Terminate, PanicHolding, PanicTerminating, Die
  <1>3. ASSUME NEW s \in Roles, CallPutAgreement(s) \/ Poll(s) \/ ConnectionLost(s)
                                 \/ Crash(s) \/ Restart(s)
        PROVE  uuid' = uuid
    BY <1>3 DEF CallPutAgreement, Poll, ConnectionLost, Crash, Restart, Die
  <1>4. ASSUME NEW s \in Roles, NEW k \in Slots,
               Handle(s, k) \/ HandlerNotifyFails(s, k) \/ HandlerCancelled(s, k)
        PROVE  uuid' \in {uuid, uuid + 1}
    BY <1>4 DEF Handle, RouteRequest, CreateNegotiation, HandlerLock, HandlerNotFound,
       HandlerStore, HandlerReject, HandlerPutAgreement, HandlerApply, HandlerNotifyFails,
       HandlerCancelled, UuidAfter
  <1>5. ASSUME NEW s \in Roles, Operate(s)
        PROVE  uuid' \in {uuid, uuid + 1}
    <2>1. \A n : UuidAfter(n) \in {uuid, uuid + 1}
      BY DEF UuidAfter
    <2>2. PICK i \in DOMAIN table[s] :
            \/ \E c \in ControlCalls :
                 CallRefused(s, i, c) \/ \E auto \in CallAuto : Call(s, i, c, auto)
            \/ ContractTerminate(s, i)
      BY <1>5 DEF Operate
    <2>3. ASSUME NEW c, NEW auto, Call(s, i, c, auto)
          PROVE  uuid' \in {uuid, uuid + 1}
      BY <2>1, <2>3 DEF Call
    <2> QED
      BY <2>2, <2>3 DEF CallRefused, ContractTerminate
  <1> QED
    BY <1>1, <1>2, <1>3, <1>4, <1>5 DEF Next, Progress

\* Every step over a set of IDs that has the one it may draw.
LEMMA StepKeeps ==
  ASSUME NEW I, LockInv, Before(I), Next
  PROVE  LockOver(I)' /\ AllForward
  <1>1. CASE Begin
    BY <1>1, BeginKeeps
  <1>2. ASSUME NEW s \in Roles, Reconcile(s)
        PROVE  LockOver(I)' /\ AllForward
    <2>1. CASE \E i \in DOMAIN queue[s] : Take(s, i)
      BY <2>1, TakeKeeps
    <2>2. CASE Acquire(s)
      BY <2>2, AcquireKeeps
    <2>3. CASE AcquireFails(s)
      BY <2>3, AcquireFailsKeeps
    <2>4. CASE \E k \in Slots : SendHTTPRequest(s, k)
      BY <2>4, SendHTTPRequestKeeps
    <2>5. CASE SendFailsEarly(s)
      BY <2>5, SendFailsEarlyKeeps
    <2>6. CASE Commit(s)
      BY <2>6, CommitKeeps
    <2>7. CASE Requeue(s)
      BY <2>7, RequeueKeeps
    <2>8. CASE GiveUp(s)
      BY <2>8, GiveUpKeeps
    <2>9. CASE Terminate(s)
      BY <2>9, TerminateKeeps
    <2>10. CASE PanicHolding(s) \/ PanicTerminating(s)
      BY <2>10, CrashKeeps
    <2> QED
      BY <1>2, <2>1, <2>2, <2>3, <2>4, <2>5, <2>6, <2>7, <2>8, <2>9, <2>10 DEF Reconcile
  <1>3. ASSUME NEW s \in Roles, CallPutAgreement(s)
        PROVE  LockOver(I)' /\ AllForward
    BY <1>3, CallPutAgreementKeeps
  <1>4. ASSUME NEW s \in Roles, Poll(s)
        PROVE  LockOver(I)' /\ AllForward
    BY <1>4, StutterKeeps DEF Poll, Before, store
  <1>5. ASSUME NEW s \in Roles, NEW k \in Slots, Handle(s, k)
        PROVE  LockOver(I)' /\ AllForward
    BY <1>5, RouteRequestKeeps, CreateNegotiationKeeps, HandlerLockKeeps, HandlerNotFoundKeeps,
       HandlerStoreKeeps, HandlerRejectKeeps, HandlerPutAgreementKeeps, HandlerApplyKeeps
    DEF Handle
  <1>6. ASSUME NEW s \in Roles, Operate(s)
        PROVE  LockOver(I)' /\ AllForward
    <2>1. PICK i \in DOMAIN table[s] :
            \/ \E c \in ControlCalls :
                 CallRefused(s, i, c) \/ \E auto \in CallAuto : Call(s, i, c, auto)
            \/ ContractTerminate(s, i)
      BY <1>6 DEF Operate
    <2>2. CASE \E c \in ControlCalls : CallRefused(s, i, c)
      BY <2>2, CallRefusedKeeps
    <2>3. CASE \E c \in ControlCalls, auto \in CallAuto : Call(s, i, c, auto)
      BY <2>3, CallKeeps
    <2>4. CASE ContractTerminate(s, i)
      BY <2>4, ContractTerminateKeeps
    <2> QED
      BY <2>1, <2>2, <2>3, <2>4
  <1>7. ASSUME NEW s \in Roles, ConnectionLost(s) \/ Crash(s) \/ Restart(s)
        PROVE  LockOver(I)' /\ AllForward
    BY <1>7, ConnectionLostKeeps, CrashKeeps, RestartKeeps
  <1>8. ASSUME NEW s \in Roles, NEW k \in Slots, HandlerNotifyFails(s, k) \/ HandlerCancelled(s, k)
        PROVE  LockOver(I)' /\ AllForward
    BY <1>8, HandlerNotifyFailsKeeps, HandlerCancelledKeeps
  <1> QED
    BY <1>1, <1>2, <1>3, <1>4, <1>5, <1>6, <1>7, <1>8 DEF Next, Progress

LEMMA InitLock ==
  ASSUME Init
  PROVE  LockInv
  <1>1. IDs = {emptyUUID} /\ uuid = 1
    BY DEF Init, IDs, emptyUUID
  <1>2. \A s \in Roles : <<>> \in Seq(RowsOver(s, IDs)) /\ <<>> \in Seq(QueuedOver(s, IDs))
    BY EmptySeq
  <1>3. \A s \in Roles : /\ Idle \in WorkersOver(s, IDs) /\ Idle \in HandlersOver(s, IDs)
                         /\ Idle \in ControlsOver(s, IDs)
    BY DEF WorkersOver, HandlersOver, ControlsOver
  <1>4. StoreShape(IDs) /\ QueuesShape(IDs)
    BY <1>2 DEF Init, StoreShape, QueuesShape
  <1>5. WorkersShape(IDs) /\ HandlersShape(IDs) /\ ControlsShape(IDs)
    BY <1>3 DEF Init, WorkersShape, HandlersShape, ControlsShape
  <1>6. DownIsEmpty
    BY DEF Init, DownIsEmpty
  <1>7. \A s \in Roles : Peer(s) \in Roles
    BY DEF Peer, Roles
  <1>8. Waiting /\ \A s \in Roles : WorkerHolds(s) /\ \A k \in Slots : HandlerHolds(s, k)
    BY <1>7 DEF Init, Waiting, WorkerHolds, HandlerHolds, Idle, Busy
  <1> QED
    BY <1>1, <1>4, <1>5, <1>6, <1>8 DEF LockInv, LockOver

\* The IDs of the next state, as a set that does not change with the step.
LEMMA NextIDs ==
  ASSUME LockInv, Next
  PROVE  /\ uuid' \in Nat \ {0} /\ IDs \subseteq IDs'
         /\ \A J : J = IDs' => Before(J)
  <1>1. uuid \in Nat \ {0} /\ uuid' \in {uuid, uuid + 1}
    BY UuidMoves DEF LockInv
  <1>2. IDs \subseteq IDs' /\ (uuid' # uuid => uuid \in IDs') /\ uuid' \in Nat \ {0}
    <2>1. CASE uuid' = uuid
      BY <1>1, <2>1 DEF IDs
    <2>2. CASE uuid' = uuid + 1
      BY <1>1, <2>2 DEF IDs
    <2> QED
      BY <1>1, <2>1, <2>2
  <1>3. ASSUME NEW J, J = IDs'
        PROVE  Before(J)
    <2>1. LockOver(J)
      BY <1>2, <1>3, LockGrows DEF LockInv
    <2> QED
      BY <1>1, <1>2, <1>3, <2>1 DEF Before
  <1> QED
    BY <1>2, <1>3

LEMMA NextLock ==
  ASSUME LockInv, [Next]_vars
  PROVE  LockInv' /\ AllForward
  <1>1. CASE Next
    <2>1. PICK J : J = IDs'
      OBVIOUS
    <2>2. Before(J) /\ uuid' \in Nat \ {0}
      BY <1>1, <2>1, NextIDs
    <2>3. LockOver(J)' /\ AllForward
      BY <1>1, <2>2, StepKeeps
    <2>4. LockOver(IDs)'
      BY <2>1, <2>3 DEF LockOver, StoreShape, QueuesShape, WorkersShape, HandlersShape, ControlsShape
    <2> QED
      BY <2>2, <2>3, <2>4 DEF LockInv
  <1>2. CASE UNCHANGED vars
    <2>1. UNCHANGED <<table, agreements, queue, worker, http, control, up, uuid>>
      BY <1>2 DEF vars
    <2>2. PICK J : J = IDs
      OBVIOUS
    <2>3. LockOver(J) /\ uuid \in Nat \ {0} /\ IDs' = J
      BY <2>1, <2>2 DEF LockInv, IDs
    <2>4. LockOver(J)' /\ AllForward
      BY <2>1, <2>3, StutterKeeps
    <2>5. LockOver(IDs)'
      BY <2>3, <2>4 DEF LockOver, StoreShape, QueuesShape, WorkersShape, HandlersShape, ControlsShape
    <2> QED
      BY <2>1, <2>3, <2>4, <2>5 DEF LockInv
  <1> QED
    BY <1>1, <1>2

\* Whoever works on a copy of a negotiation, a handler between processMessage's
\* GetContract and PutContract or the reconciler between getStateUpdater and
\* Commit, has locked its row, and the copy is what the row says: nobody
\* overwrites what another has stored.
THEOREM LockInvariant == Spec => []LockInv
  <1>1. Init => LockInv
    BY InitLock
  <1>2. LockInv /\ [Next]_vars => LockInv'
    BY NextLock
  <1> QED
    BY <1>1, <1>2, PTL DEF Spec

\* Stored states only move along validTransitions and PIDs are learned once,
\* whether a handler, the reconciler or a control call stores them
\* (SetState, verifyAndTransform, ApplyResponse).
THEOREM NegotiationsMoveForward == Spec => RowsMoveForward
  <1>1. LockInv /\ [Next]_vars =>
          [\A s \in Roles : \A i \in DOMAIN table[s] :
             LET r == table[s][i]
                 r1 == table'[s][i]
             IN  /\ r1.state \in {r.state} \cup validTransitions[r.state]
                 /\ r.state # "INITIAL" => /\ r.ppid \in {emptyUUID, r1.ppid}
                                           /\ r.cpid \in {emptyUUID, r1.cpid}]_vars
    BY NextLock DEF AllForward, ForwardRow, KeepsPIDs
  <1> QED
    BY <1>1, LockInvariant, PTL DEF Spec, RowsMoveForward

-----------------------------------------------------------------------------
(* Type correctness                                                        *)

WithinBounds ==
  /\ calls \in 0..MaxCalls /\ faults \in 0..MaxFaults
  /\ timeouts \in 0..MaxTimeouts /\ crashes \in 0..MaxCrashes

\* The counters stay within their bounds, and none is ever reset.
CountersMove ==
  /\ WithinBounds'
  /\ calls' \in {calls, calls + 1} /\ timeouts' \in {timeouts, timeouts + 1}

LEMMA NextBounds ==
  ASSUME WithinBounds, [Next]_vars
  PROVE  CountersMove
  <1> USE BoundsAssumption
  <1>1. UNCHANGED bounds => CountersMove
    BY DEF WithinBounds, bounds, CountersMove
  <1>2. ASSUME NEW x \in Roles, NEW i, LockTimeout(x, i), UNCHANGED <<calls, faults, crashes>>
        PROVE  CountersMove
    BY <1>2 DEF LockTimeout, WithinBounds, CountersMove
  <1>3. ASSUME Fault, UNCHANGED <<calls, timeouts, crashes>>
        PROVE  CountersMove
    BY <1>3 DEF Fault, WithinBounds, CountersMove
  <1>4. ASSUME calls < MaxCalls, calls' = calls + 1, UNCHANGED <<faults, timeouts, crashes>>
        PROVE  CountersMove
    BY <1>4 DEF WithinBounds, CountersMove
  <1>5. ASSUME NEW s \in Roles, Reconcile(s)
        PROVE  CountersMove
    <2>1. CASE AcquireFails(s)
      <3>1. (\E i : LockTimeout(s, i)) \/ timeouts' = timeouts
        BY <2>1 DEF AcquireFails
      <3>2. UNCHANGED <<calls, faults, crashes>>
        BY <2>1 DEF AcquireFails
      <3> QED
        BY <1>1, <1>2, <3>1, <3>2 DEF bounds
    <2>2. CASE SendFailsEarly(s)
      <3>1. Fault \/ faults' = faults
        BY <2>2 DEF SendFailsEarly
      <3>2. UNCHANGED <<calls, timeouts, crashes>>
        BY <2>2 DEF SendFailsEarly
      <3> QED
        BY <1>1, <1>3, <3>1, <3>2 DEF bounds
    <2>3. CASE \/ \E i \in DOMAIN queue[s] : Take(s, i)
               \/ Acquire(s) \/ Commit(s) \/ Requeue(s) \/ GiveUp(s) \/ Terminate(s)
               \/ PanicHolding(s) \/ PanicTerminating(s) \/ \E k \in Slots : SendHTTPRequest(s, k)
      BY <1>1, <2>3 DEF Take, Acquire, Commit, Requeue, GiveUp, Terminate, PanicHolding,
         PanicTerminating, SendHTTPRequest
    <2> QED
      BY <1>5, <2>1, <2>2, <2>3 DEF Reconcile
  <1>6. ASSUME NEW s \in Roles, NEW k \in Slots, Handle(s, k)
        PROVE  CountersMove
    <2>1. CASE HandlerNotFound(s, k)
      <3>1. (\E i : LockTimeout(s, i)) \/ timeouts' = timeouts
        BY <2>1 DEF HandlerNotFound
      <3>2. UNCHANGED <<calls, faults, crashes>>
        BY <2>1 DEF HandlerNotFound
      <3> QED
        BY <1>1, <1>2, <3>1, <3>2 DEF bounds
    <2>2. CASE \/ RouteRequest(s, k) \/ CreateNegotiation(s, k) \/ HandlerLock(s, k)
               \/ HandlerStore(s, k) \/ HandlerReject(s, k) \/ HandlerPutAgreement(s, k)
               \/ HandlerApply(s, k)
      BY <1>1, <2>2 DEF RouteRequest, CreateNegotiation, HandlerLock, HandlerStore, HandlerReject,
         HandlerPutAgreement, HandlerApply
    <2> QED
      BY <1>6, <2>1, <2>2 DEF Handle
  <1>7. ASSUME NEW s \in Roles, NEW k \in Slots, HandlerNotifyFails(s, k) \/ HandlerCancelled(s, k)
        PROVE  CountersMove
    <2>1. CASE HandlerCancelled(s, k)
      BY <1>1, <2>1 DEF HandlerCancelled
    <2>2. CASE HandlerNotifyFails(s, k)
      <3>1. Fault \/ faults' = faults
        BY <2>2 DEF HandlerNotifyFails
      <3>2. UNCHANGED <<calls, timeouts, crashes>>
        BY <2>2 DEF HandlerNotifyFails
      <3> QED
        BY <1>1, <1>3, <3>1, <3>2 DEF bounds
    <2> QED
      BY <1>7, <2>1, <2>2
  <1>8. ASSUME NEW s \in Roles, Operate(s)
        PROVE  CountersMove
    <2>1. PICK i \in DOMAIN table[s] :
            \/ \E c \in ControlCalls :
                 CallRefused(s, i, c) \/ \E auto \in CallAuto : Call(s, i, c, auto)
            \/ ContractTerminate(s, i)
      BY <1>8 DEF Operate
    <2>2. calls < MaxCalls /\ calls' = calls + 1
      <3>1. \A c, auto : Call(s, i, c, auto) \/ CallRefused(s, i, c) => CallBegins(s, i)
        BY DEF Call, CallRefused
      <3> QED
        BY <2>1, <3>1 DEF CallBegins, ContractTerminate
    <2>3. UNCHANGED <<faults, timeouts, crashes>>
      <3>1. ASSUME NEW c, NEW auto, Call(s, i, c, auto)
            PROVE  UNCHANGED <<faults, timeouts, crashes>>
        BY <3>1 DEF Call
      <3> QED
        BY <2>1, <3>1 DEF CallRefused, ContractTerminate
    <2> QED
      BY <1>4, <2>2, <2>3
  <1>9. ASSUME NEW s \in Roles, ConnectionLost(s)
        PROVE  CountersMove
    BY <1>3, <1>9 DEF ConnectionLost
  <1>10. ASSUME NEW s \in Roles, Crash(s)
         PROVE  CountersMove
    BY <1>10 DEF Crash, WithinBounds, CountersMove
  <1>11. ASSUME NEW s \in Roles, Restart(s) \/ CallPutAgreement(s) \/ Poll(s)
         PROVE  CountersMove
    BY <1>1, <1>11 DEF Restart, CallPutAgreement, Poll
  <1>12. Begin => CountersMove
    BY <1>1 DEF Begin
  <1>13. UNCHANGED vars => CountersMove
    BY <1>1 DEF vars, bounds
  <1> QED
    BY <1>5, <1>6, <1>7, <1>8, <1>9, <1>10, <1>11, <1>12, <1>13 DEF Next, Progress

\* The counters of what may go wrong stay within their bounds.
THEOREM BoundsInvariant == Spec => []WithinBounds
  <1>1. Init => WithinBounds
    BY BoundsAssumption DEF Init, WithinBounds
  <1>2. WithinBounds /\ [Next]_vars => WithinBounds'
    BY NextBounds DEF CountersMove
  <1> QED
    BY <1>1, <1>2, PTL DEF Spec

\* Rows, deques and processes have the shape the code gives them, every ID
\* in the databases was drawn by uuid.New, no operation is queued for more
\* attempts than fit into maxDuration, and a process that is down has no
\* memory.
THEOREM NegotiationTypeCorrect == Spec => []TypeOK
  <1>1. LockInv /\ WithinBounds => TypeOK
    <2> SUFFICES ASSUME LockInv, WithinBounds
                 PROVE  TypeOK
      OBVIOUS
    <2>1. LockOver(IDs) /\ uuid \in Nat \ {0} /\ emptyUUID \in IDs
      BY DEF LockInv, IDs, emptyUUID
    <2>2. ASSUME NEW s \in Roles
          PROVE  table[s] \in Seq(Rows) /\ \A i \in DOMAIN table[s] : table[s][i].role = s
      <3>1. RowsOver(s, IDs) \subseteq Rows
        BY DEF RowsOver, Rows, Locks, PpidsOver, CpidsOver
      <3>2. table[s] \in Seq(Rows)
        BY <2>1, <3>1, SeqMonotonic DEF LockOver, StoreShape
      <3> QED
        BY <2>1, <3>2, RowShapes DEF LockOver
    <2>3. ASSUME NEW s \in Roles
          PROVE  \A i \in DOMAIN queue[s] : queue[s][i].attempts \in 0..(MaxAttempts - 1)
      <3>1. queue[s] \in Seq(QueuedOver(s, IDs))
        BY <2>1 DEF LockOver, QueuesShape
      <3>2. \A i \in DOMAIN queue[s] : queue[s][i] \in QueuedOver(s, IDs)
        BY <3>1, ElementOfSeq, LenProperties
      <3> QED
        BY <3>2 DEF QueuedOver
    <2>4. \A s \in Roles : agreements[s] \subseteq IDs /\ up[s] \in BOOLEAN
                           /\ (~up[s] => queue[s] = <<>> /\ worker[s] = Idle)
      BY <2>1 DEF LockOver, StoreShape, DownIsEmpty
    <2> QED
      BY <2>1, <2>2, <2>3, <2>4 DEF TypeOK, WithinBounds
  <1> QED
    BY <1>1, LockInvariant, BoundsInvariant, PTL

==============================================================================
