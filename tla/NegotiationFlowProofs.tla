------------------------ MODULE NegotiationFlowProofs ------------------------
(***************************************************************************)
(* Proofs about what is under way between the two connectors: the entries  *)
(* that wait to be sent, those that wait for an agreement to be stored,    *)
(* and the requests at the peer.                                           *)
(***************************************************************************)
EXTENDS NegotiationPeersProofs

-----------------------------------------------------------------------------
(* What is under way                                                       *)

InQueue(s) == {queue[s][i].entry : i \in DOMAIN queue[s]}

AtWorker(s) == IF worker[s].pc = "idle" THEN {} ELSE {worker[s].op.entry}

ToApply(s) ==
  UNION {Range(http[s][k].entries) : k \in {j \in Slots : http[s][j].pc = "apply"}}

\* The entries that connector s sends, or is about to queue.
Held(s) == InQueue(s) \cup AtWorker(s) \cup ToApply(s)

Stored(x) == [neg |-> x.neg, entries |-> x.entries]

InStore(s) == {Stored(http[s][k]) : k \in {j \in Slots : http[s][j].pc = "stored"}}

AtControl(s) == IF control[s].pc = "stored" THEN {Stored(control[s])} ELSE {}

\* The negotiations of s that are stored while their new agreement is not, with
\* the entries that are to follow.
Storing(s) == InStore(s) \cup AtControl(s)

\* The requests that connector s has sent and its peer has not answered.
Posted(s) == {http[Peer(s)][k].req : k \in {j \in Slots : http[Peer(s)][j].pc # "idle"}}

RequestOf(e) == [base |-> e.base, pid |-> e.pid, msg |-> e.msg]

\* A step adds the entries H and the stored negotiations S at connector s, and
\* elsewhere only moves on what there is.
Grows(s, H, S) ==
  \A x \in Roles :
    /\ Held(x)' \subseteq Held(x) \cup (IF x = s THEN H ELSE {})
    /\ Storing(x)' \subseteq Storing(x) \cup (IF x = s THEN S ELSE {})
    /\ Posted(x)' \subseteq Posted(x) \cup {RequestOf(e) : e \in Held(x)}

AckOf(n) == [ppid |-> n.ppid, cpid |-> n.cpid]

\* How connector s answers, or has answered, the requests of its peer.
Acks(s) ==
  {AckOf(http[s][k].neg) : k \in {j \in Slots : http[s][j].pc \in {"stored", "apply"}}}
    \cup (IF worker[Peer(s)].pc = "answered" THEN {worker[Peer(s)].ack} ELSE {})

\* The step adds the answers A at connector s.
Acked(s, A) == \A x \in Roles : Acks(x)' \subseteq Acks(x) \cup (IF x = s THEN A ELSE {})

\* The offer that brings negotiation pid to OFFERED, and who holds it.
Offers(e, pid) == e.entityID = pid /\ e.target = "OFFERED"

QueueOffers(pid, i) == i \in DOMAIN queue["provider"] /\ Offers(queue["provider"][i].entry, pid)

WorkerOffers(pid) ==
  worker["provider"].pc # "idle" /\ Offers(worker["provider"].op.entry, pid)

SlotOffers(pid, k) ==
  LET h == http["provider"][k] IN h.pc = "apply" /\ \E e \in Range(h.entries) : Offers(e, pid)

NoOffer(pid) ==
  /\ ~WorkerOffers(pid) /\ \A i : ~QueueOffers(pid, i) /\ \A k \in Slots : ~SlotOffers(pid, k)

\* The provider holds at most one offer of its negotiation pid, in one place.
OneOffer(pid) ==
  /\ \A i, j : QueueOffers(pid, i) /\ QueueOffers(pid, j) => i = j
  /\ \A i : QueueOffers(pid, i) => ~WorkerOffers(pid)
  /\ \A k \in Slots : SlotOffers(pid, k) =>
       /\ Len(http["provider"][k].entries) = 1 /\ ~WorkerOffers(pid)
       /\ \A i : ~QueueOffers(pid, i)
       /\ \A l \in Slots : SlotOffers(pid, l) => k = l

OffersStay == \A pid : OneOffer(pid) => OneOffer(pid)'

Flows == (\A s \in Roles : Grows(s, {}, {}) /\ Acked(s, {})) /\ OffersStay

\* Slot k of s goes on with its request, or is done with it.
SlotKept(s, k) ==
  LET h == http[s][k]
      h1 == http'[s][k]
  IN  h1.pc # "idle" =>
        /\ h.pc # "idle" /\ h1.req = h.req
        /\ h1.pc \in {"stored", "apply"} =>
             h1.pc = h.pc /\ h1.neg = h.neg /\ h1.entries = h.entries

SlotsKept == \A s \in Roles, k \in Slots : SlotKept(s, k)

EntryKept(s) ==
  worker'[s].pc # "idle" => worker[s].pc # "idle" /\ worker'[s].op.entry = worker[s].op.entry

WorkerKept(s) ==
  /\ EntryKept(s)
  /\ worker'[s].pc = "answered" => worker[s].pc = "answered" /\ worker'[s].ack = worker[s].ack

ControlKept(s) == control'[s] \in {control[s], Idle}

QueueKept(s) == queue'[s] \in {queue[s], <<>>}

-----------------------------------------------------------------------------
(* Components that only move on what they have                             *)

LEMMA SlotKeeps ==
  ASSUME NEW s \in Roles, \A k \in Slots : SlotKept(s, k)
  PROVE  /\ ToApply(s)' \subseteq ToApply(s) /\ InStore(s)' \subseteq InStore(s)
         /\ \A x \in Roles : Peer(x) = s => Posted(x)' \subseteq Posted(x)
  <1>1. ToApply(s)' \subseteq ToApply(s)
    BY DEF ToApply, SlotKept
  <1>2. InStore(s)' \subseteq InStore(s)
    BY DEF InStore, SlotKept, Stored
  <1>3. ASSUME NEW x \in Roles, Peer(x) = s
        PROVE  Posted(x)' \subseteq Posted(x)
    BY <1>3 DEF Posted, SlotKept
  <1> QED
    BY <1>1, <1>2, <1>3

LEMMA WorkerKeeps ==
  ASSUME NEW s \in Roles, EntryKept(s)
  PROVE  AtWorker(s)' \subseteq AtWorker(s)
  BY DEF AtWorker, EntryKept

LEMMA ControlKeeps ==
  ASSUME NEW s \in Roles, ControlKept(s)
  PROVE  AtControl(s)' \subseteq AtControl(s)
  BY DEF AtControl, ControlKept, Idle

LEMMA QueueKeeps ==
  ASSUME NEW s \in Roles, QueueKept(s)
  PROVE  InQueue(s)' \subseteq InQueue(s)
  BY DEF InQueue, QueueKept

LEMMA SlotsKeep ==
  ASSUME SlotsKept, NEW s \in Roles
  PROVE  /\ ToApply(s)' \subseteq ToApply(s) /\ InStore(s)' \subseteq InStore(s)
         /\ Posted(s)' \subseteq Posted(s)
  <1>1. Peer(s) \in Roles
    BY DEF Peer, Roles
  <1> QED
    BY <1>1, SlotKeeps DEF SlotsKept

LEMMA AcksKeep ==
  ASSUME SlotsKept, \A s \in Roles : WorkerKept(s)
  PROVE  \A s \in Roles : Acked(s, {})
  <1>1. ASSUME NEW x \in Roles
        PROVE  Acks(x)' \subseteq Acks(x)
    <2>1. Peer(x) \in Roles
      BY DEF Peer, Roles
    <2>2. \A k \in Slots : http'[x][k].pc \in {"stored", "apply"} =>
            http[x][k].pc \in {"stored", "apply"} /\ http'[x][k].neg = http[x][k].neg
      BY DEF SlotsKept, SlotKept
    <2>3. worker'[Peer(x)].pc = "answered" =>
            worker[Peer(x)].pc = "answered" /\ worker'[Peer(x)].ack = worker[Peer(x)].ack
      BY <2>1 DEF WorkerKept
    <2> QED
      BY <2>2, <2>3 DEF Acks
  <1> QED
    BY <1>1 DEF Acked

\* The provider holds no more offers than before, in the same places.
LEMMA OffersKeep ==
  ASSUME EntryKept("provider"), QueueKept("provider"),
         \A k \in Slots : http'["provider"][k].pc = "apply" =>
           /\ http["provider"][k].pc = "apply"
           /\ http'["provider"][k].entries = http["provider"][k].entries
  PROVE  OffersStay /\ \A pid : NoOffer(pid) => NoOffer(pid)'
  <1>1. ASSUME NEW pid, NEW i, QueueOffers(pid, i)'
        PROVE  QueueOffers(pid, i)
    BY <1>1 DEF QueueOffers, QueueKept
  <1>2. ASSUME NEW pid, WorkerOffers(pid)'
        PROVE  WorkerOffers(pid)
    BY <1>2 DEF WorkerOffers, EntryKept, Offers
  <1>3. ASSUME NEW pid, NEW k \in Slots, SlotOffers(pid, k)'
        PROVE  SlotOffers(pid, k) /\ http'["provider"][k].entries = http["provider"][k].entries
    BY <1>3 DEF SlotOffers, Offers
  <1>4. ASSUME NEW pid, OneOffer(pid)
        PROVE  OneOffer(pid)'
    BY <1>1, <1>2, <1>3, <1>4 DEF OneOffer
  <1>5. ASSUME NEW pid, NoOffer(pid)
        PROVE  NoOffer(pid)'
    BY <1>1, <1>2, <1>3, <1>5 DEF NoOffer
  <1> QED
    BY <1>4, <1>5 DEF OffersStay

\* Nobody takes up anything new.
LEMMA NothingNew ==
  ASSUME SlotsKept, \A s \in Roles : WorkerKept(s) /\ ControlKept(s) /\ QueueKept(s)
  PROVE  Flows
  <1>1. ASSUME NEW s \in Roles
        PROVE  /\ Held(s)' \subseteq Held(s) /\ Storing(s)' \subseteq Storing(s)
               /\ Posted(s)' \subseteq Posted(s)
    BY SlotsKeep, WorkerKeeps, ControlKeeps, QueueKeeps DEF Held, Storing, WorkerKept
  <1>2. OffersStay
    BY OffersKeep DEF WorkerKept, SlotsKept, SlotKept, Roles
  <1> QED
    BY <1>1, <1>2, AcksKeep DEF Flows, Grows

LEMMA SlotsSame ==
  ASSUME http' = http
  PROVE  SlotsKept
  BY DEF SlotsKept, SlotKept

LEMMA WorkersSame ==
  ASSUME worker' = worker, NEW s
  PROVE  WorkerKept(s) /\ EntryKept(s)
  BY DEF WorkerKept, EntryKept

LEMMA ControlsSame ==
  ASSUME control' = control, NEW s
  PROVE  ControlKept(s)
  BY DEF ControlKept

LEMMA QueuesSame ==
  ASSUME queue' = queue, NEW s
  PROVE  QueueKept(s)
  BY DEF QueueKept

\* The handler of slot k of s goes on and has nothing stored yet.
LEMMA SlotGoesTo ==
  ASSUME NEW I, LockOver(I), NEW s \in Roles, NEW k \in Slots, http[s][k].pc # "idle",
         NEW n \in HandlersOver(s, I), SlotBecomes(s, k, n), n.req = http[s][k].req,
         n.pc \notin {"stored", "apply"}
  PROVE  SlotsKept
  <1>1. http'[s][k] = n /\ \A x \in Roles, y \in Slots : x # s \/ y # k => http'[x][y] = http[x][y]
    BY SlotWritten DEF LockOver
  <1> QED
    BY <1>1 DEF SlotsKept, SlotKept

\* The worker of s goes on with its entry, or is done with it.
LEMMA WorkerGoesTo ==
  ASSUME NEW I, LockOver(I), NEW s \in Roles, NEW n \in WorkersOver(s, I), WorkerBecomes(s, n),
         n = Idle \/ (/\ worker[s].pc # "idle" /\ n.op.entry = worker[s].op.entry
                      /\ n.pc # "answered")
  PROVE  \A x \in Roles : WorkerKept(x) /\ EntryKept(x)
  <1>1. worker'[s] = n /\ \A x \in Roles : x # s => worker'[x] = worker[x]
    BY WorkerWritten DEF LockOver
  <1> QED
    BY <1>1 DEF WorkerKept, EntryKept, Idle

\* A handler that answers is done with its request, and the worker that waits
\* for the answer goes on with its entry.
LEMMA AnswerFlows ==
  ASSUME NEW I, LockOver(I), NEW s \in Roles, NEW k \in Slots, http[s][k].pc # "idle",
         NEW pc \in {"answered", "httpError"}, NEW ack \in AcksOver(I), Answer(s, k, pc, ack)
  PROVE  /\ SlotsKept /\ \A x \in Roles : EntryKept(x)
         /\ \A x \in Roles : (pc = "answered" /\ x = Peer(s)) \/ WorkerKept(x)
         /\ worker'[Peer(s)].pc = "answered" =>
              \/ worker'[Peer(s)].ack = ack
              \/ worker[Peer(s)].pc = "answered" /\ worker'[Peer(s)].ack = worker[Peer(s)].ack
         /\ \A x \in Roles : WorkerGoesOn(x) /\ \A y \in Slots : SlotGoesOn(x, y)
  <1>1. /\ http'[s][k] = Idle /\ worker'[s] = worker[s]
        /\ \A x \in Roles, y \in Slots : x # s \/ y # k => http'[x][y] = http[x][y]
        /\ ~http[s][k].live => worker' = worker
        /\ http[s][k].live => /\ worker[Peer(s)].pc = "wait"
                              /\ worker'[Peer(s)].op = worker[Peer(s)].op
                              /\ worker'[Peer(s)].pc = pc /\ worker'[Peer(s)].ack = ack
        /\ \A x \in Roles : WorkerGoesOn(x) /\ \A y \in Slots : SlotGoesOn(x, y)
    BY Answered
  <1>2. SlotsKept
    BY <1>1 DEF SlotsKept, SlotKept, Idle
  <1>3. http[s][k].live \in BOOLEAN /\ \A x \in Roles : x = s \/ x = Peer(s)
    BY SlotShapes DEF LockOver, Peer, Roles
  <1>4. \A x \in Roles : EntryKept(x)
    BY <1>1, <1>3 DEF EntryKept
  <1>5. \A x \in Roles : (pc = "answered" /\ x = Peer(s)) \/ WorkerKept(x)
    BY <1>1, <1>3, <1>4 DEF WorkerKept
  <1>6. worker'[Peer(s)].pc = "answered" =>
          \/ worker'[Peer(s)].ack = ack
          \/ worker[Peer(s)].pc = "answered" /\ worker'[Peer(s)].ack = worker[Peer(s)].ack
    BY <1>1, <1>3
  <1> QED
    BY <1>1, <1>2, <1>4, <1>5, <1>6

\* What is at position i of the deque of s was there or is one of the entries.
Appended(s, entries, i) ==
  \/ i \in DOMAIN queue[s] /\ queue'[s][i] = queue[s][i]
  \/ LET j == i - Len(queue[s]) IN j \in 1..Len(entries) /\ queue'[s][i].entry = entries[j]

\* The deque of s gets the entries of an applyFunc.
LEMMA QueueGets ==
  ASSUME NEW I, LockOver(I), NEW s \in Roles, NEW entries \in Seq(EntriesOver(s, I)),
         queue' = [queue EXCEPT ![s] = @ \o Operations(entries)]
  PROVE  /\ InQueue(s)' \subseteq InQueue(s) \cup Range(entries)
         /\ \A x \in Roles : x # s => QueueKept(x)
         /\ \A i \in DOMAIN queue'[s] : Appended(s, entries, i)
         /\ Len(queue[s]) \in Nat
  <1> DEFINE ops == Operations(entries)
  <1>1. queue[s] \in Seq(QueuedOver(s, I)) /\ ops \in Seq(QueuedOver(s, I)) /\ DOMAIN queue = Roles
    BY OperationsQueued DEF LockOver, QueuesShape
  <1>2. DOMAIN ops = DOMAIN entries /\ \A i \in DOMAIN ops : ops[i].entry = entries[i]
    BY DEF Operations
  <1> HIDE DEF ops
  <1>3. queue'[s] = queue[s] \o ops /\ \A x \in Roles : x # s => queue'[x] = queue[x]
    BY <1>1 DEF ops
  <1>4. ASSUME NEW i \in DOMAIN queue'[s]
        PROVE  /\ queue'[s][i].entry \in InQueue(s) \cup Range(entries)
               /\ \/ i \in DOMAIN queue[s] /\ queue'[s][i] = queue[s][i]
                  \/ LET j == i - Len(queue[s]) IN
                     j \in 1..Len(entries) /\ queue'[s][i].entry = entries[j]
    <2>1. /\ i \in 1..(Len(queue[s]) + Len(ops)) /\ Len(queue[s]) \in Nat /\ Len(ops) \in Nat
          /\ DOMAIN queue[s] = 1..Len(queue[s]) /\ DOMAIN ops = 1..Len(ops)
          /\ queue'[s][i] = IF i <= Len(queue[s]) THEN queue[s][i] ELSE ops[i - Len(queue[s])]
      BY <1>1, <1>3, <1>4, ConcatProperties, LenProperties
    <2>2. CASE i <= Len(queue[s])
      BY <2>1, <2>2 DEF InQueue
    <2>3. CASE ~(i <= Len(queue[s]))
      <3>1. i - Len(queue[s]) \in DOMAIN ops /\ queue'[s][i] = ops[i - Len(queue[s])]
        BY <2>1, <2>3
      <3>2. DOMAIN entries = 1..Len(entries)
        BY LenProperties
      <3> QED
        BY <1>2, <3>1, <3>2 DEF Range
    <2> QED
      BY <2>2, <2>3
  <1>5. Len(queue[s]) \in Nat
    BY <1>1, LenProperties
  <1> QED
    BY <1>3, <1>4, <1>5 DEF InQueue, QueueKept, Appended

\* New entries are queued.
LEMMA NewQueued ==
  ASSUME NEW I, LockOver(I), NEW s \in Roles, NEW entries \in Seq(EntriesOver(s, I)),
         queue' = [queue EXCEPT ![s] = @ \o Operations(entries)],
         SlotsKept, \A x \in Roles : EntryKept(x) /\ ControlKept(x)
  PROVE  Grows(s, Range(entries), {})
  <1>1. ASSUME NEW x \in Roles
        PROVE  /\ Held(x)' \subseteq Held(x) \cup (IF x = s THEN Range(entries) ELSE {})
               /\ Storing(x)' \subseteq Storing(x) /\ Posted(x)' \subseteq Posted(x)
    <2>1. /\ ToApply(x)' \subseteq ToApply(x) /\ InStore(x)' \subseteq InStore(x)
          /\ Posted(x)' \subseteq Posted(x)
          /\ AtWorker(x)' \subseteq AtWorker(x) /\ AtControl(x)' \subseteq AtControl(x)
      BY SlotsKeep, WorkerKeeps, ControlKeeps
    <2>2. InQueue(x)' \subseteq InQueue(x) \cup (IF x = s THEN Range(entries) ELSE {})
      BY QueueGets, QueueKeeps
    <2> QED
      BY <2>1, <2>2 DEF Held, Storing
  <1> QED
    BY <1>1 DEF Grows

\* The provider's new entries are no offers.
LEMMA OtherQueued ==
  ASSUME NEW I, LockOver(I), NEW s \in Roles, NEW entries \in Seq(EntriesOver(s, I)),
         queue' = [queue EXCEPT ![s] = @ \o Operations(entries)],
         EntryKept("provider"),
         \A k \in Slots : http'["provider"][k].pc = "apply" =>
           /\ http["provider"][k].pc = "apply"
           /\ http'["provider"][k].entries = http["provider"][k].entries,
         s = "provider" => \A e \in Range(entries) : e.target # "OFFERED"
  PROVE  OffersStay
  <1>1. CASE s # "provider"
    BY <1>1, QueueGets, OffersKeep DEF Roles
  <1>2. CASE s = "provider"
    <2>1. ASSUME NEW pid, NEW i, QueueOffers(pid, i)'
          PROVE  QueueOffers(pid, i)
      <3>1. DOMAIN entries = 1..Len(entries)
        BY LenProperties
      <3>2. CASE i \in DOMAIN queue[s] /\ queue'[s][i] = queue[s][i]
        BY <1>2, <2>1, <3>2 DEF QueueOffers, Offers
      <3>3. ASSUME NEW j \in 1..Len(entries), queue'[s][i].entry = entries[j]
            PROVE  FALSE
        BY <1>2, <2>1, <3>1, <3>3 DEF QueueOffers, Offers, Range
      <3>4. Appended(s, entries, i)
        BY <1>2, <2>1, QueueGets DEF QueueOffers
      <3> QED
        BY <3>2, <3>3, <3>4 DEF Appended
    <2>2. ASSUME NEW pid, WorkerOffers(pid)'
          PROVE  WorkerOffers(pid)
      BY <2>2 DEF WorkerOffers, EntryKept, Offers
    <2>3. ASSUME NEW pid, NEW k \in Slots, SlotOffers(pid, k)'
          PROVE  SlotOffers(pid, k) /\ http'["provider"][k].entries = http["provider"][k].entries
      BY <2>3 DEF SlotOffers, Offers
    <2>4. ASSUME NEW pid, OneOffer(pid)
          PROVE  OneOffer(pid)'
      BY <2>1, <2>2, <2>3, <2>4 DEF OneOffer
    <2> QED
      BY <2>4 DEF OffersStay
  <1> QED
    BY <1>1, <1>2

-----------------------------------------------------------------------------
(* Steps that add nothing                                                  *)

SameColumns(r, r1) ==
  /\ r1.state = r.state /\ r1.ppid = r.ppid /\ r1.cpid = r.cpid /\ r1.agreement = r.agreement
  /\ r1.callback = r.callback /\ r1.self = r.self

SameRows ==
  \A s \in Roles : /\ DOMAIN table'[s] = DOMAIN table[s]
                   /\ \A i \in DOMAIN table[s] : SameColumns(table[s][i], table'[s][i])

\* No handler and no worker takes up another negotiation.
GoesOn == \A s \in Roles : WorkerGoesOn(s) /\ \A k \in Slots : SlotGoesOn(s, k)

\* A step that only moves on what is under way and changes nothing but locks
\* in the databases.
Quiet == Flows /\ SameRows /\ GoesOn /\ agreements' = agreements /\ uuid' = uuid

LEMMA RowsSame ==
  ASSUME table' = table
  PROVE  SameRows
  BY DEF SameRows, SameColumns

LEMMA RowsLocked ==
  ASSUME NEW I, StoreShape(I), NEW s \in Roles, NEW i \in DOMAIN table[s], NEW o \in Locks,
         SetLock(s, i, o), agreements' = agreements
  PROVE  SameRows
  <1>1. /\ SameData(table[s][i], table'[s][i]) /\ \A x \in Roles : DOMAIN table'[x] = DOMAIN table[x]
        /\ RowChange(s, i, table[s][i].lock)
    BY LockWritten
  <1> QED
    BY <1>1 DEF SameRows, SameColumns, SameData, RowChange

LEMMA ProcessesSame ==
  ASSUME http' = http, worker' = worker
  PROVE  GoesOn
  BY DEF GoesOn, WorkerGoesOn, SlotGoesOn

\* A handler refuses.
LEMMA RefuseQuiet ==
  ASSUME NEW I, LockOver(I), NEW s \in Roles, NEW k \in Slots, http[s][k].pc # "idle",
         Refuse(s, k), UNCHANGED <<agreements, queue, control, uuid>>,
         table' = table \/ \E i \in DOMAIN table[s], o \in Locks : SetLock(s, i, o)
  PROVE  Quiet
  <1>1. Answer(s, k, "httpError", NoAck) /\ NoAck \in AcksOver(I)
    BY NoAckShape DEF Refuse
  <1>2. SlotsKept /\ GoesOn /\ \A x \in Roles : WorkerKept(x)
    BY <1>1, AnswerFlows DEF GoesOn
  <1>3. Flows
    BY <1>2, NothingNew, QueuesSame, ControlsSame
  <1>4. SameRows
    BY RowsSame, RowsLocked DEF LockOver
  <1> QED
    BY <1>2, <1>3, <1>4 DEF Quiet

\* The handlers that refuse, and those that go on to look for their row.
LEMMA RefusingQuiet ==
  ASSUME NEW I, Before(I), NEW s \in Roles, NEW k \in Slots,
         HandlerNotFound(s, k) \/ HandlerReject(s, k) \/ HandlerNotifyFails(s, k)
           \/ HandlerCancelled(s, k)
  PROVE  Quiet
  <1>1. LockOver(I) /\ {"free", "leaked"} \subseteq Locks
    BY DEF Before, Locks
  <1>2. CASE HandlerNotFound(s, k)
    <2>1. /\ http[s][k].pc # "idle" /\ Refuse(s, k) /\ UNCHANGED <<agreements, queue, control, uuid>>
          /\ table' = table \/ \E i \in DOMAIN table[s] : SetLock(s, i, "leaked")
      BY <1>2 DEF HandlerNotFound, Wanted, Lookup
    <2> QED
      BY <1>1, <2>1, RefuseQuiet
  <1>3. CASE HandlerReject(s, k)
    <2>1. /\ http[s][k].pc # "idle" /\ Refuse(s, k) /\ UNCHANGED <<agreements, queue, control, uuid>>
          /\ http[s][k].pc = "locked" /\ SetLock(s, http[s][k].neg.id, "free")
      BY <1>3 DEF HandlerReject
    <2>2. http[s][k].neg.id \in DOMAIN table[s]
      BY <1>1, <2>1, LockedHandler
    <2> QED
      BY <1>1, <2>1, <2>2, RefuseQuiet
  <1>4. CASE HandlerNotifyFails(s, k)
    <2>1. /\ http[s][k].pc # "idle" /\ Refuse(s, k)
          /\ UNCHANGED <<table, agreements, queue, control, uuid>>
      BY <1>4 DEF HandlerNotifyFails, store
    <2> QED
      BY <1>1, <2>1, RefuseQuiet
  <1>5. CASE HandlerCancelled(s, k)
    <2>1. /\ http[s][k].pc # "idle" /\ Refuse(s, k) /\ UNCHANGED <<agreements, queue, control, uuid>>
          /\ IF http[s][k].pc = "locked" THEN SetLock(s, http[s][k].neg.id, "leaked")
                                         ELSE table' = table
      BY <1>5 DEF HandlerCancelled
    <2>2. http[s][k].pc = "locked" => http[s][k].neg.id \in DOMAIN table[s]
      BY <1>1, LockedHandler
    <2> QED
      BY <1>1, <2>1, <2>2, RefuseQuiet
  <1> QED
    BY <1>2, <1>3, <1>4, <1>5

LEMMA RouteRequestQuiet ==
  ASSUME NEW I, Before(I), NEW s \in Roles, NEW k \in Slots, RouteRequest(s, k)
  PROVE  Quiet
  <1> DEFINE h == http[s][k]
             route == Route(h.req.base, h.req.pid, h.req.msg.type)
  <1>1. /\ LockOver(I) /\ h.pc = "arrived" /\ route \notin {"newRequest", "newOffer"}
        /\ UNCHANGED <<table, agreements, queue, control, uuid>>
    BY DEF RouteRequest, Before, store
  <1>2. h.live \in BOOLEAN /\ h.req \in RequestsOver(s, I)
    BY <1>1, SlotShapes DEF LockOver
  <1>3. CASE route = "none"
    <2>1. Refuse(s, k)
      BY <1>3 DEF RouteRequest
    <2> QED
      BY <1>1, <2>1, RefuseQuiet
  <1>4. CASE route # "none"
    <2>1. route \in {"any", "provider", "consumer"}
      BY <1>1, <1>2, <1>4, CreatingRoutes
    <2> DEFINE n == [pc |-> "lock", req |-> h.req, live |-> h.live,
                     route |-> route, pid |-> h.req.pid]
    <2>2. SlotBecomes(s, k, n) /\ worker' = worker
      BY <1>4 DEF RouteRequest, SlotBecomes
    <2>3. h.req.pid \in I
      BY <1>2 DEF RequestsOver
    <2>4. n \in HandlersOver(s, I) /\ n.pc = "lock" /\ n.req = h.req /\ n.live = h.live /\ n # Idle
      BY <1>2, <2>1, <2>3 DEF HandlersOver, Idle
    <2> HIDE DEF n
    <2>5. SlotsKept
      BY <1>1, <2>2, <2>4, SlotGoesTo
    <2>6. GoesOn
      <3>1. http'[s][k] = n /\ \A x \in Roles, y \in Slots : x # s \/ y # k => http'[x][y] = http[x][y]
        BY <1>1, <2>2, <2>4, SlotWritten DEF LockOver
      <3> QED
        BY <2>2, <2>4, <3>1 DEF GoesOn, WorkerGoesOn, SlotGoesOn
    <2>7. Flows
      BY <1>1, <2>2, <2>5, NothingNew, WorkersSame, ControlsSame, QueuesSame
    <2> QED
      BY <1>1, <2>6, <2>7, RowsSame DEF Quiet
  <1> QED
    BY <1>3, <1>4

\* The worker of s goes on with its entry, and takes up no other negotiation.
LEMMA WorkerQuiet ==
  ASSUME NEW I, LockOver(I), NEW s \in Roles, NEW n \in WorkersOver(s, I), WorkerBecomes(s, n),
         n = Idle \/ (/\ worker[s].pc # "idle" /\ n.op.entry = worker[s].op.entry
                      /\ n.pc # "answered"),
         n.pc \in Busy =>
           worker[s].pc \in Busy /\ n.op = worker[s].op /\ n.neg = worker[s].neg,
         UNCHANGED <<agreements, queue, http, control, uuid>>, SameRows
  PROVE  Quiet
  <1>1. \A x \in Roles : WorkerKept(x)
    BY WorkerGoesTo
  <1>2. worker'[s] = n /\ \A x \in Roles : x # s => worker'[x] = worker[x]
    BY WorkerWritten DEF LockOver
  <1>3. GoesOn
    BY <1>2 DEF GoesOn, WorkerGoesOn, SlotGoesOn, Busy, Idle
  <1>4. Flows
    BY <1>1, NothingNew, SlotsSame, ControlsSame, QueuesSame
  <1> QED
    BY <1>3, <1>4 DEF Quiet

LEMMA AcquireFailsQuiet ==
  ASSUME NEW I, Before(I), NEW s \in Roles, AcquireFails(s)
  PROVE  Quiet
  <1> DEFINE op == worker[s].op
             n == [pc |-> "failed", op |-> op]
  <1>1. /\ LockOver(I) /\ UNCHANGED <<agreements, queue, http, control, uuid>>
        /\ worker[s].pc = "acquire" /\ WorkerBecomes(s, n)
        /\ table' = table \/ \E i \in DOMAIN table[s] : SetLock(s, i, "leaked")
    BY DEF AcquireFails, Before, WorkerBecomes, EntryRows, Lookup
  <1>2. op \in OperationsOver(s, I) /\ "leaked" \in Locks
    BY <1>1, WorkerIsUp DEF Locks
  <1>3. n \in WorkersOver(s, I) /\ n.pc \notin Busy /\ n.op = op /\ n.pc # "answered"
    BY <1>2, LooseWorkers
  <1> HIDE DEF n
  <1>4. SameRows
    BY <1>1, <1>2, RowsSame, RowsLocked DEF LockOver
  <1> QED
    BY <1>1, <1>3, <1>4, WorkerQuiet

LEMMA SendFailsEarlyQuiet ==
  ASSUME NEW I, Before(I), NEW s \in Roles, SendFailsEarly(s)
  PROVE  Quiet
  <1> DEFINE n == [pc |-> "httpError", op |-> worker[s].op, neg |-> worker[s].neg, ack |-> NoAck]
  <1>1. /\ LockOver(I) /\ UNCHANGED <<table, agreements, queue, http, control, uuid>>
        /\ worker[s].pc = "send" /\ worker[s].pc \in Busy /\ WorkerBecomes(s, n)
    BY DEF SendFailsEarly, Before, store, WorkerBecomes, Busy
  <1>2. /\ n \in WorkersOver(s, I) /\ n.op = worker[s].op /\ n.neg = worker[s].neg
        /\ n.pc # "answered"
    BY <1>1, FailedWorker
  <1> HIDE DEF n
  <1> QED
    BY <1>1, <1>2, WorkerQuiet, RowsSame

LEMMA GiveUpQuiet ==
  ASSUME NEW I, Before(I), NEW s \in Roles, GiveUp(s)
  PROVE  Quiet
  <1> DEFINE n == [worker[s] EXCEPT !.pc = "terminate"]
  <1>1. /\ LockOver(I) /\ UNCHANGED <<table, agreements, queue, http, control, uuid>>
        /\ worker[s].pc = "failed" /\ WorkerBecomes(s, n)
    BY DEF GiveUp, Before, WorkerBecomes, store
  <1>2. worker[s] \in WorkersOver(s, I)
    BY <1>1 DEF LockOver, WorkersShape
  <1>3. n \in WorkersOver(s, I) /\ n.pc = "terminate" /\ n.op = worker[s].op
    BY <1>1, <1>2 DEF WorkersOver, Idle
  <1> HIDE DEF n
  <1>4. n.pc \notin Busy /\ n.pc # "answered"
    BY <1>3 DEF Busy
  <1> QED
    BY <1>1, <1>3, <1>4, WorkerQuiet, RowsSame

LEMMA Joined ==
  ASSUME NEW S, NEW a \in Seq(S), NEW b \in Seq(S), NEW j \in DOMAIN (a \o b)
  PROVE  \/ j \in 1..Len(a) /\ (a \o b)[j] = a[j]
         \/ j - Len(a) \in 1..Len(b) /\ (a \o b)[j] = b[j - Len(a)]
  <1>1. /\ a \o b \in Seq(S) /\ Len(a \o b) = Len(a) + Len(b) /\ Len(a) \in Nat /\ Len(b) \in Nat
        /\ \A i \in 1..(Len(a) + Len(b)) :
             (a \o b)[i] = IF i <= Len(a) THEN a[i] ELSE b[i - Len(a)]
    BY ConcatProperties, LenProperties
  <1>2. j \in 1..(Len(a) + Len(b))
    BY <1>1, LenProperties
  <1> QED
    BY <1>1, <1>2

\* An operation is taken off the deque.
LEMMA TakeQuiet ==
  ASSUME NEW I, Before(I), NEW s \in Roles, NEW i \in DOMAIN queue[s], Take(s, i)
  PROVE  Quiet
  <1> DEFINE q == queue[s]
             front == SubSeq(q, 1, i - 1)
             back == SubSeq(q, i + 1, Len(q))
  <1>1. /\ LockOver(I) /\ UNCHANGED <<table, agreements, http, control, uuid>>
        /\ worker[s].pc = "idle"
        /\ queue' = [queue EXCEPT ![s] = front \o back]
        /\ worker' = [worker EXCEPT ![s] =
             [pc |-> "acquire", op |-> [q[i] EXCEPT !.attempts = @ + 1]]]
    BY DEF Take, Before, store
  <1>2. q \in Seq(QueuedOver(s, I)) /\ DOMAIN queue = Roles /\ DOMAIN worker = Roles
    BY <1>1 DEF LockOver, QueuesShape, WorkersShape
  <1>3. i \in 1..Len(q) /\ Len(q) \in Nat /\ DOMAIN q = 1..Len(q) /\ q[i] \in QueuedOver(s, I)
    BY <1>2, LenProperties, ElementOfSeq
  <1>4. \A j \in DOMAIN (front \o back) :
          LET l == IF j < i THEN j ELSE j + 1 IN
          l \in DOMAIN q /\ j \in Int /\ (front \o back)[j] = q[l]
    <2>1. /\ front \in Seq(QueuedOver(s, I)) /\ Len(front) = i - 1
          /\ \A j \in 1..(i - 1) : front[j] = q[j]
      <3>1. \A j \in 1..(i - 1) : q[j] \in QueuedOver(s, I)
        BY <1>2, <1>3, ElementOfSeq
      <3> QED
        BY <1>2, <1>3, <3>1, SubSeqProperties
    <2>2. /\ back \in Seq(QueuedOver(s, I)) /\ Len(back) = Len(q) - i
          /\ \A j \in 1..(Len(q) - i) : back[j] = q[i + j]
      <3>1. \A j \in (i + 1)..Len(q) : q[j] \in QueuedOver(s, I)
        BY <1>2, <1>3, ElementOfSeq
      <3> QED
        BY <1>2, <1>3, <3>1, SubSeqProperties
    <2> HIDE DEF front, back
    <2>3. ASSUME NEW j \in DOMAIN (front \o back)
          PROVE  LET l == IF j < i THEN j ELSE j + 1 IN
                 l \in DOMAIN q /\ j \in Int /\ (front \o back)[j] = q[l]
      <3>1. CASE j \in 1..Len(front) /\ (front \o back)[j] = front[j]
        BY <1>3, <2>1, <3>1
      <3>2. CASE j - Len(front) \in 1..Len(back) /\ (front \o back)[j] = back[j - Len(front)]
        <4> DEFINE l == j - Len(front)
        <4>1. j \in Int
          <5>1. front \o back \in Seq(QueuedOver(s, I))
            BY <2>1, <2>2, ConcatProperties
          <5> QED
            BY <2>3, <5>1, LenProperties
        <4>2. l \in 1..(Len(q) - i) /\ (front \o back)[j] = back[l] /\ j = l + i - 1
          BY <1>3, <2>1, <2>2, <3>2, <4>1
        <4> HIDE DEF l
        <4>3. i + l \in 1..Len(q) /\ i + l = j + 1 /\ ~(j < i)
          BY <1>3, <4>1, <4>2
        <4>4. back[l] = q[i + l]
          BY <2>2, <4>2
        <4> QED
          BY <1>3, <4>1, <4>2, <4>3, <4>4
      <3> QED
        BY <2>1, <2>2, <2>3, <3>1, <3>2, Joined
    <2> QED
      BY <2>3
  <1> HIDE DEF front, back
  <1>5. queue'[s] = front \o back /\ \A x \in Roles : x # s => queue'[x] = queue[x]
    BY <1>1, <1>2
  <1>6. /\ worker'[s].pc = "acquire" /\ worker'[s].op.entry = q[i].entry
        /\ \A x \in Roles : x # s => worker'[x] = worker[x]
    <2>1. LET o == [q[i] EXCEPT !.attempts = @ + 1] IN o.entry = q[i].entry
      BY <1>3 DEF QueuedOver
    <2> QED
      BY <1>1, <1>2, <2>1
  <1>7. InQueue(s)' \subseteq InQueue(s)
    BY <1>4, <1>5 DEF InQueue
  <1>8. AtWorker(s)' \subseteq InQueue(s)
    BY <1>6 DEF AtWorker, InQueue
  <1>9. ASSUME NEW x \in Roles
        PROVE  /\ Held(x)' \subseteq Held(x) /\ Storing(x)' \subseteq Storing(x)
               /\ Posted(x)' \subseteq Posted(x)
    <2>1. /\ ToApply(x)' \subseteq ToApply(x) /\ InStore(x)' \subseteq InStore(x)
          /\ Posted(x)' \subseteq Posted(x) /\ AtControl(x)' \subseteq AtControl(x)
      BY <1>1, SlotsKeep, SlotsSame, ControlKeeps, ControlsSame
    <2>2. x # s => InQueue(x)' \subseteq InQueue(x) /\ AtWorker(x)' \subseteq AtWorker(x)
      BY <1>5, <1>6 DEF InQueue, AtWorker
    <2> QED
      BY <1>7, <1>8, <2>1, <2>2 DEF Held, Storing
  <1>10. \A x \in Roles : Acked(x, {})
    <2>1. \A x \in Roles : worker'[x].pc = "answered" => worker'[x] = worker[x]
      BY <1>6
    <2>2. Peer("consumer") \in Roles /\ Peer("provider") \in Roles
      BY DEF Peer, Roles
    <2> QED
      BY <1>1, <2>1, <2>2 DEF Acked, Acks, Roles
  <1>11. OffersStay
    <2>1. CASE s # "provider"
      <3>1. QueueKept("provider") /\ EntryKept("provider")
        BY <1>5, <1>6, <2>1 DEF QueueKept, EntryKept, Roles
      <3> QED
        BY <1>1, <3>1, OffersKeep
    <2>2. CASE s = "provider"
      <3>1. ASSUME NEW pid, NEW j, QueueOffers(pid, j)'
            PROVE  /\ QueueOffers(pid, IF j < i THEN j ELSE j + 1) /\ j \in Int
        BY <1>4, <1>5, <2>2, <3>1 DEF QueueOffers, Offers
      <3>2. ASSUME NEW pid, WorkerOffers(pid)'
            PROVE  QueueOffers(pid, i)
        BY <1>6, <2>2, <3>2 DEF WorkerOffers, QueueOffers, Offers
      <3>3. ASSUME NEW pid, NEW k \in Slots, SlotOffers(pid, k)'
            PROVE  SlotOffers(pid, k) /\ http'["provider"][k].entries = http["provider"][k].entries
        BY <1>1, <3>3 DEF SlotOffers, Offers
      <3>4. ASSUME NEW pid, OneOffer(pid)
            PROVE  OneOffer(pid)'
        <4>1. ASSUME NEW j, NEW l, QueueOffers(pid, j)', QueueOffers(pid, l)'
              PROVE  j = l
          <5>1. (IF j < i THEN j ELSE j + 1) = (IF l < i THEN l ELSE l + 1)
            BY <3>1, <3>4, <4>1 DEF OneOffer
          <5> QED
            BY <1>3, <3>1, <4>1, <5>1
        <4>2. ASSUME NEW j, QueueOffers(pid, j)', WorkerOffers(pid)'
              PROVE  FALSE
          <5>1. (IF j < i THEN j ELSE j + 1) = i
            BY <3>1, <3>2, <3>4, <4>2 DEF OneOffer
          <5> QED
            BY <1>3, <3>1, <4>2, <5>1
        <4>3. ASSUME NEW k \in Slots, SlotOffers(pid, k)'
              PROVE  /\ Len(http'["provider"][k].entries) = 1 /\ ~WorkerOffers(pid)'
                     /\ \A j : ~QueueOffers(pid, j)'
                     /\ \A l \in Slots : SlotOffers(pid, l)' => k = l
          BY <3>1, <3>2, <3>3, <3>4, <4>3 DEF OneOffer
        <4> QED
          BY <4>1, <4>2, <4>3 DEF OneOffer
      <3> QED
        BY <3>4 DEF OffersStay
    <2> QED
      BY <2>1, <2>2
  <1>12. Flows
    BY <1>9, <1>10, <1>11 DEF Flows, Grows
  <1>13. GoesOn
    BY <1>1, <1>6 DEF GoesOn, WorkerGoesOn, SlotGoesOn, Busy
  <1> QED
    BY <1>1, <1>12, <1>13, RowsSame DEF Quiet

\* The operation is queued again.
LEMMA RequeueQuiet ==
  ASSUME NEW I, Before(I), NEW s \in Roles, Requeue(s)
  PROVE  Quiet
  <1> DEFINE w == worker[s]
  <1>1. /\ LockOver(I) /\ UNCHANGED <<agreements, http, control, uuid>>
        /\ w.pc \in {"failed", "httpError"}
        /\ queue' = [queue EXCEPT ![s] = Append(@, w.op)] /\ WorkerBecomes(s, Idle)
        /\ IF w.pc = "httpError" THEN SetLock(s, w.neg.id, "free") ELSE table' = table
    BY DEF Requeue, Before, WorkerBecomes
  <1>2. queue[s] \in Seq(QueuedOver(s, I)) /\ DOMAIN queue = Roles
    BY <1>1 DEF LockOver, QueuesShape
  <1>3. queue'[s] = Append(queue[s], w.op) /\ \A x \in Roles : x # s => queue'[x] = queue[x]
    BY <1>1, <1>2
  <1>4. worker'[s] = Idle /\ \A x \in Roles : x # s => worker'[x] = worker[x]
    BY <1>1, WorkerWritten, IdleWorker DEF LockOver
  <1>5. InQueue(s)' \subseteq InQueue(s) \cup AtWorker(s)
    <2>1. ASSUME NEW i \in DOMAIN queue'[s]
          PROVE  queue'[s][i].entry \in InQueue(s) \cup {w.op.entry}
      <3>1. /\ Len(queue[s]) \in Nat /\ DOMAIN queue[s] = 1..Len(queue[s])
            /\ i \in 1..(Len(queue[s]) + 1)
            /\ queue'[s][i] = IF i <= Len(queue[s]) THEN queue[s][i] ELSE w.op
        BY <1>2, <1>3, <2>1
      <3> QED
        BY <3>1 DEF InQueue
    <2>2. AtWorker(s) = {w.op.entry}
      BY <1>1 DEF AtWorker
    <2> QED
      BY <2>1, <2>2 DEF InQueue
  <1>6. ASSUME NEW x \in Roles
        PROVE  /\ Held(x)' \subseteq Held(x) /\ Storing(x)' \subseteq Storing(x)
               /\ Posted(x)' \subseteq Posted(x)
    <2>1. /\ ToApply(x)' \subseteq ToApply(x) /\ InStore(x)' \subseteq InStore(x)
          /\ Posted(x)' \subseteq Posted(x) /\ AtControl(x)' \subseteq AtControl(x)
      BY <1>1, SlotsKeep, SlotsSame, ControlKeeps, ControlsSame
    <2>2. x # s => InQueue(x)' \subseteq InQueue(x)
      BY <1>3 DEF InQueue
    <2>3. AtWorker(x)' \subseteq AtWorker(x)
      BY <1>4 DEF AtWorker, Idle
    <2> QED
      BY <1>5, <2>1, <2>2, <2>3 DEF Held, Storing
  <1>7. GoesOn
    BY <1>1, <1>4 DEF GoesOn, WorkerGoesOn, SlotGoesOn, Busy, Idle
  <1>8. \A x \in Roles : Acked(x, {})
    <2>1. \A x \in Roles : worker'[x].pc = "answered" => worker'[x] = worker[x]
      BY <1>4 DEF Idle
    <2>2. Peer("consumer") \in Roles /\ Peer("provider") \in Roles
      BY DEF Peer, Roles
    <2> QED
      BY <1>1, <2>1, <2>2 DEF Acked, Acks, Roles
  <1>9. OffersStay
    <2>1. CASE s # "provider"
      <3>1. QueueKept("provider") /\ EntryKept("provider")
        BY <1>3, <1>4, <2>1 DEF QueueKept, EntryKept, Roles
      <3> QED
        BY <1>1, <3>1, OffersKeep
    <2>2. CASE s = "provider"
      <3>1. ASSUME NEW pid, NEW j, QueueOffers(pid, j)'
            PROVE  \/ QueueOffers(pid, j) /\ j \in 1..Len(queue[s])
                   \/ j = Len(queue[s]) + 1 /\ WorkerOffers(pid)
        <4>1. /\ Len(queue[s]) \in Nat /\ DOMAIN queue[s] = 1..Len(queue[s])
              /\ j \in 1..(Len(queue[s]) + 1)
              /\ queue'[s][j] = IF j <= Len(queue[s]) THEN queue[s][j] ELSE w.op
          BY <1>2, <1>3, <2>2, <3>1 DEF QueueOffers
        <4>2. CASE j <= Len(queue[s])
          BY <2>2, <3>1, <4>1, <4>2 DEF QueueOffers
        <4>3. CASE ~(j <= Len(queue[s]))
          BY <1>1, <2>2, <3>1, <4>1, <4>3 DEF QueueOffers, WorkerOffers
        <4> QED
          BY <4>2, <4>3
      <3>2. \A pid : ~WorkerOffers(pid)'
        BY <1>4, <2>2 DEF WorkerOffers, Idle
      <3>3. ASSUME NEW pid, NEW k \in Slots, SlotOffers(pid, k)'
            PROVE  SlotOffers(pid, k) /\ http'["provider"][k].entries = http["provider"][k].entries
        BY <1>1, <3>3 DEF SlotOffers, Offers
      <3>4. Len(queue[s]) \in Nat
        BY <1>2, LenProperties
      <3>5. ASSUME NEW pid, OneOffer(pid)
            PROVE  OneOffer(pid)'
        <4>1. ASSUME NEW j, NEW l, QueueOffers(pid, j)', QueueOffers(pid, l)'
              PROVE  j = l
          <5>1. CASE WorkerOffers(pid)
            BY <3>1, <3>4, <3>5, <4>1, <5>1 DEF OneOffer
          <5>2. CASE ~WorkerOffers(pid)
            BY <3>1, <3>4, <3>5, <4>1, <5>2 DEF OneOffer
          <5> QED
            BY <5>1, <5>2
        <4>2. ASSUME NEW k \in Slots, SlotOffers(pid, k)'
              PROVE  /\ Len(http'["provider"][k].entries) = 1 /\ ~WorkerOffers(pid)'
                     /\ \A j : ~QueueOffers(pid, j)'
                     /\ \A l \in Slots : SlotOffers(pid, l)' => k = l
          BY <3>1, <3>2, <3>3, <3>5, <4>2 DEF OneOffer
        <4> QED
          BY <3>2, <4>1, <4>2 DEF OneOffer
      <3> QED
        BY <3>5 DEF OffersStay
    <2> QED
      BY <2>1, <2>2
  <1>10. SameRows
    <2>1. w.pc = "httpError" => w.neg.id \in DOMAIN table[s]
      BY <1>1, BusyWorker DEF Busy
    <2>2. "free" \in Locks
      BY DEF Locks
    <2> QED
      BY <1>1, <2>1, <2>2, RowsSame, RowsLocked DEF LockOver
  <1> QED
    BY <1>1, <1>6, <1>7, <1>10, <1>8, <1>9 DEF Quiet, Flows, Grows

\* The answer is queued and the request acknowledged.
LEMMA HandlerApplyQuiet ==
  ASSUME NEW I, Before(I), NEW s \in Roles, NEW k \in Slots, HandlerApply(s, k)
  PROVE  Quiet
  <1> DEFINE h == http[s][k]
             ack == [ppid |-> h.neg.ppid, cpid |-> h.neg.cpid]
  <1>1. /\ LockOver(I) /\ UNCHANGED <<table, agreements, control, uuid>> /\ h.pc = "apply"
        /\ queue' = [queue EXCEPT ![s] = @ \o Operations(h.entries)]
        /\ Answer(s, k, "answered", ack)
    BY DEF HandlerApply, Before, store
  <1>2. h.neg \in CopiesOver(s, I) /\ h.entries \in Seq(EntriesOver(s, I))
    BY <1>1, SlotShapes DEF LockOver
  <1>3. ack \in AcksOver(I)
    BY <1>2 DEF CopiesOver, PpidsOver, CpidsOver, AcksOver
  <1> HIDE DEF ack
  <1>4. /\ SlotsKept /\ GoesOn /\ \A x \in Roles : EntryKept(x)
        /\ \A x \in Roles : x = Peer(s) \/ WorkerKept(x)
        /\ worker'[Peer(s)].pc = "answered" =>
             \/ worker'[Peer(s)].ack = ack
             \/ worker[Peer(s)].pc = "answered" /\ worker'[Peer(s)].ack = worker[Peer(s)].ack
    BY <1>1, <1>3, AnswerFlows DEF GoesOn
  <1>5. Grows(s, Range(h.entries), {})
    BY <1>1, <1>2, <1>4, NewQueued, ControlsSame
  <1>6. Range(h.entries) \subseteq Held(s)
    BY <1>1 DEF Held, ToApply
  <1>7. \A x \in Roles : Grows(x, {}, {})
    BY <1>5, <1>6 DEF Grows
  <1>8. ack \in Acks(s)
    BY <1>1 DEF Acks, AckOf, ack
  <1>9. ASSUME NEW x \in Roles
        PROVE  Acks(x)' \subseteq Acks(x)
    <2>1. Peer(x) \in Roles /\ (Peer(x) = Peer(s) => x = s)
      BY DEF Peer, Roles
    <2>2. \A y \in Slots : http'[x][y].pc \in {"stored", "apply"} =>
            http[x][y].pc \in {"stored", "apply"} /\ http'[x][y].neg = http[x][y].neg
      BY <1>4 DEF SlotsKept, SlotKept
    <2>3. worker'[Peer(x)].pc = "answered" => worker'[Peer(x)].ack \in Acks(x)
      <3>1. CASE Peer(x) = Peer(s)
        BY <1>4, <1>8, <2>1, <3>1 DEF Acks
      <3>2. CASE Peer(x) # Peer(s)
        BY <1>4, <2>1, <3>2 DEF Acks, WorkerKept
      <3> QED
        BY <3>1, <3>2
    <2> QED
      BY <2>2, <2>3 DEF Acks
  <1>10. /\ http'[s][k] = Idle
         /\ \A x \in Roles, y \in Slots : x # s \/ y # k => http'[x][y] = http[x][y]
    BY <1>1, <1>3, Answered
  <1>11. OffersStay
    <2>1. ASSUME NEW y \in Slots, http'["provider"][y].pc = "apply"
          PROVE  /\ http["provider"][y].pc = "apply"
                 /\ http'["provider"][y].entries = http["provider"][y].entries
      BY <1>10, <2>1 DEF Roles, Idle
    <2>2. CASE s # "provider" \/ \A e \in Range(h.entries) : e.target # "OFFERED"
      <3>1. EntryKept("provider") /\ (s = "provider" => \A e \in Range(h.entries) : e.target # "OFFERED")
        BY <1>4, <2>2 DEF Roles
      <3> HIDE DEF h
      <3> QED
        BY <1>1, <1>2, <2>1, <3>1, OtherQueued
    <2>3. CASE s = "provider"
      <3>1. ASSUME NEW pid, NEW j, QueueOffers(pid, j)'
            PROVE  \/ QueueOffers(pid, j)
                   \/ /\ j \in Int /\ j - Len(queue[s]) \in 1..Len(h.entries)
                      /\ SlotOffers(pid, k)
        <4>1. \/ j \in DOMAIN queue[s] /\ queue'[s][j] = queue[s][j]
              \/ /\ j - Len(queue[s]) \in 1..Len(h.entries)
                 /\ queue'[s][j].entry = h.entries[j - Len(queue[s])]
          <5>1. j \in DOMAIN queue'[s]
            BY <2>3, <3>1 DEF QueueOffers
          <5>2. Appended(s, h.entries, j)
            BY <1>1, <1>2, <5>1, QueueGets
          <5> QED
            BY <5>2 DEF Appended
        <4>2. CASE j \in DOMAIN queue[s] /\ queue'[s][j] = queue[s][j]
          BY <2>3, <3>1, <4>2 DEF QueueOffers
        <4>3. CASE /\ j - Len(queue[s]) \in 1..Len(h.entries)
                   /\ queue'[s][j].entry = h.entries[j - Len(queue[s])]
          <5>1. DOMAIN h.entries = 1..Len(h.entries)
            BY <1>2, LenProperties
          <5>2. Offers(h.entries[j - Len(queue[s])], pid)
            BY <2>3, <3>1, <4>3 DEF QueueOffers
          <5>3. SlotOffers(pid, k)
            BY <1>1, <2>3, <4>3, <5>1, <5>2 DEF SlotOffers, Range
          <5>4. j \in Int
            <6>1. queue'[s] \in Seq(QueuedOver(s, I))
              <7>1. Operations(h.entries) \in Seq(QueuedOver(s, I)) /\ queue[s] \in Seq(QueuedOver(s, I)) /\ DOMAIN queue = Roles
                BY <1>1, <1>2, OperationsQueued DEF LockOver, QueuesShape
              <7>2. queue'[s] = queue[s] \o Operations(h.entries)
                BY <1>1, <7>1
              <7> QED
                BY <7>1, <7>2, ConcatProperties
            <6> QED
              BY <2>3, <3>1, <6>1, LenProperties DEF QueueOffers
          <5>5. Len(queue[s]) \in Nat
            BY <1>1, <1>2, QueueGets
          <5> QED
            BY <4>3, <5>3, <5>4, <5>5
        <4> QED
          BY <4>1, <4>2, <4>3
      <3>2. ASSUME NEW pid, WorkerOffers(pid)'
            PROVE  WorkerOffers(pid)
        BY <1>4, <3>2 DEF WorkerOffers, EntryKept, Offers, Roles
      <3>3. ASSUME NEW pid, NEW y \in Slots, SlotOffers(pid, y)'
            PROVE  /\ y # k /\ SlotOffers(pid, y)
                   /\ http'["provider"][y].entries = http["provider"][y].entries
        BY <1>10, <2>1, <2>3, <3>3 DEF SlotOffers, Offers, Idle
      <3>4. Len(queue[s]) \in Nat
        BY <1>1, <1>2, QueueGets
      <3>5. ASSUME NEW pid, OneOffer(pid)
            PROVE  OneOffer(pid)'
        <4>1. ASSUME SlotOffers(pid, k)
              PROVE  /\ Len(h.entries) = 1 /\ ~WorkerOffers(pid)
                     /\ \A j : ~QueueOffers(pid, j)
                     /\ \A l \in Slots : SlotOffers(pid, l) => k = l
          BY <2>3, <3>5, <4>1 DEF OneOffer
        <4>2. ASSUME NEW j, NEW l, QueueOffers(pid, j)', QueueOffers(pid, l)'
              PROVE  j = l
          <5>1. CASE SlotOffers(pid, k)
            <6>1. \A m : QueueOffers(pid, m)' => m \in Int /\ m - Len(queue[s]) \in 1..1
              BY <3>1, <4>1, <5>1
            <6>2. j \in Int /\ l \in Int /\ j - Len(queue[s]) = 1 /\ l - Len(queue[s]) = 1
              BY <4>2, <6>1
            <6> QED
              BY <3>4, <6>2
          <5>2. CASE ~SlotOffers(pid, k)
            BY <3>1, <3>5, <4>2, <5>2 DEF OneOffer
          <5> QED
            BY <5>1, <5>2
        <4>3. ASSUME NEW j, QueueOffers(pid, j)', WorkerOffers(pid)'
              PROVE  FALSE
          BY <3>1, <3>2, <3>5, <4>1, <4>3 DEF OneOffer
        <4>4. ASSUME NEW y \in Slots, SlotOffers(pid, y)'
              PROVE  /\ Len(http'["provider"][y].entries) = 1 /\ ~WorkerOffers(pid)'
                     /\ \A j : ~QueueOffers(pid, j)'
                     /\ \A l \in Slots : SlotOffers(pid, l)' => y = l
          BY <3>1, <3>2, <3>3, <3>5, <4>1, <4>4 DEF OneOffer
        <4> QED
          BY <4>2, <4>3, <4>4 DEF OneOffer
      <3> QED
        BY <3>5 DEF OffersStay
    <2> QED
      BY <2>2, <2>3
  <1>12. Flows
    BY <1>7, <1>9, <1>11 DEF Flows, Acked
  <1> QED
    BY <1>1, <1>4, <1>12, RowsSame DEF Quiet

\* The request reaches the peer.
LEMMA SendHTTPRequestQuiet ==
  ASSUME NEW I, Before(I), NEW s \in Roles, NEW k \in Slots, SendHTTPRequest(s, k)
  PROVE  Quiet
  <1> DEFINE p == Peer(s)
             w == worker[s]
             h == [pc |-> "arrived", live |-> TRUE, req |-> RequestOf(w.op.entry)]
             n == [pc |-> "wait", op |-> w.op, neg |-> w.neg, slot |-> k]
  <1>1. /\ LockOver(I) /\ UNCHANGED <<table, agreements, queue, control, uuid>>
        /\ w.pc = "send" /\ http[p][k].pc = "idle"
        /\ http' = [http EXCEPT ![p][k] = h] /\ WorkerBecomes(s, n)
    BY DEF SendHTTPRequest, Before, store, WorkerBecomes, RequestOf
  <1>2. p \in Roles /\ Peer(p) = s /\ p # s /\ \A x \in Roles : x = s \/ x = p
    BY DEF Peer, Roles
  <1>3. w.pc \in Busy /\ w.op \in OperationsOver(s, I) /\ w.neg \in CopiesOver(s, I)
    BY <1>1, BusyWorker DEF Busy
  <1>4. n \in WorkersOver(s, I) /\ n.op = w.op /\ n.neg = w.neg /\ n.pc # "answered"
    BY <1>3 DEF WorkersOver
  <1>5. h.pc = "arrived" /\ h.req = RequestOf(w.op.entry)
    OBVIOUS
  <1> HIDE DEF h, n
  <1>6. http'[p][k] = h /\ \A x \in Roles, y \in Slots : x # p \/ y # k => http'[x][y] = http[x][y]
    BY <1>1, <1>2 DEF LockOver, HandlersShape
  <1>7. \A x \in Roles : WorkerKept(x) /\ EntryKept(x)
    BY <1>1, <1>3, <1>4, WorkerGoesTo DEF Busy
  <1>8. worker'[s] = n /\ \A x \in Roles : x # s => worker'[x] = worker[x]
    BY <1>1, <1>4, WorkerWritten DEF LockOver
  <1>9. ASSUME NEW x \in Roles
        PROVE  ToApply(x)' \subseteq ToApply(x) /\ InStore(x)' \subseteq InStore(x)
    <2>1. \A y \in Slots : http'[x][y] = http[x][y] \/ http'[x][y].pc \notin {"apply", "stored"}
      BY <1>5, <1>6
    <2>2. ToApply(x)' \subseteq ToApply(x)
      BY <2>1 DEF ToApply
    <2>3. InStore(x)' \subseteq InStore(x)
      BY <2>1 DEF InStore
    <2> QED
      BY <2>2, <2>3
  <1>10. w.op.entry \in Held(s)
    BY <1>1 DEF Held, AtWorker
  <1>11. Posted(s)' \subseteq Posted(s) \cup {RequestOf(e) : e \in Held(s)}
    <2>1. \A y \in Slots : http'[p][y].pc # "idle" =>
            \/ http'[p][y].req = RequestOf(w.op.entry)
            \/ http[p][y].pc # "idle" /\ http'[p][y].req = http[p][y].req
      BY <1>2, <1>5, <1>6
    <2> QED
      BY <1>10, <2>1 DEF Posted
  <1>12. Posted(p)' \subseteq Posted(p)
    BY <1>2, <1>6 DEF Posted
  <1>13. ASSUME NEW x \in Roles
         PROVE  /\ Held(x)' \subseteq Held(x) /\ Storing(x)' \subseteq Storing(x)
                /\ Posted(x)' \subseteq Posted(x) \cup {RequestOf(e) : e \in Held(x)}
    <2>1. /\ AtWorker(x)' \subseteq AtWorker(x) /\ AtControl(x)' \subseteq AtControl(x)
          /\ InQueue(x)' \subseteq InQueue(x)
      BY <1>1, <1>7, WorkerKeeps, ControlKeeps, ControlsSame, QueueKeeps, QueuesSame
    <2> QED
      BY <1>2, <1>9, <1>11, <1>12, <2>1 DEF Held, Storing
  <1>14. \A x \in Roles, y \in Slots : http'[x][y].pc \in {"stored", "apply"} =>
           http'[x][y] = http[x][y]
    BY <1>5, <1>6
  <1>15. \A x \in Roles : Acked(x, {})
    <2>1. \A x \in Roles : worker'[x].pc = "answered" =>
            worker[x].pc = "answered" /\ worker'[x].ack = worker[x].ack
      BY <1>7 DEF WorkerKept
    <2>2. Peer("consumer") \in Roles /\ Peer("provider") \in Roles
      BY DEF Peer, Roles
    <2> QED
      BY <1>14, <2>1, <2>2 DEF Acked, Acks, Roles
  <1>16. OffersStay
    <2>1. QueueKept("provider") /\ EntryKept("provider")
      BY <1>1, <1>7, QueuesSame DEF Roles
    <2>2. \A y \in Slots : http'["provider"][y].pc = "apply" =>
            http'["provider"][y] = http["provider"][y]
      BY <1>14 DEF Roles
    <2> QED
      BY <2>1, <2>2, OffersKeep
  <1>17. Flows
    BY <1>13, <1>15, <1>16 DEF Flows, Grows
  <1>18. GoesOn
    BY <1>2, <1>3, <1>4, <1>5, <1>6, <1>8 DEF GoesOn, WorkerGoesOn, SlotGoesOn
  <1> QED
    BY <1>1, <1>17, <1>18, RowsSame DEF Quiet

\* The connection breaks.
LEMMA ConnectionLostQuiet ==
  ASSUME NEW I, Before(I), NEW s \in Roles, ConnectionLost(s)
  PROVE  Quiet
  <1> DEFINE p == Peer(s)
             w == worker[s]
             k == w.slot
             h == [http[p][k] EXCEPT !.live = FALSE]
             n == [pc |-> "httpError", op |-> w.op, neg |-> w.neg, ack |-> NoAck]
  <1>1. /\ LockOver(I) /\ UNCHANGED <<table, agreements, queue, control, uuid>>
        /\ w.pc = "wait" /\ w.pc \in Busy
        /\ http' = [http EXCEPT ![p][k].live = FALSE] /\ WorkerBecomes(s, n)
    BY DEF ConnectionLost, Before, store, WorkerBecomes, Busy
  <1>2. p \in Roles /\ p # s /\ \A x \in Roles : x = s \/ x = p
    BY DEF Peer, Roles
  <1>3. k \in Slots /\ http[p][k] # Idle
    BY <1>1, WorkerShapes DEF LockOver, Waiting
  <1>4. http[p][k] \in HandlersOver(p, I) /\ http[p][k].pc # "idle"
    BY <1>1, <1>2, <1>3, SlotShapes DEF LockOver
  <1>5. /\ h.pc = http[p][k].pc /\ h.req = http[p][k].req
        /\ h.pc = "locked" => h.neg = http[p][k].neg
        /\ h.pc \in {"stored", "apply"} => h.neg = http[p][k].neg /\ h.entries = http[p][k].entries
    BY <1>4 DEF HandlersOver, Idle
  <1>6. n \in WorkersOver(s, I) /\ n.pc = "httpError" /\ n.op = w.op /\ n.neg = w.neg
    BY <1>1, FailedWorker
  <1>7. http'[p][k] = h /\ \A x \in Roles, y \in Slots : x # p \/ y # k => http'[x][y] = http[x][y]
    BY <1>1, <1>2, <1>3 DEF LockOver, HandlersShape
  <1> HIDE DEF h, n
  <1>8. worker'[s] = n /\ \A x \in Roles : x # s => worker'[x] = worker[x]
    BY <1>1, <1>6, WorkerWritten DEF LockOver
  <1>9. \A x \in Roles : WorkerKept(x)
    BY <1>1, <1>6, WorkerGoesTo
  <1>10. SlotsKept
    BY <1>4, <1>5, <1>7 DEF SlotsKept, SlotKept
  <1>11. Flows
    BY <1>1, <1>9, <1>10, NothingNew, ControlsSame, QueuesSame
  <1>12. GoesOn
    BY <1>1, <1>2, <1>5, <1>6, <1>7, <1>8 DEF GoesOn, WorkerGoesOn, SlotGoesOn
  <1> QED
    BY <1>1, <1>11, <1>12, RowsSame DEF Quiet

\* A process dies.
LEMMA DieQuiet ==
  ASSUME NEW I, LockOver(I), NEW s \in Roles, NEW released, Die(s, released)
  PROVE  Quiet
  <1> DEFINE p == Peer(s)
  <1>1. p \in Roles /\ p # s /\ \A x \in Roles : x = s \/ x = p
    BY DEF Peer, Roles
  <1>2. /\ queue' = [queue EXCEPT ![s] = <<>>] /\ control' = [control EXCEPT ![s] = Idle]
        /\ agreements' = agreements /\ uuid' = uuid
    BY DEF Die
  <1>3. /\ \A k \in Slots : http'[s][k] = Idle
        /\ \A k \in Slots : http[p][k] = Idle => http'[p][k] = Idle
        /\ \A k \in Slots : http[p][k] # Idle => http'[p][k] = [http[p][k] EXCEPT !.live = FALSE]
        /\ \A k \in Slots : SlotGoesOn(s, k) /\ SlotGoesOn(p, k)
    BY HandlersAfterDeath
  <1>4. /\ worker'[s] = Idle /\ WorkerGoesOn(p)
        /\ IF worker[p].pc = "wait"
             THEN worker'[p] = [pc |-> "httpError", op |-> worker[p].op,
                                neg |-> worker[p].neg, ack |-> NoAck]
             ELSE worker'[p] = worker[p]
    BY WorkersAfterDeath
  <1>5. SlotsKept
    <2>1. ASSUME NEW k \in Slots PROVE SlotKept(s, k)
      BY <1>3 DEF SlotKept, Idle
    <2>2. ASSUME NEW k \in Slots PROVE SlotKept(p, k)
      <3>1. CASE http[p][k] = Idle
        BY <1>3, <3>1 DEF SlotKept, Idle
      <3>2. CASE http[p][k] # Idle
        <4> DEFINE g == http[p][k]
                   h == [g EXCEPT !.live = FALSE]
        <4>1. g \in HandlersOver(p, I) /\ g.pc # "idle"
          BY <1>1, <3>2, SlotShapes DEF LockOver
        <4>2. /\ h.pc = g.pc /\ h.req = g.req
              /\ h.pc \in {"stored", "apply"} => h.neg = g.neg /\ h.entries = g.entries
          BY <4>1 DEF HandlersOver, Idle
        <4> QED
          BY <1>3, <3>2, <4>1, <4>2 DEF SlotKept
      <3> QED
        BY <3>1, <3>2
    <2> QED
      BY <1>1, <2>1, <2>2 DEF SlotsKept
  <1>6. \A x \in Roles : WorkerKept(x)
    <2>1. WorkerKept(s)
      BY <1>4 DEF WorkerKept, EntryKept, Idle
    <2>2. WorkerKept(p)
      BY <1>4 DEF WorkerKept, EntryKept
    <2> QED
      BY <1>1, <2>1, <2>2
  <1>7. \A x \in Roles : QueueKept(x) /\ ControlKept(x)
    BY <1>1, <1>2 DEF LockOver, QueuesShape, ControlsShape, QueueKept, ControlKept
  <1>8. Flows
    BY <1>5, <1>6, <1>7, NothingNew
  <1>9. GoesOn
    <2>1. WorkerGoesOn(s)
      BY <1>4 DEF WorkerGoesOn, Busy, Idle
    <2> QED
      BY <1>1, <1>3, <1>4, <2>1 DEF GoesOn
  <1>10. SameRows
    <2>1. /\ \A x \in Roles : x # s => table'[x] = table[x]
          /\ DOMAIN table'[s] = DOMAIN table[s]
          /\ \A i \in DOMAIN table[s] : SameData(table[s][i], table'[s][i])
      BY TableAfterDeath DEF LockOver
    <2> QED
      BY <2>1 DEF SameRows, SameColumns, SameData
  <1> QED
    BY <1>2, <1>8, <1>9, <1>10 DEF Quiet

LEMMA CrashQuiet ==
  ASSUME NEW I, Before(I), NEW s \in Roles, PanicHolding(s) \/ PanicTerminating(s) \/ Crash(s)
  PROVE  Quiet
  BY DieQuiet DEF Before, PanicHolding, PanicTerminating, Crash

LEMMA StutterQuiet ==
  ASSUME UNCHANGED <<table, agreements, queue, worker, http, control, uuid>>
  PROVE  Quiet
  BY NothingNew, SlotsSame, WorkersSame, ControlsSame, QueuesSame, RowsSame, ProcessesSame DEF Quiet

LEMMA CallRefusedQuiet ==
  ASSUME NEW I, Before(I), NEW s \in Roles, NEW i \in DOMAIN table[s], NEW c \in ControlCalls,
         CallRefused(s, i, c)
  PROVE  Quiet
  <1>1. /\ LockOver(I) /\ SetLock(s, i, "leaked") /\ "leaked" \in Locks
        /\ UNCHANGED <<agreements, queue, worker, http, control, uuid>>
    BY DEF CallRefused, Before, Locks
  <1>2. SameRows
    BY <1>1, RowsLocked DEF LockOver
  <1> QED
    BY <1>1, <1>2, NothingNew, SlotsSame, WorkersSame, ControlsSame, QueuesSame, ProcessesSame DEF Quiet

-----------------------------------------------------------------------------
(* Steps that write a row or add an entry                                  *)

OwnPID(s, r) == IF s = "consumer" THEN r.cpid ELSE r.ppid

\* The PIDs of a row that is written: its own is kept or drawn anew, and no
\* PID is forgotten.
KeptPIDs(s, r, r1) ==
  /\ OwnPID(s, r1) \in {OwnPID(s, r), uuid}
  /\ r.ppid # emptyUUID => r1.ppid # emptyUUID
  /\ r.cpid # emptyUUID => r1.cpid = r.cpid

\* The step writes n to row i of s and touches no other row.
Puts(s, i, n) ==
  /\ i \in DOMAIN table[s] /\ SameColumns(n, table'[s][i]) /\ KeptPIDs(s, table[s][i], n)
  /\ \A x \in Roles : DOMAIN table'[x] = DOMAIN table[x]
  /\ \A x \in Roles : \A j \in DOMAIN table[x] : x # s \/ j # i => table'[x][j] = table[x][j]

LEMMA RowPut ==
  ASSUME NEW I, StoreShape(I), NEW s \in Roles, NEW i \in DOMAIN table[s],
         NEW n \in CopiesOver(s, I), n.id = i, ForwardRow(table[s][i], n),
         Put(s, n), agreements' = agreements, KeptPIDs(s, table[s][i], n)
  PROVE  Puts(s, i, n)
  <1>1. /\ RowChange(s, i, table[s][i].lock) /\ table'[s][i] = ToModel(n)
        /\ \A x \in Roles : DOMAIN table'[x] = DOMAIN table[x]
    BY CopyWritten
  <1>2. SameColumns(n, ToModel(n))
    BY DEF SameColumns, ToModel
  <1> QED
    BY <1>1, <1>2 DEF Puts, RowChange

\* PIDs that are only learned are kept.
LEMMA LearnedKept ==
  ASSUME NEW I, NEW s \in Roles, NEW r, r \in RowsOver(s, I) \/ r \in CopiesOver(s, I),
         NEW r1, KeepsPIDs(r, r1)
  PROVE  KeptPIDs(s, r, r1)
  <1>1. OwnPID(s, r) # emptyUUID
    BY DEF RowsOver, CopiesOver, PpidsOver, CpidsOver, OwnPID, Roles
  <1> QED
    BY <1>1 DEF KeepsPIDs, KeptPIDs, OwnPID

\* A handler that takes up its request, stores the negotiation, or stores the
\* agreement.
LEMMA SlotGrows ==
  ASSUME NEW I, LockOver(I), NEW s \in Roles, NEW k \in Slots, http[s][k].pc # "idle",
         NEW n \in HandlersOver(s, I), SlotBecomes(s, k, n), n.req = http[s][k].req,
         UNCHANGED <<worker, queue, control>>
  PROVE  /\ Grows(s, IF n.pc = "apply" THEN Range(n.entries) ELSE {},
                     IF n.pc = "stored" THEN {Stored(n)} ELSE {})
         /\ Acked(s, IF n.pc \in {"stored", "apply"} THEN {AckOf(n.neg)} ELSE {})
  <1>1. http'[s][k] = n /\ \A x \in Roles, y \in Slots : x # s \/ y # k => http'[x][y] = http[x][y]
    BY SlotWritten DEF LockOver
  <1>2. ToApply(s)' \subseteq ToApply(s) \cup (IF n.pc = "apply" THEN Range(n.entries) ELSE {})
    <2>1. \A y \in Slots : http'[s][y] = n \/ http'[s][y] = http[s][y]
      BY <1>1
    <2> QED
      BY <2>1 DEF ToApply
  <1>3. InStore(s)' \subseteq InStore(s) \cup (IF n.pc = "stored" THEN {Stored(n)} ELSE {})
    <2>1. \A y \in Slots : http'[s][y] = n \/ http'[s][y] = http[s][y]
      BY <1>1
    <2> QED
      BY <2>1 DEF InStore
  <1>4. ASSUME NEW x \in Roles
        PROVE  /\ x # s => ToApply(x)' \subseteq ToApply(x) /\ InStore(x)' \subseteq InStore(x)
               /\ Posted(x)' \subseteq Posted(x)
    <2>1. x # s => ToApply(x)' \subseteq ToApply(x)
      BY <1>1 DEF ToApply
    <2>2. x # s => InStore(x)' \subseteq InStore(x)
      BY <1>1 DEF InStore
    <2>3. Peer(x) \in Roles
      BY DEF Peer, Roles
    <2>4. \A y \in Slots : http'[Peer(x)][y].pc # "idle" =>
            http[Peer(x)][y].pc # "idle" /\ http'[Peer(x)][y].req = http[Peer(x)][y].req
      BY <1>1, <2>3
    <2>5. Posted(x)' \subseteq Posted(x)
      BY <2>4 DEF Posted
    <2> QED
      BY <2>1, <2>2, <2>5
  <1>5. ASSUME NEW x \in Roles
        PROVE  /\ AtWorker(x)' \subseteq AtWorker(x) /\ AtControl(x)' \subseteq AtControl(x)
               /\ InQueue(x)' \subseteq InQueue(x)
    BY WorkerKeeps, WorkersSame, ControlKeeps, ControlsSame, QueueKeeps, QueuesSame
  <1>6. ASSUME NEW x \in Roles
        PROVE  Acks(x)' \subseteq Acks(x) \cup
                 (IF x = s /\ n.pc \in {"stored", "apply"} THEN {AckOf(n.neg)} ELSE {})
    <2>1. \A y \in Slots : http'[x][y].pc \in {"stored", "apply"} =>
            \/ x = s /\ http'[x][y] = n
            \/ http'[x][y] = http[x][y]
      BY <1>1
    <2> QED
      BY <2>1 DEF Acks
  <1>7. Acked(s, IF n.pc \in {"stored", "apply"} THEN {AckOf(n.neg)} ELSE {})
    BY <1>6 DEF Acked
  <1> QED
    BY <1>2, <1>3, <1>4, <1>5, <1>7 DEF Grows, Held, Storing

\* An offer that the provider is about to queue is the only one.
LEMMA SlotOffersOne ==
  ASSUME NEW I, LockOver(I), NEW s \in Roles, NEW k \in Slots,
         NEW n \in HandlersOver(s, I), SlotBecomes(s, k, n), UNCHANGED <<worker, queue>>,
         NEW pid, OneOffer(pid),
         s = "provider" /\ n.pc = "apply" /\ (\E e \in Range(n.entries) : Offers(e, pid)) =>
           NoOffer(pid) /\ Len(n.entries) = 1
  PROVE  OneOffer(pid)'
  <1>1. http'[s][k] = n /\ \A x \in Roles, y \in Slots : x # s \/ y # k => http'[x][y] = http[x][y]
    BY SlotWritten DEF LockOver
  <1> DEFINE IsNew(y) == s = "provider" /\ y = k /\ n.pc = "apply" /\ \E e \in Range(n.entries) : Offers(e, pid)
  <1>2. ASSUME NEW y \in Slots, SlotOffers(pid, y)'
        PROVE  \/ SlotOffers(pid, y) /\ http'["provider"][y].entries = http["provider"][y].entries
               \/ IsNew(y) /\ http'["provider"][y].entries = n.entries
    <2>1. CASE s = "provider" /\ y = k
      BY <1>1, <1>2, <2>1 DEF SlotOffers, Offers
    <2>2. CASE ~(s = "provider" /\ y = k)
      BY <1>1, <1>2, <2>2 DEF SlotOffers, Offers, Roles
    <2> QED
      BY <2>1, <2>2
  <1>3. /\ WorkerOffers(pid)' => WorkerOffers(pid)
        /\ \A i : QueueOffers(pid, i)' => QueueOffers(pid, i)
    BY DEF WorkerOffers, QueueOffers, Offers
  <1>4. CASE IsNew(k)
    <2>1. NoOffer(pid) /\ Len(n.entries) = 1
      BY <1>4
    <2>2. \A y \in Slots : SlotOffers(pid, y)' => y = k /\ Len(http'["provider"][y].entries) = 1
      BY <1>2, <2>1 DEF NoOffer
    <2> QED
      BY <1>3, <2>1, <2>2 DEF NoOffer, OneOffer
  <1>5. CASE ~IsNew(k)
    <2>1. \A y \in Slots : SlotOffers(pid, y)' =>
            SlotOffers(pid, y) /\ http'["provider"][y].entries = http["provider"][y].entries
      BY <1>2, <1>5
    <2> QED
      BY <1>3, <2>1 DEF OneOffer
  <1> QED
    BY <1>4, <1>5

\* A negotiation is made of a request or an offer.
Created(s, k, I, n) ==
  /\ http[s][k].pc = "arrived" /\ http[s][k].req.pid = emptyUUID
  /\ Inserted(s, k, I, n) /\ Flows /\ GoesOn /\ agreements' = agreements

LEMMA CreateNegotiationMoves ==
  ASSUME NEW I, Before(I), NEW s \in Roles, NEW k \in Slots, CreateNegotiation(s, k)
  PROVE  Quiet \/ \E n : Created(s, k, I, n)
  <1> DEFINE h == http[s][k]
  <1>1. /\ h.pc = "arrived" /\ h.req \in RequestsOver(s, I) /\ h.req.pid = emptyUUID
        /\ UNCHANGED <<agreements, queue, control, poll>> /\ LockOver(I) /\ h.pc # "idle"
    BY CreateEffect DEF Before
  <1>2. CASE Refuse(s, k) /\ UNCHANGED <<table, uuid>>
    BY <1>1, <1>2, RefuseQuiet
  <1>3. ASSUME NEW n, Inserted(s, k, I, n)
        PROVE  Created(s, k, I, n)
    <2> DEFINE x == [pc |-> "lock", req |-> h.req, live |-> h.live, route |-> s, pid |-> uuid]
    <2>1. h.live \in BOOLEAN
      BY <1>1, SlotShapes DEF LockOver
    <2>2. SlotBecomes(s, k, x) /\ worker' = worker /\ uuid \in I
      BY <1>3 DEF Inserted
    <2>3. x \in HandlersOver(s, I) /\ x.pc = "lock" /\ x.req = h.req
      BY <1>1, <2>1, <2>2 DEF HandlersOver, Roles
    <2> HIDE DEF x
    <2>4. SlotsKept
      BY <1>1, <2>2, <2>3, SlotGoesTo
    <2>5. Flows
      BY <1>1, <2>2, <2>4, NothingNew, WorkersSame, ControlsSame, QueuesSame
    <2>6. GoesOn
      <3>1. http'[s][k] = x /\ \A y \in Roles, z \in Slots : y # s \/ z # k => http'[y][z] = http[y][z]
        BY <1>1, <2>2, <2>3, SlotWritten DEF LockOver
      <3> QED
        BY <2>2, <2>3, <3>1 DEF GoesOn, WorkerGoesOn, SlotGoesOn
    <2> QED
      BY <1>1, <1>3, <2>5, <2>6 DEF Created
  <1> QED
    BY <1>1, <1>2, <1>3, CreateEffect

\* A handler locks a row and takes a copy of it.
Locked(s, k, i) ==
  /\ Flows /\ SameRows /\ agreements' = agreements /\ uuid' = uuid
  /\ i \in DOMAIN table[s] /\ Free(s, i)
  /\ http'[s][k].neg.agreement = table[s][i].agreement
  /\ \A x \in Roles, y \in Slots : x # s \/ y # k => SlotGoesOn(x, y)
  /\ \A x \in Roles : WorkerGoesOn(x)

LEMMA HandlerLockMoves ==
  ASSUME NEW I, Before(I), NEW s \in Roles, NEW k \in Slots, HandlerLock(s, k)
  PROVE  \E i : Locked(s, k, i)
  <1> DEFINE h == http[s][k]
  <1>1. LockOver(I) /\ UNCHANGED <<agreements, queue, worker, control, uuid>>
    BY DEF HandlerLock, Before
  <1>2. PICK i \in Wanted(s, k) :
          /\ Free(s, i) /\ SetLock(s, i, k)
          /\ http' = [http EXCEPT ![s][k] = [pc |-> "locked", req |-> h.req, live |-> h.live,
                                             neg |-> FromModel(table[s][i], i)]]
    BY DEF HandlerLock
  <1>3. i \in DOMAIN table[s] /\ h.pc = "lock" /\ k \in Locks
    BY <1>2 DEF Wanted, Lookup, Locks
  <1>4. h.live \in BOOLEAN /\ h.req \in RequestsOver(s, I) /\ FromModel(table[s][i], i) \in CopiesOver(s, I)
    BY <1>1, <1>3, SlotShapes, RowShapes DEF LockOver
  <1> DEFINE x == [pc |-> "locked", req |-> h.req, live |-> h.live, neg |-> FromModel(table[s][i], i)]
  <1>5. /\ x \in HandlersOver(s, I) /\ x.pc = "locked" /\ x.req = h.req
        /\ x.neg.agreement = table[s][i].agreement
    BY <1>4 DEF HandlersOver, FromModel
  <1>6. SlotBecomes(s, k, x)
    BY <1>2 DEF SlotBecomes
  <1> HIDE DEF x
  <1>7. SlotsKept
    BY <1>1, <1>3, <1>5, <1>6, SlotGoesTo
  <1>8. Flows
    BY <1>1, <1>7, NothingNew, WorkersSame, ControlsSame, QueuesSame
  <1>9. SameRows
    BY <1>1, <1>2, <1>3, RowsLocked DEF LockOver
  <1>10. http'[s][k] = x /\ \A y \in Roles, z \in Slots : y # s \/ z # k => http'[y][z] = http[y][z]
    BY <1>1, <1>5, <1>6, SlotWritten DEF LockOver
  <1>11. /\ \A y \in Roles, z \in Slots : y # s \/ z # k => SlotGoesOn(y, z)
         /\ \A y \in Roles : WorkerGoesOn(y)
    BY <1>1, <1>10 DEF SlotGoesOn, WorkerGoesOn
  <1> QED
    BY <1>1, <1>2, <1>3, <1>5, <1>8, <1>9, <1>10, <1>11 DEF Locked

\* The worker locks the row of its entry and takes a copy of it.
Acquired(s, i) ==
  /\ Flows /\ SameRows /\ agreements' = agreements /\ uuid' = uuid
  /\ worker[s].pc = "acquire" /\ i \in EntryRows(s, worker[s].op.entry) /\ Free(s, i)
  /\ worker'[s].neg.agreement = table[s][i].agreement
  /\ worker'[s].op.entry = worker[s].op.entry
  /\ OwnPID(s, worker'[s].neg) = worker[s].op.entry.entityID
  /\ \A x \in Roles : /\ x # s => WorkerGoesOn(x)
                      /\ \A y \in Slots : SlotGoesOn(x, y)

LEMMA AcquireMoves ==
  ASSUME NEW I, Before(I), NEW s \in Roles, Acquire(s)
  PROVE  \E i : Acquired(s, i)
  <1> DEFINE op == worker[s].op
  <1>1. /\ LockOver(I) /\ UNCHANGED <<agreements, queue, http, control, uuid>>
        /\ worker[s].pc = "acquire"
    BY DEF Acquire, Before
  <1>2. PICK i \in EntryRows(s, op.entry) :
          /\ CanUpdate(s, i, op.entry) /\ SetLock(s, i, "worker")
          /\ worker' = [worker EXCEPT ![s] =
               [pc |-> "send", op |-> op,
                neg |-> SetState(FromModel(table[s][i], i), op.entry.target)]]
    BY DEF Acquire
  <1>3. op \in OperationsOver(s, I) /\ op.entry.target \in States
    BY <1>1, WorkerIsUp DEF OperationsOver, EntriesOver
  <1>4. i \in DOMAIN table[s] /\ Free(s, i) /\ "worker" \in Locks
    BY <1>2 DEF EntryRows, Lookup, CanUpdate, Locks
  <1>5. FromModel(table[s][i], i) \in CopiesOver(s, I)
    BY <1>1, <1>4, RowShapes DEF LockOver
  <1> DEFINE neg == SetState(FromModel(table[s][i], i), op.entry.target)
             n == [pc |-> "send", op |-> op, neg |-> neg]
  <1>6. neg \in CopiesOver(s, I)
    BY <1>3, <1>5 DEF SetState, CopiesOver
  <1>7. neg.agreement = table[s][i].agreement /\ OwnPID(s, neg) = op.entry.entityID
    <2>1. neg.ppid = table[s][i].ppid /\ neg.cpid = table[s][i].cpid
      BY <1>5 DEF SetState, FromModel
    <2>2. OwnPID(s, table[s][i]) = op.entry.entityID
      BY DEF EntryRows, Lookup, Matches, OwnPID, Roles
    <2> QED
      BY <1>5, <2>1, <2>2 DEF SetState, FromModel, OwnPID
  <1> HIDE DEF neg
  <1>8. n \in WorkersOver(s, I) /\ n.op = op /\ n.neg = neg /\ n.pc # "answered"
    BY <1>3, <1>6 DEF WorkersOver
  <1>9. WorkerBecomes(s, n)
    BY <1>2 DEF WorkerBecomes, neg
  <1> HIDE DEF n
  <1>10. worker'[s] = n /\ \A x \in Roles : x # s => worker'[x] = worker[x]
    BY <1>1, <1>8, <1>9, WorkerWritten DEF LockOver
  <1>11. \A x \in Roles : WorkerKept(x)
    BY <1>1, <1>8, <1>9, WorkerGoesTo
  <1>12. Flows
    BY <1>1, <1>11, NothingNew, SlotsSame, ControlsSame, QueuesSame
  <1>13. SameRows
    BY <1>1, <1>2, <1>4, RowsLocked DEF LockOver
  <1>14. \A x \in Roles : /\ x # s => WorkerGoesOn(x)
                          /\ \A y \in Slots : SlotGoesOn(x, y)
    BY <1>1, <1>10 DEF WorkerGoesOn, SlotGoesOn
  <1> QED
    BY <1>1, <1>2, <1>4, <1>7, <1>8, <1>10, <1>12, <1>13, <1>14 DEF Acquired

\* A handler stores what it made of a message.
Stores(s, k, I, out) ==
  /\ StoredBy(s, k, I, out) /\ GoesOn /\ agreements' = agreements
  /\ Puts(s, http[s][k].neg.id, out.neg)
  /\ Grows(s, IF out.neg.newAgreement THEN {} ELSE Range(out.entries),
              IF out.neg.newAgreement THEN {Stored(out)} ELSE {})
  /\ Acked(s, {AckOf(out.neg)})
  /\ \A pid : OneOffer(pid) /\ (s = "provider" /\ (\E e \in Range(out.entries) : Offers(e, pid)) =>
                                   NoOffer(pid)) =>
               OneOffer(pid)'

LEMMA HandlerStoreMoves ==
  ASSUME NEW I, Before(I), NEW s \in Roles, NEW k \in Slots, HandlerStore(s, k)
  PROVE  \E out : Stores(s, k, I, out)
  <1> DEFINE h == http[s][k]
             n == h.neg
  <1>1. LockOver(I) /\ uuid # emptyUUID
    BY DEF Before, emptyUUID
  <1>2. PICK out : StoredBy(s, k, I, out)
    BY StoreEffect
  <1>3. /\ h.pc = "locked" /\ UNCHANGED <<agreements, queue, worker, control>>
        /\ Processed(s, I, n, h.req.msg, out)
        /\ out.neg \in CopiesOver(s, I) /\ out.neg.id = n.id
        /\ out.entries \in Seq(EntriesOver(s, I))
        /\ ForwardRow(table[s][n.id], out.neg) /\ Put(s, out.neg)
    BY <1>2 DEF StoredBy
  <1>4. /\ h.live \in BOOLEAN /\ h.req \in RequestsOver(s, I) /\ n \in CopiesOver(s, I)
        /\ n.id \in DOMAIN table[s]
        /\ n.ppid = table[s][n.id].ppid /\ n.cpid = table[s][n.id].cpid
    BY <1>1, <1>3, LockedHandler
  <1>5. KeptPIDs(s, n, out.neg)
    <2>1. PICK r \in CopiesOver(s, I \cup {uuid}) :
            /\ SameButAgreement(r, out.neg)
            /\ IF n.state = "INITIAL"
                 THEN /\ r.cpid = n.cpid
                      /\ r.ppid = IF s = "provider" THEN uuid ELSE n.ppid
                 ELSE KeepsPIDs(n, r)
      BY <1>3 DEF Processed
    <2>2. CASE n.state = "INITIAL"
      BY <1>1, <2>1, <2>2 DEF SameButAgreement, KeptPIDs, OwnPID, Roles
    <2>3. CASE n.state # "INITIAL"
      <3>1. KeepsPIDs(n, out.neg)
        BY <2>1, <2>3 DEF SameButAgreement, KeepsPIDs
      <3> QED
        BY <1>4, <3>1, LearnedKept
    <2> QED
      BY <2>2, <2>3
  <1>6. KeptPIDs(s, table[s][n.id], out.neg)
    BY <1>4, <1>5 DEF KeptPIDs, OwnPID
  <1>7. Puts(s, n.id, out.neg)
    BY <1>1, <1>3, <1>4, <1>6, RowPut DEF LockOver
  <1> DEFINE pc == IF out.neg.newAgreement THEN "stored" ELSE "apply"
             x == [pc |-> pc, req |-> h.req, live |-> h.live, neg |-> out.neg, entries |-> out.entries]
  <1>8. SlotBecomes(s, k, x)
    BY <1>2 DEF StoredBy
  <1>9. pc \in {"stored", "apply"}
    OBVIOUS
  <1> HIDE DEF pc
  <1>10. /\ x \in HandlersOver(s, I) /\ x.pc = pc /\ x.req = h.req
         /\ x.neg = out.neg /\ x.entries = out.entries
    BY <1>3, <1>4, <1>9 DEF HandlersOver
  <1> HIDE DEF x
  <1>11. /\ Grows(s, IF pc = "apply" THEN Range(out.entries) ELSE {},
                     IF pc = "stored" THEN {Stored(x)} ELSE {})
         /\ Acked(s, {AckOf(out.neg)})
    BY <1>1, <1>3, <1>8, <1>9, <1>10, SlotGrows
  <1>12. Stored(x) = Stored(out)
    BY <1>10 DEF Stored
  <1>13. Grows(s, IF out.neg.newAgreement THEN {} ELSE Range(out.entries),
                  IF out.neg.newAgreement THEN {Stored(out)} ELSE {})
    <2>1. CASE out.neg.newAgreement
      BY <1>11, <1>12, <2>1 DEF pc
    <2>2. CASE ~out.neg.newAgreement
      BY <1>11, <2>2 DEF pc
    <2> QED
      BY <2>1, <2>2
  <1>14. GoesOn
    <2>1. http'[s][k] = x /\ \A y \in Roles, z \in Slots : y # s \/ z # k => http'[y][z] = http[y][z]
      BY <1>1, <1>8, <1>10, SlotWritten DEF LockOver
    <2> QED
      BY <1>3, <1>9, <1>10, <2>1 DEF GoesOn, WorkerGoesOn, SlotGoesOn
  <1>15. ASSUME NEW pid, OneOffer(pid),
                s = "provider" /\ (\E e \in Range(out.entries) : Offers(e, pid)) => NoOffer(pid)
         PROVE  OneOffer(pid)'
    <2>1. (\E e \in Range(out.entries) : Offers(e, pid)) => Len(out.entries) = 1
      <3>1. out.entries = <<>> \/ \E e : out.entries = <<e>>
        BY <1>3 DEF Processed, Sent
      <3>2. CASE out.entries = <<>>
        <4>1. Range(out.entries) = {}
          BY <3>2 DEF Range
        <4> QED
          BY <4>1
      <3>3. ASSUME NEW e, out.entries = <<e>>
            PROVE  Len(out.entries) = 1
        BY <3>3
      <3> QED
        BY <3>1, <3>2, <3>3
    <2>2. UNCHANGED <<worker, queue>>
      BY <1>3
    <2> QED
      BY <1>1, <1>8, <1>10, <1>15, <2>1, <2>2, SlotOffersOne
  <1> QED
    BY <1>2, <1>3, <1>7, <1>11, <1>13, <1>14, <1>15 DEF Stores

\* An agreement is stored and the entries that waited for it are queued.
Agrees(s, x) ==
  /\ x \in Storing(s) /\ Grows(s, Range(x.entries), {}) /\ Acked(s, {})
  /\ (s = "provider" => \A e \in Range(x.entries) : e.target # "OFFERED") => OffersStay
  /\ GoesOn /\ SameRows /\ uuid' = uuid
  /\ agreements' = [agreements EXCEPT ![s] = @ \cup {x.neg.agreement}]

LEMMA HandlerPutAgreementMoves ==
  ASSUME NEW I, Before(I), NEW s \in Roles, NEW k \in Slots, HandlerPutAgreement(s, k)
  PROVE  \E x : Agrees(s, x)
  <1> DEFINE h == http[s][k]
  <1>1. /\ LockOver(I) /\ UNCHANGED <<table, queue, worker, control, uuid>> /\ h.pc = "stored"
        /\ agreements' = [agreements EXCEPT ![s] = @ \cup {h.neg.agreement}]
        /\ http' = [http EXCEPT ![s][k].pc = "apply"]
    BY DEF HandlerPutAgreement, Before
  <1>2. h \in [pc: {"stored", "apply"}, live: BOOLEAN, req: RequestsOver(s, I),
               neg: CopiesOver(s, I), entries: Seq(EntriesOver(s, I))]
    BY <1>1, SlotShapes DEF LockOver, HandlersOver, Idle
  <1> DEFINE n == [h EXCEPT !.pc = "apply"]
  <1>3. /\ n \in [pc: {"stored", "apply"}, live: BOOLEAN, req: RequestsOver(s, I),
                  neg: CopiesOver(s, I), entries: Seq(EntriesOver(s, I))]
        /\ n.pc = "apply" /\ n.req = h.req /\ n.entries = h.entries /\ n.neg = h.neg
    BY <1>2
  <1>4. n \in HandlersOver(s, I)
    BY <1>3 DEF HandlersOver
  <1>5. SlotBecomes(s, k, n)
    BY <1>1 DEF SlotBecomes
  <1> HIDE DEF n
  <1>6. Grows(s, Range(h.entries), {}) /\ Acked(s, {AckOf(h.neg)})
    BY <1>1, <1>3, <1>4, <1>5, SlotGrows
  <1>7. Acked(s, {})
    <2>1. AckOf(h.neg) \in Acks(s)
      BY <1>1 DEF Acks
    <2> QED
      BY <1>6, <2>1 DEF Acked
  <1>8. ASSUME s = "provider" => \A e \in Range(h.entries) : e.target # "OFFERED"
        PROVE  OffersStay
    <2>1. ASSUME NEW pid, OneOffer(pid)
          PROVE  OneOffer(pid)'
      <3>1. ~(s = "provider" /\ \E e \in Range(n.entries) : Offers(e, pid))
        BY <1>3, <1>8 DEF Offers
      <3> QED
        BY <1>1, <1>4, <1>5, <2>1, <3>1, SlotOffersOne
    <2> QED
      BY <2>1 DEF OffersStay
  <1>9. GoesOn
    <2>1. http'[s][k] = n /\ \A y \in Roles, z \in Slots : y # s \/ z # k => http'[y][z] = http[y][z]
      BY <1>1, <1>4, <1>5, SlotWritten DEF LockOver
    <2> QED
      BY <1>1, <1>3, <2>1 DEF GoesOn, WorkerGoesOn, SlotGoesOn
  <1>10. Stored(h) \in Storing(s) /\ Stored(h).neg = h.neg /\ Stored(h).entries = h.entries
    BY <1>1 DEF Storing, InStore, Stored
  <1> QED
    BY <1>1, <1>6, <1>9, <1>10, <1>7, <1>8, RowsSame DEF Agrees

LEMMA CallPutAgreementMoves ==
  ASSUME NEW I, Before(I), NEW s \in Roles, CallPutAgreement(s)
  PROVE  \E x : Agrees(s, x)
  <1> DEFINE c == control[s]
  <1>1. /\ LockOver(I) /\ UNCHANGED <<table, worker, http, uuid>> /\ c.pc = "stored"
        /\ agreements' = [agreements EXCEPT ![s] = @ \cup {c.neg.agreement}]
        /\ queue' = [queue EXCEPT ![s] = @ \o Operations(c.entries)]
        /\ control' = [control EXCEPT ![s] = Idle]
    BY DEF CallPutAgreement, Before
  <1>2. c.entries \in Seq(EntriesOver(s, I)) /\ \A x \in Roles : ControlKept(x)
    BY <1>1 DEF LockOver, ControlsShape, ControlsOver, Idle, ControlKept
  <1>3. Grows(s, Range(c.entries), {})
    BY <1>1, <1>2, NewQueued, SlotsSame, WorkersSame
  <1>4. Stored(c) \in Storing(s) /\ Stored(c).neg = c.neg /\ Stored(c).entries = c.entries
    BY <1>1 DEF Storing, AtControl, Stored
  <1>5. Acked(s, {})
    BY <1>1, AcksKeep, SlotsSame, WorkersSame
  <1>6. ASSUME s = "provider" => \A e \in Range(c.entries) : e.target # "OFFERED"
        PROVE  OffersStay
    <2>1. EntryKept("provider")
      BY <1>1, WorkersSame
    <2> HIDE DEF c
    <2> QED
      BY <1>1, <1>2, <1>6, <2>1, OtherQueued
  <1> QED
    BY <1>1, <1>3, <1>4, <1>5, <1>6, RowsSame, ProcessesSame DEF Agrees

\* The worker stores the state of its entry: after the acknowledgement from
\* its copy, or unanswered in a free row.
Completes(s, i, n) ==
  /\ Flows /\ GoesOn /\ Puts(s, i, n) /\ agreements' = agreements /\ uuid' = uuid
  /\ worker'[s] = Idle /\ UNCHANGED <<queue, http>>
  /\ n.state = worker[s].op.entry.target /\ n.state \in validTransitions[table[s][i].state]
  /\ n.agreement = table[s][i].agreement
  /\ n.callback = table[s][i].callback /\ n.self = table[s][i].self
  /\ \A pid : s = "provider" /\ OneOffer(pid) /\ Offers(worker[s].op.entry, pid) => NoOffer(pid)'
  /\ \/ /\ worker[s].pc = "answered" /\ n.agreement = worker[s].neg.agreement
        /\ i = worker[s].neg.id /\ n = ApplyResponse(worker[s].neg, worker[s].ack)
     \/ /\ worker[s].pc = "terminate" /\ i \in EntryRows(s, worker[s].op.entry) /\ Free(s, i)
        /\ n.ppid = table[s][i].ppid /\ n.cpid = table[s][i].cpid

LEMMA OfferDone ==
  ASSUME UNCHANGED <<http, queue>>, worker["provider"].pc # "idle", worker'["provider"] = Idle,
         NEW pid, OneOffer(pid), Offers(worker["provider"].op.entry, pid)
  PROVE  NoOffer(pid)'
  <1>1. WorkerOffers(pid) /\ ~WorkerOffers(pid)'
    BY DEF WorkerOffers, Idle
  <1>2. /\ \A i : QueueOffers(pid, i)' => QueueOffers(pid, i)
        /\ \A k \in Slots : SlotOffers(pid, k)' => SlotOffers(pid, k)
    BY DEF QueueOffers, SlotOffers, Offers
  <1> QED
    BY <1>1, <1>2 DEF OneOffer, NoOffer

LEMMA CommitMoves ==
  ASSUME NEW I, Before(I), NEW s \in Roles, Commit(s)
  PROVE  \E i, n : Completes(s, i, n)
  <1> DEFINE w == worker[s]
             n == ApplyResponse(w.neg, w.ack)
  <1>1. /\ LockOver(I) /\ w.pc \in Busy /\ w.pc = "answered" /\ WorkerBecomes(s, Idle)
        /\ UNCHANGED <<agreements, queue, http, control, uuid>>
    BY CommitEffect DEF Before, Busy, Commit
  <1>2. /\ n \in CopiesOver(s, I) /\ n.id \in DOMAIN table[s] /\ n.id = w.neg.id
        /\ KeepsPIDs(w.neg, n) /\ n.state = w.op.entry.target
        /\ n.agreement = w.neg.agreement /\ n.agreement = table[s][n.id].agreement
        /\ ForwardRow(table[s][n.id], n) /\ Put(s, n)
    BY CommitEffect
  <1>3. n.callback = table[s][n.id].callback /\ n.self = table[s][n.id].self
    <2>1. /\ w.neg = SetState(FromModel(table[s][w.neg.id], w.neg.id), w.op.entry.target)
          /\ w.neg \in CopiesOver(s, I)
      BY <1>1, BusyWorker
    <2>2. w.neg.callback = table[s][w.neg.id].callback /\ w.neg.self = table[s][w.neg.id].self
      BY <2>1 DEF SetState, FromModel
    <2>3. n.callback = w.neg.callback /\ n.self = w.neg.self
      BY <2>1 DEF ApplyResponse, CopiesOver
    <2> QED
      BY <1>2, <2>2, <2>3
  <1>4. n = ApplyResponse(w.neg, w.ack)
    OBVIOUS
  <1> HIDE DEF n
  <1>5. /\ w.neg \in CopiesOver(s, I) /\ w.neg.ppid = table[s][n.id].ppid
        /\ w.neg.cpid = table[s][n.id].cpid
        /\ w.op.entry.target \in validTransitions[table[s][n.id].state]
    BY <1>1, <1>2, BusyWorker
  <1>6. KeptPIDs(s, table[s][n.id], n)
    <2>1. KeptPIDs(s, w.neg, n)
      BY <1>2, <1>5, LearnedKept
    <2> QED
      BY <1>5, <2>1 DEF KeptPIDs, OwnPID
  <1>7. Puts(s, n.id, n)
    BY <1>1, <1>2, <1>6, RowPut DEF LockOver
  <1>8. worker'[s] = Idle /\ \A x \in Roles : x # s => worker'[x] = worker[x]
    BY <1>1, WorkerWritten, IdleWorker DEF LockOver
  <1>9. Flows
    <2>1. \A x \in Roles : WorkerKept(x)
      BY <1>8 DEF WorkerKept, EntryKept, Idle
    <2> QED
      BY <1>1, <2>1, NothingNew, SlotsSame, ControlsSame, QueuesSame
  <1>10. GoesOn
    BY <1>1, <1>8 DEF GoesOn, WorkerGoesOn, SlotGoesOn, Busy, Idle
  <1>11. \A pid : s = "provider" /\ OneOffer(pid) /\ Offers(w.op.entry, pid) => NoOffer(pid)'
    BY <1>1, <1>8, OfferDone
  <1> QED
    BY <1>1, <1>2, <1>3, <1>4, <1>5, <1>7, <1>8, <1>9, <1>10, <1>11 DEF Completes

LEMMA TerminateMoves ==
  ASSUME NEW I, Before(I), NEW s \in Roles, Terminate(s)
  PROVE  \E i, n : Completes(s, i, n)
  <1> DEFINE entry == worker[s].op.entry
  <1>1. /\ LockOver(I) /\ worker[s].pc = "terminate" /\ WorkerBecomes(s, Idle)
        /\ UNCHANGED <<agreements, queue, http, control, uuid>>
    BY TerminateEffect DEF Before, Terminate
  <1>2. PICK i \in EntryRows(s, entry) :
          /\ i \in DOMAIN table[s] /\ Free(s, i) /\ entry.target \in States
          /\ entry.target \in validTransitions[table[s][i].state]
          /\ RowBecomes(s, i, [table[s][i] EXCEPT !.state = entry.target])
    BY TerminateEffect
  <1> DEFINE r == [table[s][i] EXCEPT !.state = entry.target]
  <1>3. table[s][i] \in RowsOver(s, I)
    BY <1>1, <1>2, RowShapes DEF LockOver
  <1>4. /\ r \in RowsOver(s, I) /\ r.state = entry.target /\ r.agreement = table[s][i].agreement
        /\ r.ppid = table[s][i].ppid /\ r.cpid = table[s][i].cpid
        /\ r.callback = table[s][i].callback /\ r.self = table[s][i].self
    BY <1>2, <1>3 DEF RowsOver
  <1>5. RowBecomes(s, i, r)
    BY <1>2
  <1> HIDE DEF r
  <1>6. /\ RowChange(s, i, table[s][i].lock) /\ table'[s][i] = r
        /\ \A x \in Roles : DOMAIN table'[x] = DOMAIN table[x]
    BY <1>1, <1>2, <1>4, <1>5, RowWritten DEF LockOver
  <1>7. KeptPIDs(s, table[s][i], r)
    BY <1>4 DEF KeptPIDs, OwnPID
  <1>8. Puts(s, i, r)
    BY <1>2, <1>6, <1>7 DEF Puts, RowChange, SameColumns
  <1>9. worker'[s] = Idle /\ \A x \in Roles : x # s => worker'[x] = worker[x]
    BY <1>1, WorkerWritten, IdleWorker DEF LockOver
  <1>10. Flows
    <2>1. \A x \in Roles : WorkerKept(x)
      BY <1>9 DEF WorkerKept, EntryKept, Idle
    <2> QED
      BY <1>1, <2>1, NothingNew, SlotsSame, ControlsSame, QueuesSame
  <1>11. GoesOn
    BY <1>1, <1>9 DEF GoesOn, WorkerGoesOn, SlotGoesOn, Busy, Idle
  <1>12. \A pid : s = "provider" /\ OneOffer(pid) /\ Offers(entry, pid) => NoOffer(pid)'
    BY <1>1, <1>9, OfferDone
  <1> QED
    BY <1>1, <1>2, <1>4, <1>8, <1>9, <1>10, <1>11, <1>12 DEF Completes

\* Send draws an agreement only for a negotiation that it modifies.
LEMMA ModifiedIfAgreed ==
  ASSUME NEW s \in Roles, NEW I, NEW n \in CopiesOver(s, I), n.state \in States, NEW fresh, NEW found
  PROVE  LET out == Send(n, fresh, found) IN
         out.neg.modified \/ SameAgreement(n, out.neg)
  <1> DEFINE r == [n EXCEPT !.initial = FALSE]
             out == Send(n, fresh, found)
  <1>1. SameAgreement(n, r) /\ SameAgreement(n, n)
    BY DEF SameAgreement, CopiesOver
  <1>2. LET a == SetAgreement(n, fresh) IN a.modified
    BY DEF SetAgreement, CopiesOver
  <1>3. CASE n.state = "INITIAL"
    <2>1. InitialSend(n, found).neg = n
      BY DEF InitialSend, sendContractRequest, sendContractOffer, SendFails, Sends
    <2> QED
      BY <1>1, <1>3, <2>1 DEF Send
  <1>4. CASE n.state = "REQUESTED" /\ n.initial
    BY <1>1, <1>4 DEF Send, sendContractOffer, Sends
  <1>5. CASE n.state = "REQUESTED" /\ ~n.initial
    BY <1>2, <1>5 DEF Send, sendContractAgreement, Sends
  <1>6. CASE n.state = "OFFERED" /\ n.initial
    BY <1>1, <1>6 DEF Send, sendContractRequest, Sends
  <1>7. CASE n.state = "OFFERED" /\ ~n.initial
    BY <1>1, <1>7 DEF Send, sendContractEvent, Sends
  <1>8. CASE n.state = "ACCEPTED"
    BY <1>2, <1>8 DEF Send, sendContractAgreement, Sends
  <1>9. CASE n.state = "AGREED"
    BY <1>1, <1>9 DEF Send, sendContractVerification, Sends
  <1>10. CASE n.state = "VERIFIED"
    BY <1>1, <1>10 DEF Send, sendContractEvent, Sends
  <1>11. CASE n.state \in {"FINALIZED", "TERMINATED"}
    <2>1. out = SendsNothing(n)
      BY <1>11 DEF Send
    <2> QED
      BY <1>1, <2>1 DEF SendsNothing
  <1> QED
    BY <1>3, <1>4, <1>5, <1>6, <1>7, <1>8, <1>9, <1>10, <1>11 DEF States

\* A control call sends, from what the row says.
Calls(s, i, I, n, out) ==
  /\ Free(s, i) /\ out.neg \in CopiesOver(s, I)
  /\ n.state = table[s][i].state /\ n.agreement = table[s][i].agreement /\ ~n.newAgreement
  /\ n.ppid = table[s][i].ppid /\ n.cpid = table[s][i].cpid
  /\ n.callback = table[s][i].callback /\ n.self = table[s][i].self /\ calls' = calls + 1
  /\ Sent(s, n, uuid, out) /\ SameButAgreement(n, out.neg)
  /\ Puts(s, i, out.neg) /\ GoesOn /\ agreements' = agreements
  /\ Grows(s, IF out.neg.newAgreement THEN {} ELSE Range(out.entries),
              IF out.neg.newAgreement THEN {Stored(out)} ELSE {})

LEMMA CallMoves ==
  ASSUME NEW I, Before(I), NEW s \in Roles, NEW i \in DOMAIN table[s], NEW c \in ControlCalls,
         NEW auto \in CallAuto, Call(s, i, c, auto)
  PROVE  \E n, out : Calls(s, i, I, n, out)
  <1> DEFINE n == Called(s, i, c, auto)
             out == CallResult(s, i, c, auto)
  <1>1. /\ LockOver(I) /\ UNCHANGED <<agreements, worker, http>> /\ calls' = calls + 1
        /\ IF out.neg.modified THEN Put(s, out.neg) ELSE table' = table
        /\ IF out.neg.newAgreement
             THEN /\ control' = [control EXCEPT ![s] =
                       [pc |-> "stored", neg |-> out.neg, entries |-> out.entries]]
                  /\ queue' = queue
             ELSE /\ queue' = [queue EXCEPT ![s] = @ \o Operations(out.entries)]
                  /\ control' = control
    BY DEF Call, CallBegins, Before, CallResult
  <1>2. /\ Free(s, i) /\ out.neg \in CopiesOver(s, I) /\ out.entries \in Seq(EntriesOver(s, I))
        /\ SameButAgreement(n, out.neg) /\ Sent(s, n, uuid, out)
        /\ out.neg.id = i /\ ForwardRow(table[s][i], out.neg)
    BY CallEffect
  <1>3. /\ n \in CopiesOver(s, I) /\ n.state = table[s][i].state
        /\ n.ppid = table[s][i].ppid /\ n.cpid = table[s][i].cpid
        /\ n.agreement = table[s][i].agreement /\ ~n.newAgreement
        /\ n.callback = table[s][i].callback /\ n.self = table[s][i].self
    <2>1. n.callback = table[s][i].callback /\ n.self = table[s][i].self
      BY DEF Called, FromModel
    <2> QED
      BY <1>1, <2>1, CalledShape, FlagsAssumption DEF LockOver
  <1>4. out.neg.modified \/ SameAgreement(n, out.neg)
    <2>1. n.state \in States
      BY <1>3 DEF CopiesOver
    <2> HIDE DEF n
    <2> QED
      BY <1>3, <2>1, ModifiedIfAgreed DEF CallResult, n
  <1> HIDE DEF n, out
  <1>5. KeptPIDs(s, table[s][i], out.neg)
    BY <1>2, <1>3 DEF SameButAgreement, KeptPIDs, OwnPID
  <1>6. Puts(s, i, out.neg)
    <2>1. CASE out.neg.modified
      BY <1>1, <1>2, <1>5, <2>1, RowPut DEF LockOver
    <2>2. CASE ~out.neg.modified
      <3>1. SameColumns(out.neg, table[s][i]) /\ table' = table
        BY <1>1, <1>2, <1>3, <1>4, <2>2 DEF SameColumns, SameButAgreement, SameAgreement
      <3> QED
        BY <1>5, <3>1 DEF Puts
    <2> QED
      BY <2>1, <2>2
  <1>7. Grows(s, IF out.neg.newAgreement THEN {} ELSE Range(out.entries),
                 IF out.neg.newAgreement THEN {Stored(out)} ELSE {})
    <2>1. CASE out.neg.newAgreement
      <3> DEFINE x == [pc |-> "stored", neg |-> out.neg, entries |-> out.entries]
      <3>1. x.pc = "stored" /\ Stored(x) = Stored(out)
        BY DEF Stored
      <3>2. control' = [control EXCEPT ![s] = x] /\ queue' = queue
        BY <1>1, <2>1
      <3> HIDE DEF x
      <3>3. control'[s] = x /\ \A y \in Roles : y # s => control'[y] = control[y]
        BY <1>1, <3>2 DEF LockOver, ControlsShape
      <3>4. AtControl(s)' \subseteq {Stored(out)}
        BY <3>1, <3>3 DEF AtControl
      <3>5. ASSUME NEW y \in Roles
            PROVE  /\ Held(y)' \subseteq Held(y) /\ Posted(y)' \subseteq Posted(y)
                   /\ Storing(y)' \subseteq Storing(y) \cup (IF y = s THEN {Stored(out)} ELSE {})
        <4>1. /\ ToApply(y)' \subseteq ToApply(y) /\ InStore(y)' \subseteq InStore(y)
              /\ Posted(y)' \subseteq Posted(y) /\ InQueue(y)' \subseteq InQueue(y)
              /\ AtWorker(y)' \subseteq AtWorker(y)
          BY <1>1, <3>2, SlotsKeep, SlotsSame, QueueKeeps, QueuesSame, WorkerKeeps, WorkersSame
        <4>2. y # s => AtControl(y)' \subseteq AtControl(y)
          BY <3>3 DEF AtControl
        <4> QED
          BY <3>4, <4>1, <4>2 DEF Held, Storing
      <3>6. Grows(s, {}, {Stored(out)})
        BY <3>5 DEF Grows
      <3> QED
        BY <2>1, <3>6
    <2>2. CASE ~out.neg.newAgreement
      <3>1. queue' = [queue EXCEPT ![s] = @ \o Operations(out.entries)] /\ control' = control
        BY <1>1, <2>2
      <3>2. Grows(s, Range(out.entries), {})
        BY <1>1, <1>2, <3>1, NewQueued, SlotsSame, WorkersSame, ControlsSame
      <3> QED
        BY <2>2, <3>2
    <2> QED
      BY <2>1, <2>2
  <1>8. Calls(s, i, I, n, out)
    BY <1>1, <1>2, <1>3, <1>6, <1>7, ProcessesSame DEF Calls
  <1> QED
    BY <1>8

\* An operator asks for a termination, from what the row says.
Asks(s, i, e) ==
  /\ i \in DOMAIN table[s] /\ EntryOf(s, FromModel(table[s][i], i), e)
  /\ e.target = "TERMINATED" /\ e.msg.type = "termination" /\ calls' = calls + 1
  /\ Grows(s, {e}, {}) /\ GoesOn /\ SameRows /\ agreements' = agreements /\ uuid' = uuid

LEMMA ContractTerminateMoves ==
  ASSUME NEW I, Before(I), NEW s \in Roles, NEW i \in DOMAIN table[s], ContractTerminate(s, i)
  PROVE  \E e : Asks(s, i, e)
  <1> DEFINE e == TerminationEntry(FromModel(table[s][i], i))
  <1>1. /\ LockOver(I) /\ UNCHANGED <<table, agreements, worker, http, control, uuid>>
        /\ queue' = [queue EXCEPT ![s] = @ \o Operations(<<e>>)] /\ calls' = calls + 1
    BY DEF ContractTerminate, Before, store
  <1>2. FromModel(table[s][i], i) \in CopiesOver(s, I) /\ emptyUUID \in I
    BY <1>1, RowShapes DEF LockOver
  <1>3. /\ <<e>> \in Seq(EntriesOver(s, I)) /\ EntryOf(s, FromModel(table[s][i], i), e)
        /\ e.target = "TERMINATED" /\ e.msg.type = "termination"
    BY <1>2, TerminationMade
  <1> HIDE DEF e
  <1>4. Range(<<e>>) = {e}
    BY DEF Range
  <1>5. Grows(s, Range(<<e>>), {})
    BY <1>1, <1>3, NewQueued, SlotsSame, WorkersSame, ControlsSame
  <1>6. Grows(s, {e}, {})
    BY <1>4, <1>5
  <1> QED
    BY <1>1, <1>3, <1>6, RowsSame, ProcessesSame DEF Asks

\* The first control call.
Begins(s, I, n, r, entries) ==
  /\ FirstOf(s, n) /\ FirstAddress(s, n) /\ SameColumns(n, r) /\ n \in CopiesOver(s, I)
  /\ uuid = 1 /\ uuid' = 2
  /\ \/ entries = <<>>
     \/ \E e : entries = <<e>> /\ EntryOf(s, n, e) /\ SentAs(n, e) /\ e.target \in {"REQUESTED", "OFFERED", "TERMINATED"}
  /\ table' = [table EXCEPT ![s] = <<r>>] /\ \A x \in Roles : DOMAIN table[x] = {}
  /\ queue' = [queue EXCEPT ![s] = Operations(entries)] /\ UNCHANGED <<worker, http>>
  /\ Grows(s, Range(entries), {}) /\ GoesOn /\ agreements' = agreements
  /\ Acked(s, {}) /\ \A pid : NoOffer(pid) => OneOffer(pid)'

LEMMA BeginMoves ==
  ASSUME NEW I, LockInv, Before(I), Begin
  PROVE  \E s \in Roles : \E n, r, entries : Begins(s, I, n, r, entries)
  <1>1. PICK s \in Roles, o \in {"free", "leaked"} : \E n, entries : Begun(s, I, n, o, entries)
    BY BeginEffect
  <1>2. PICK n, entries : Begun(s, I, n, o, entries)
    BY <1>1
  <1>3. /\ n \in CopiesOver(s, I) /\ FirstOf(s, n) /\ FirstAddress(s, n) /\ uuid = 1 /\ uuid' = 2
        /\ entries \in Seq(EntriesOver(s, I))
        /\ table' = [table EXCEPT ![s] = <<[ToModel(n) EXCEPT !.lock = o]>>]
        /\ queue' = [queue EXCEPT ![s] = Operations(entries)]
        /\ UNCHANGED <<agreements, worker, http, control>> /\ LockOver(I)
    BY <1>2 DEF Begun, Before
  <1>4. \/ entries = <<>>
        \/ \E e : entries = <<e>> /\ EntryOf(s, n, e) /\ SentAs(n, e)
                  /\ e.target \in {"REQUESTED", "OFFERED", "TERMINATED"}
    BY <1>2 DEF Begun, validTransitions
  <1> DEFINE r == [ToModel(n) EXCEPT !.lock = o]
  <1>5. SameColumns(n, r)
    BY DEF SameColumns, ToModel
  <1>6. table' = [table EXCEPT ![s] = <<r>>]
    BY <1>3
  <1> HIDE DEF r
  <1>7. \A x \in Roles : DOMAIN table[x] = {}
    BY <1>3, NothingYet
  <1>8. queue'[s] = Operations(entries) /\ \A x \in Roles : x # s => queue'[x] = queue[x]
    BY <1>3 DEF LockOver, QueuesShape
  <1>9. ASSUME NEW x \in Roles
        PROVE  /\ Held(x)' \subseteq Held(x) \cup (IF x = s THEN Range(entries) ELSE {})
               /\ Storing(x)' \subseteq Storing(x) /\ Posted(x)' \subseteq Posted(x)
    <2>1. /\ ToApply(x)' \subseteq ToApply(x) /\ InStore(x)' \subseteq InStore(x)
          /\ Posted(x)' \subseteq Posted(x)
          /\ AtWorker(x)' \subseteq AtWorker(x) /\ AtControl(x)' \subseteq AtControl(x)
      BY <1>3, SlotsKeep, SlotsSame, WorkerKeeps, WorkersSame, ControlKeeps, ControlsSame
    <2>2. InQueue(x)' \subseteq InQueue(x) \cup (IF x = s THEN Range(entries) ELSE {})
      <3>1. x # s => InQueue(x)' \subseteq InQueue(x)
        BY <1>8 DEF InQueue
      <3>2. InQueue(s)' \subseteq Range(entries)
        BY <1>8 DEF InQueue, Operations, Range
      <3> QED
        BY <3>1, <3>2
    <2> QED
      BY <2>1, <2>2 DEF Held, Storing
  <1>10. Grows(s, Range(entries), {})
    BY <1>9 DEF Grows
  <1>11. Acked(s, {})
    BY <1>3, AcksKeep, SlotsSame, WorkersSame
  <1>12. ASSUME NEW pid, NoOffer(pid)
         PROVE  OneOffer(pid)'
    <2>1. \A i : QueueOffers(pid, i)' => i = 1
      <3>1. ASSUME NEW i, QueueOffers(pid, i)'
            PROVE  i = 1
        <4>1. CASE s = "provider"
          <5>1. i \in DOMAIN entries
            BY <1>8, <3>1, <4>1 DEF QueueOffers, Operations
          <5>2. entries = <<>> \/ \E e : entries = <<e>>
            BY <1>4
          <5> QED
            BY <5>1, <5>2
        <4>2. CASE s # "provider"
          BY <1>8, <1>12, <3>1, <4>2 DEF QueueOffers, NoOffer, Offers, Roles
        <4> QED
          BY <4>1, <4>2
      <3> QED
        BY <3>1
    <2>2. ~WorkerOffers(pid)' /\ \A k \in Slots : ~SlotOffers(pid, k)'
      BY <1>3, <1>12 DEF NoOffer, WorkerOffers, SlotOffers, Offers
    <2> QED
      BY <2>1, <2>2 DEF OneOffer
  <1>13. Begins(s, I, n, r, entries)
    BY <1>3, <1>4, <1>5, <1>6, <1>7, <1>10, <1>11, <1>12, ProcessesSame DEF Begins
  <1> QED
    BY <1>13

-----------------------------------------------------------------------------
(* The kinds of steps                                                      *)

\* What a step of connector s does that is not quiet.
Moves(s, I) ==
  \/ \E k \in Slots : \E n : Created(s, k, I, n)
  \/ \E k \in Slots : \E i : Locked(s, k, i)
  \/ \E i : Acquired(s, i)
  \/ \E k \in Slots : \E out : Stores(s, k, I, out)
  \/ \E x : Agrees(s, x)
  \/ \E i, n : Completes(s, i, n)
  \/ \E i \in DOMAIN table[s] : \E n, out : Calls(s, i, I, n, out)
  \/ \E i, e : Asks(s, i, e)
  \/ \E n, r, entries : Begins(s, I, n, r, entries)

LEMMA StepMoves ==
  ASSUME NEW I, LockInv, Before(I), Next
  PROVE  Quiet \/ \E s \in Roles : Moves(s, I)
  <1>1. CASE Begin
    BY <1>1, BeginMoves DEF Moves
  <1>2. ASSUME NEW s \in Roles, Reconcile(s)
        PROVE  Quiet \/ Moves(s, I)
    <2>1. CASE \E i \in DOMAIN queue[s] : Take(s, i)
      BY <2>1, TakeQuiet
    <2>2. CASE Acquire(s)
      BY <2>2, AcquireMoves DEF Moves
    <2>3. CASE AcquireFails(s)
      BY <2>3, AcquireFailsQuiet
    <2>4. CASE \E k \in Slots : SendHTTPRequest(s, k)
      BY <2>4, SendHTTPRequestQuiet
    <2>5. CASE SendFailsEarly(s)
      BY <2>5, SendFailsEarlyQuiet
    <2>6. CASE Commit(s)
      BY <2>6, CommitMoves DEF Moves
    <2>7. CASE Requeue(s)
      BY <2>7, RequeueQuiet
    <2>8. CASE GiveUp(s)
      BY <2>8, GiveUpQuiet
    <2>9. CASE Terminate(s)
      BY <2>9, TerminateMoves DEF Moves
    <2>10. CASE PanicHolding(s) \/ PanicTerminating(s)
      BY <2>10, CrashQuiet
    <2> QED
      BY <1>2, <2>1, <2>2, <2>3, <2>4, <2>5, <2>6, <2>7, <2>8, <2>9, <2>10 DEF Reconcile
  <1>3. ASSUME NEW s \in Roles, CallPutAgreement(s)
        PROVE  Moves(s, I)
    BY <1>3, CallPutAgreementMoves DEF Moves
  <1>4. ASSUME NEW s \in Roles, Poll(s)
        PROVE  Quiet
    BY <1>4, StutterQuiet DEF Poll, store
  <1>5. ASSUME NEW s \in Roles, NEW k \in Slots, Handle(s, k)
        PROVE  Quiet \/ Moves(s, I)
    <2>1. CASE RouteRequest(s, k)
      BY <2>1, RouteRequestQuiet
    <2>2. CASE CreateNegotiation(s, k)
      BY <2>2, CreateNegotiationMoves DEF Moves
    <2>3. CASE HandlerLock(s, k)
      BY <2>3, HandlerLockMoves DEF Moves
    <2>4. CASE HandlerNotFound(s, k) \/ HandlerReject(s, k)
      BY <2>4, RefusingQuiet
    <2>5. CASE HandlerStore(s, k)
      BY <2>5, HandlerStoreMoves DEF Moves
    <2>6. CASE HandlerPutAgreement(s, k)
      BY <2>6, HandlerPutAgreementMoves DEF Moves
    <2>7. CASE HandlerApply(s, k)
      BY <2>7, HandlerApplyQuiet
    <2> QED
      BY <1>5, <2>1, <2>2, <2>3, <2>4, <2>5, <2>6, <2>7 DEF Handle
  <1>6. ASSUME NEW s \in Roles, Operate(s)
        PROVE  Quiet \/ Moves(s, I)
    <2>1. PICK i \in DOMAIN table[s] :
            \/ \E c \in ControlCalls :
                 CallRefused(s, i, c) \/ \E auto \in CallAuto : Call(s, i, c, auto)
            \/ ContractTerminate(s, i)
      BY <1>6 DEF Operate
    <2>2. CASE \E c \in ControlCalls : CallRefused(s, i, c)
      BY <2>2, CallRefusedQuiet
    <2>3. CASE \E c \in ControlCalls, auto \in CallAuto : Call(s, i, c, auto)
      BY <2>3, CallMoves DEF Moves
    <2>4. CASE ContractTerminate(s, i)
      BY <2>4, ContractTerminateMoves DEF Moves
    <2> QED
      BY <2>1, <2>2, <2>3, <2>4
  <1>7. ASSUME NEW s \in Roles, ConnectionLost(s) \/ Crash(s) \/ Restart(s)
        PROVE  Quiet
    BY <1>7, ConnectionLostQuiet, CrashQuiet, StutterQuiet DEF Restart, store
  <1>8. ASSUME NEW s \in Roles, NEW k \in Slots, HandlerNotifyFails(s, k) \/ HandlerCancelled(s, k)
        PROVE  Quiet
    BY <1>8, RefusingQuiet
  <1> QED
    BY <1>1, <1>2, <1>3, <1>4, <1>5, <1>6, <1>7, <1>8 DEF Next, Progress

-----------------------------------------------------------------------------
(* One negotiation                                                         *)

\* The half of connector o began the negotiation, and everything after knows it
\* from there.
Knows(o, ppid, cpid) == IF o = "consumer" THEN cpid = 1 ELSE ppid # emptyUUID

\* An entry or a request of connector s is about a negotiation that connector
\* o began, and its path names the PID of the other half.
KnownEntry(o, s, e) ==
  /\ Knows(o, e.msg.ppid, e.msg.cpid)
  /\ e.pid = IF s = "consumer" THEN e.msg.ppid ELSE e.msg.cpid

RowsKnow(o) == \A s \in Roles : \A i \in DOMAIN table[s] : Knows(o, table[s][i].ppid, table[s][i].cpid)

FlowsKnow(o) ==
  \A s \in Roles :
    /\ \A e \in Held(s) : KnownEntry(o, s, e)
    /\ \A x \in Storing(s) : \A e \in Range(x.entries) : KnownEntry(o, s, e)
    /\ \A q \in Posted(s) : KnownEntry(o, s, q)

StartedBy(o) == DOMAIN table["provider"] \subseteq {1} /\ RowsKnow(o) /\ FlowsKnow(o)

OneInv ==
  /\ \E o \in Roles : StartedBy(o)
  /\ uuid = 1 => \A o \in Roles : StartedBy(o)

LEMMA FlowsStillKnow ==
  ASSUME NEW o \in Roles, FlowsKnow(o), NEW s \in Roles, NEW H, NEW S, Grows(s, H, S),
         \A e \in H : KnownEntry(o, s, e),
         \A x \in S : \A e \in Range(x.entries) : KnownEntry(o, s, e)
  PROVE  FlowsKnow(o)'
  <1>1. ASSUME NEW x \in Roles
        PROVE  /\ \A e \in Held(x)' : KnownEntry(o, x, e)
               /\ \A y \in Storing(x)' : \A e \in Range(y.entries) : KnownEntry(o, x, e)
    BY DEF FlowsKnow, Grows
  <1>2. ASSUME NEW x \in Roles, NEW q \in Posted(x)'
        PROVE  KnownEntry(o, x, q)
    <2>1. CASE q \in Posted(x)
      BY <2>1 DEF FlowsKnow
    <2>2. CASE \E e \in Held(x) : q = RequestOf(e)
      BY <2>2 DEF FlowsKnow, RequestOf, KnownEntry
    <2> QED
      BY <1>2, <2>1, <2>2 DEF Grows
  <1> QED
    BY <1>1, <1>2 DEF FlowsKnow, KnownEntry

\* No PID is forgotten.
LEMMA StillKnown ==
  ASSUME NEW o \in Roles, NEW s \in Roles, NEW r, NEW r1, SameColumns(r, r1) \/ KeptPIDs(s, r, r1),
         Knows(o, r.ppid, r.cpid)
  PROVE  Knows(o, r1.ppid, r1.cpid)
  BY DEF SameColumns, KeptPIDs, Knows, emptyUUID

\* The entry of a negotiation that is known.
LEMMA EntryKnown ==
  ASSUME NEW o \in Roles, NEW s \in Roles, NEW n, n.role = s, Knows(o, n.ppid, n.cpid),
         NEW e, EntryOf(s, n, e)
  PROVE  KnownEntry(o, s, e)
  BY DEF KnownEntry, EntryOf, RemotePID

LEMMA RowsSameKnow ==
  ASSUME NEW o \in Roles, RowsKnow(o), SameRows
  PROVE  RowsKnow(o)' /\ DOMAIN table'["provider"] = DOMAIN table["provider"]
  BY StillKnown DEF RowsKnow, SameRows, Roles

LEMMA RowsPutKnow ==
  ASSUME NEW o \in Roles, RowsKnow(o), NEW s \in Roles, NEW i, NEW n, Puts(s, i, n)
  PROVE  /\ RowsKnow(o)' /\ DOMAIN table'["provider"] = DOMAIN table["provider"]
         /\ Knows(o, n.ppid, n.cpid)
  <1>1. Knows(o, n.ppid, n.cpid)
    BY StillKnown DEF RowsKnow, Puts
  <1>2. Knows(o, table'[s][i].ppid, table'[s][i].cpid)
    BY <1>1, StillKnown DEF Puts
  <1> QED
    BY <1>1, <1>2 DEF RowsKnow, Puts, Roles

LEMMA SentKnown ==
  ASSUME NEW o \in Roles, NEW s \in Roles, NEW n, NEW fresh, NEW out, Sent(s, n, fresh, out),
         out.neg.role = s, Knows(o, out.neg.ppid, out.neg.cpid)
  PROVE  \A e \in Range(out.entries) : KnownEntry(o, s, e)
  <1>1. CASE out.entries = <<>>
    BY <1>1 DEF Range
  <1>2. ASSUME NEW e, out.entries = <<e>>, EntryOf(s, out.neg, e)
        PROVE  \A d \in Range(out.entries) : KnownEntry(o, s, d)
    <2>1. Range(out.entries) = {e}
      BY <1>2 DEF Range
    <2> QED
      BY <1>2, <2>1, EntryKnown
  <1> QED
    BY <1>1, <1>2 DEF Sent

LEMMA RowCreated ==
  ASSUME NEW I, StoreShape(I), NEW s \in Roles, NEW n, table' = [table EXCEPT ![s] = Append(@, ToModel(n))]
  PROVE  /\ \A x \in Roles : x # s => table'[x] = table[x]
         /\ Len(table[s]) \in Nat /\ DOMAIN table[s] = 1..Len(table[s])
         /\ DOMAIN table'[s] = 1..(Len(table[s]) + 1)
         /\ \A i \in DOMAIN table[s] : table'[s][i] = table[s][i]
         /\ table'[s][Len(table[s]) + 1] = ToModel(n)
  <1>1. table[s] \in Seq(RowsOver(s, I)) /\ DOMAIN table = Roles
    BY DEF StoreShape
  <1>2. Len(table[s]) \in Nat /\ DOMAIN table[s] = 1..Len(table[s])
    BY <1>1, LenProperties
  <1>3. table'[s] = Append(table[s], ToModel(n)) /\ \A x \in Roles : x # s => table'[x] = table[x]
    BY <1>1
  <1> QED
    BY <1>1, <1>2, <1>3

\* A negotiation is made of a message only at the peer of the connector that
\* began it, and only once there: the UNIQUE columns refuse the second.
LEMMA CreatedKnown ==
  ASSUME NEW I, Before(I), NEW o \in Roles, StartedBy(o), NEW s \in Roles, NEW k \in Slots,
         NEW n, Created(s, k, I, n)
  PROVE  StartedBy(o)'
  <1> DEFINE h == http[s][k]
             m == h.req.msg
             p == Peer(s)
             l == Len(table[s])
  <1>1. /\ h.pc = "arrived" /\ h.req.pid = emptyUUID /\ ~Conflict(s, n) /\ n \in CopiesOver(s, I)
        /\ table' = [table EXCEPT ![s] = Append(@, ToModel(n))] /\ uuid \in Nat \ {0}
        /\ StoreShape(I)
    BY DEF Created, Inserted, Before, LockOver
  <1>2. p \in Roles /\ Peer(p) = s /\ s = IF p = "consumer" THEN "provider" ELSE "consumer"
    BY DEF Peer, Roles
  <1>3. h.req \in Posted(p)
    BY <1>1, <1>2 DEF Posted
  <1>4. /\ Knows(o, m.ppid, m.cpid)
        /\ emptyUUID = IF p = "consumer" THEN m.ppid ELSE m.cpid
    BY <1>1, <1>2, <1>3 DEF StartedBy, FlowsKnow, KnownEntry
  <1>5. \/ s = "provider" /\ n.ppid = uuid /\ n.cpid = m.cpid /\ n.id = 0
        \/ s = "consumer" /\ n.ppid = m.ppid /\ n.cpid = uuid /\ n.id = 0
    BY DEF Created, Inserted, NegotiationOfRequest, NegotiationOfOffer, New
  <1>6. s # o
    BY <1>2, <1>4 DEF Knows, emptyUUID
  <1>7. Knows(o, n.ppid, n.cpid)
    BY <1>2, <1>4, <1>5, <1>6 DEF Knows, Roles
  <1>8. /\ \A x \in Roles : x # s => table'[x] = table[x]
        /\ l \in Nat /\ DOMAIN table[s] = 1..l /\ DOMAIN table'[s] = 1..(l + 1)
        /\ \A i \in DOMAIN table[s] : table'[s][i] = table[s][i]
        /\ table'[s][l + 1] = ToModel(n)
    BY <1>1, RowCreated
  <1>9. RowsKnow(o)'
    <2>1. Knows(o, table'[s][l + 1].ppid, table'[s][l + 1].cpid)
      BY <1>7, <1>8 DEF ToModel
    <2>2. \A i \in DOMAIN table'[s] : i = l + 1 \/ i \in DOMAIN table[s]
      BY <1>8
    <2> QED
      BY <1>8, <2>1, <2>2 DEF StartedBy, RowsKnow
  <1>10. DOMAIN table'["provider"] \subseteq {1}
    <2>1. CASE s = "consumer"
      BY <1>8, <2>1 DEF StartedBy, Roles
    <2>2. CASE s = "provider"
      <3>1. o = "consumer" /\ n.cpid = 1 /\ n.cpid # emptyUUID /\ n.id = 0
        BY <1>5, <1>6, <1>7, <2>2 DEF Roles, Knows, emptyUUID
      <3>2. 1 \notin DOMAIN table[s]
        <4>1. SUFFICES ASSUME 1 \in DOMAIN table[s]
                       PROVE  Conflict(s, n)
          BY <1>1
        <4>2. table[s][1].cpid = n.cpid
          BY <3>1, <4>1 DEF StartedBy, RowsKnow, Knows
        <4> QED
          BY <3>1, <4>1, <4>2 DEF Conflict
      <3>3. l = 0
        BY <1>8, <3>2
      <3> QED
        BY <1>8, <2>2, <3>3
    <2> QED
      BY <2>1, <2>2 DEF Roles
  <1>11. FlowsKnow(o)'
    BY FlowsStillKnow DEF StartedBy, Created, Flows
  <1> QED
    BY <1>9, <1>10, <1>11 DEF StartedBy

\* The rows and entries of a negotiation go on knowing it.
LEMMA StartedStays ==
  ASSUME NEW I, Before(I), NEW o \in Roles, StartedBy(o),
         Quiet \/ \E s \in Roles : Moves(s, I)
  PROVE  StartedBy(o)' \/ \E s \in Roles : \E n, r, entries : Begins(s, I, n, r, entries)
  <1> USE DEF StartedBy
  <1>1. CASE Quiet
    BY <1>1, RowsSameKnow, FlowsStillKnow DEF Quiet, Flows, Roles
  <1>2. ASSUME NEW s \in Roles, NEW k \in Slots, NEW n, Created(s, k, I, n)
        PROVE  StartedBy(o)'
    BY <1>2, CreatedKnown
  <1>3. ASSUME NEW s \in Roles, NEW k \in Slots, NEW i, Locked(s, k, i)
        PROVE  StartedBy(o)'
    BY <1>3, RowsSameKnow, FlowsStillKnow DEF Locked, Flows
  <1>4. ASSUME NEW s \in Roles, NEW i, Acquired(s, i)
        PROVE  StartedBy(o)'
    BY <1>4, RowsSameKnow, FlowsStillKnow DEF Acquired, Flows
  <1>5. ASSUME NEW s \in Roles, NEW i, NEW n, NEW fresh, NEW out, Puts(s, i, out.neg),
               Sent(s, n, fresh, out), out.neg.role = s,
               Grows(s, IF out.neg.newAgreement THEN {} ELSE Range(out.entries),
                        IF out.neg.newAgreement THEN {Stored(out)} ELSE {})
        PROVE  StartedBy(o)'
    <2>1. /\ RowsKnow(o)' /\ DOMAIN table'["provider"] = DOMAIN table["provider"]
          /\ Knows(o, out.neg.ppid, out.neg.cpid)
      BY <1>5, RowsPutKnow
    <2>2. \A e \in Range(out.entries) : KnownEntry(o, s, e)
      BY <1>5, <2>1, SentKnown
    <2>3. Stored(out).entries = out.entries
      BY DEF Stored
    <2>4. FlowsKnow(o)'
      BY <1>5, <2>2, <2>3, FlowsStillKnow
    <2> QED
      BY <2>1, <2>4
  <1>6. ASSUME NEW s \in Roles, NEW k \in Slots, NEW out, Stores(s, k, I, out)
        PROVE  StartedBy(o)'
    <2>1. \E r : Sent(s, r, uuid, out)
      BY <1>6 DEF Stores, StoredBy, Processed
    <2>2. out.neg.role = s
      BY <1>6 DEF Stores, StoredBy, CopiesOver
    <2> QED
      BY <1>5, <1>6, <2>1, <2>2 DEF Stores
  <1>7. ASSUME NEW s \in Roles, NEW x, Agrees(s, x)
        PROVE  StartedBy(o)'
    <2>1. \A e \in Range(x.entries) : KnownEntry(o, s, e)
      BY <1>7 DEF FlowsKnow, Agrees
    <2>2. FlowsKnow(o)'
      BY <1>7, <2>1, FlowsStillKnow DEF Agrees
    <2> QED
      BY <1>7, <2>2, RowsSameKnow DEF Agrees
  <1>8. ASSUME NEW s \in Roles, NEW i, NEW n, Completes(s, i, n)
        PROVE  StartedBy(o)'
    <2>1. RowsKnow(o)' /\ DOMAIN table'["provider"] = DOMAIN table["provider"]
      BY <1>8, RowsPutKnow DEF Completes
    <2> QED
      BY <1>8, <2>1, FlowsStillKnow DEF Completes, Flows
  <1>9. ASSUME NEW s \in Roles, NEW i \in DOMAIN table[s], NEW n, NEW out, Calls(s, i, I, n, out)
        PROVE  StartedBy(o)'
    <2>1. out.neg.role = s
      BY <1>9 DEF Calls, CopiesOver
    <2> QED
      BY <1>5, <1>9, <2>1 DEF Calls
  <1>10. ASSUME NEW s \in Roles, NEW i, NEW e, Asks(s, i, e)
         PROVE  StartedBy(o)'
    <2> DEFINE n == FromModel(table[s][i], i)
    <2>1. n.role = s /\ Knows(o, n.ppid, n.cpid)
      <3>1. i \in DOMAIN table[s] /\ table[s][i].role = s
        BY <1>10, RowShapes DEF Asks, Before, LockOver
      <3> QED
        BY <3>1 DEF FromModel, RowsKnow
    <2>2. EntryOf(s, n, e)
      BY <1>10 DEF Asks
    <2> HIDE DEF n
    <2>3. KnownEntry(o, s, e)
      BY <2>1, <2>2, EntryKnown
    <2>4. FlowsKnow(o)'
      BY <1>10, <2>3, FlowsStillKnow DEF Asks
    <2> QED
      BY <1>10, <2>4, RowsSameKnow DEF Asks
  <1> QED
    BY <1>1, <1>2, <1>3, <1>4, <1>6, <1>7, <1>8, <1>9, <1>10 DEF Moves

\* The first call is where everything starts.
LEMMA BegunKnown ==
  ASSUME NEW I, Before(I), OneInv, NEW s \in Roles, NEW n, NEW r, NEW entries,
         Begins(s, I, n, r, entries)
  PROVE  StartedBy(s)'
  <1>1. /\ StartedBy(s) /\ uuid = 1 /\ n.role = s /\ FirstOf(s, n) /\ StoreShape(I)
        /\ \A x \in Roles : DOMAIN table[x] = {}
        /\ table' = [table EXCEPT ![s] = <<r>>] /\ SameColumns(n, r)
    BY DEF OneInv, Begins, FirstOf, Before, LockOver
  <1>2. Knows(s, n.ppid, n.cpid)
    BY <1>1 DEF FirstOf, LocalPID, Knows, emptyUUID
  <1>3. table'[s] = <<r>> /\ \A x \in Roles : x # s => table'[x] = table[x]
    BY <1>1 DEF StoreShape
  <1>4. DOMAIN table'[s] = {1} /\ table'[s][1] = r
    BY <1>3
  <1>5. Knows(s, r.ppid, r.cpid)
    BY <1>1, <1>2 DEF SameColumns
  <1>6. RowsKnow(s)'
    BY <1>1, <1>3, <1>4, <1>5 DEF RowsKnow
  <1>7. DOMAIN table'["provider"] \subseteq {1}
    BY <1>1, <1>3, <1>4 DEF Roles
  <1>8. \A e \in Range(entries) : KnownEntry(s, s, e)
    <2>1. CASE entries = <<>>
      BY <2>1 DEF Range
    <2>2. ASSUME NEW e, entries = <<e>>, EntryOf(s, n, e)
          PROVE  \A d \in Range(entries) : KnownEntry(s, s, d)
      <3>1. Range(entries) = {e}
        BY <2>2 DEF Range
      <3> QED
        BY <1>1, <1>2, <2>2, <3>1, EntryKnown
    <2> QED
      BY <2>1, <2>2 DEF Begins
  <1>9. FlowsKnow(s)'
    BY <1>1, <1>8, FlowsStillKnow DEF Begins, StartedBy
  <1> QED
    BY <1>6, <1>7, <1>9 DEF StartedBy

LEMMA NextOne ==
  ASSUME LockInv, OneInv, [Next]_vars
  PROVE  OneInv'
  <1>1. CASE Next
    <2>1. PICK J : J = IDs'
      OBVIOUS
    <2>2. Before(J) /\ uuid' \in {uuid, uuid + 1} /\ uuid \in Nat \ {0}
      BY <1>1, <2>1, NextIDs, UuidMoves DEF LockInv
    <2>3. Quiet \/ \E s \in Roles : Moves(s, J)
      BY <1>1, <2>2, StepMoves
    <2>4. ASSUME NEW s \in Roles, NEW n, NEW r, NEW entries, Begins(s, J, n, r, entries)
          PROVE  OneInv'
      <3>1. StartedBy(s)' /\ uuid' = 2
        BY <2>2, <2>4, BegunKnown DEF Begins
      <3> QED
        BY <3>1 DEF OneInv
    <2>5. ASSUME ~\E s \in Roles : \E n, r, entries : Begins(s, J, n, r, entries)
          PROVE  OneInv'
      <3>1. \A o \in Roles : StartedBy(o) => StartedBy(o)'
        BY <2>2, <2>3, <2>5, StartedStays
      <3>2. uuid' = 1 => uuid = 1
        BY <2>2
      <3> QED
        BY <3>1, <3>2 DEF OneInv
    <2> QED
      BY <2>4, <2>5
  <1>2. CASE UNCHANGED vars
    BY <1>2 DEF vars, OneInv, StartedBy, RowsKnow, FlowsKnow, Held, InQueue, AtWorker, ToApply,
       Storing, InStore, AtControl, Posted
  <1> QED
    BY <1>1, <1>2

LEMMA NothingUnderWay ==
  ASSUME Init, NEW s \in Roles
  PROVE  Held(s) = {} /\ Storing(s) = {} /\ Posted(s) = {} /\ DOMAIN table[s] = {}
  <1>1. Peer(s) \in Roles
    BY DEF Peer, Roles
  <1>2. InQueue(s) = {} /\ AtWorker(s) = {} /\ AtControl(s) = {} /\ DOMAIN table[s] = {}
    BY DEF Init, InQueue, AtWorker, AtControl, Idle
  <1>3. \A k \in Slots : http[s][k].pc = "idle" /\ http[Peer(s)][k].pc = "idle"
    BY <1>1 DEF Init, Idle
  <1>4. ToApply(s) = {} /\ InStore(s) = {} /\ Posted(s) = {}
    BY <1>3 DEF ToApply, InStore, Posted
  <1> QED
    BY <1>2, <1>4 DEF Held, Storing

LEMMA InitOne ==
  ASSUME Init
  PROVE  OneInv
  <1>1. \A o \in Roles : StartedBy(o)
    BY NothingUnderWay DEF StartedBy, RowsKnow, FlowsKnow, Roles
  <1> QED
    BY <1>1 DEF OneInv, Roles

\* However requests cross, are lost or are retried, the provider has at most
\* one negotiation: a request without a PID names the consumer PID of the row
\* that is there, so that providerContractRequestHandler's PutContract fails on
\* the UNIQUE column, and a provider that began the negotiation is never sent
\* such a request.
THEOREM NegotiationIsOne == Spec => []OneNegotiation
  <1>1. Init => OneInv
    BY InitOne
  <1>2. LockInv /\ OneInv /\ [Next]_vars => OneInv'
    BY NextOne
  <1>3. LockInv /\ OneInv => OneNegotiation
    <2> SUFFICES ASSUME LockInv, OneInv
                 PROVE  OneNegotiation
      OBVIOUS
    <2>1. table["provider"] \in Seq(RowsOver("provider", IDs))
      BY DEF LockInv, LockOver, StoreShape, Roles
    <2>2. DOMAIN table["provider"] = 1..Len(table["provider"]) /\ Len(table["provider"]) \in Nat
      BY <2>1, LenProperties
    <2>3. DOMAIN table["provider"] \subseteq {1}
      BY DEF OneInv, StartedBy
    <2>4. ~(2 <= Len(table["provider"]))
      BY <2>2, <2>3
    <2> QED
      BY <2>2, <2>4 DEF OneNegotiation
  <1> QED
    BY <1>1, <1>2, <1>3, LockInvariant, PTL DEF Spec

-----------------------------------------------------------------------------
(* Agreements                                                              *)

Bound == {"AGREED", "VERIFIED", "FINALIZED"}

\* Bound rows have an agreement, and from VERIFIED on it is stored.
RowAgreed(s, r) ==
  /\ r.state \in Bound => r.agreement # emptyUUID
  /\ r.state \in {"VERIFIED", "FINALIZED"} => r.agreement \in agreements[s]

RowsAgreed == \A s \in Roles : \A i \in DOMAIN table[s] : RowAgreed(s, table[s][i])

RowsApart ==
  \A s \in Roles : \A i, j \in DOMAIN table[s] :
    OwnPID(s, table[s][i]) = OwnPID(s, table[s][j]) => i = j

\* An entry that is to bind connector s finds a row that has an agreement.
AgreedWhereDue(s, e) ==
  e.target \in Bound =>
    \A i \in DOMAIN table[s] :
      OwnPID(s, table[s][i]) = e.entityID => table[s][i].agreement # emptyUUID

\* The agreement that is sent is one that the provider has stored.
KnownAgreement(e) ==
  e.msg.type = "agreement" => e.msg.agreement \in agreements["provider"] \ {emptyUUID}

\* What is to be stored at the consumer, the provider has; and what is to be
\* sent afterwards is what is to be stored.
ToStoreAgreed(s, x) ==
  /\ s = "consumer" => x.neg.agreement \in agreements["provider"]
  /\ \A e \in Range(x.entries) :
       /\ AgreedWhereDue(s, e)
       /\ e.msg.type = "agreement" => e.msg.agreement = x.neg.agreement /\ e.msg.agreement # emptyUUID

FlowsAgreed ==
  \A s \in Roles :
    /\ \A e \in Held(s) : AgreedWhereDue(s, e) /\ KnownAgreement(e)
    /\ \A x \in Storing(s) : ToStoreAgreed(s, x)
    /\ \A q \in Posted(s) : KnownAgreement(q)

\* Whoever has taken a copy has found its agreement in the store.
WorkerAgreed(s) ==
  worker[s].pc \in Busy =>
    /\ worker[s].neg.agreement \in agreements[s] \cup {emptyUUID}
    /\ worker[s].op.entry.target \in Bound => worker[s].neg.agreement # emptyUUID

SlotAgreed(s, k) ==
  http[s][k].pc = "locked" => http[s][k].neg.agreement \in agreements[s] \cup {emptyUUID}

ProcessesAgreed == \A s \in Roles : WorkerAgreed(s) /\ \A k \in Slots : SlotAgreed(s, k)

AgreedInv ==
  /\ agreements["consumer"] \subseteq agreements["provider"]
  /\ RowsAgreed /\ RowsApart /\ FlowsAgreed /\ ProcessesAgreed

\* What a step may do to the rows: but for row i of s, which may get a new PID
\* of its own, rows keep theirs, and nobody loses an agreement.
RowKept(s, i) ==
  /\ i \in DOMAIN table[s] /\ OwnPID(s, table'[s][i]) = OwnPID(s, table[s][i])
  /\ table[s][i].agreement # emptyUUID => table'[s][i].agreement # emptyUUID

RowsKept(s, i) ==
  \A x \in Roles : \A j \in DOMAIN table'[x] :
    RowKept(x, j) \/ (x = s /\ j = i /\ OwnPID(s, table'[s][i]) = uuid)

AgreementsKept == \A s \in Roles : agreements[s] \subseteq agreements'[s]

\* The UUID that is drawn next is nowhere yet.
LEMMA UuidIsFresh ==
  ASSUME LockInv, NEW s \in Roles
  PROVE  /\ \A e \in Held(s) : e.entityID # uuid
         /\ \A x \in Storing(s) : \A e \in Range(x.entries) : e.entityID # uuid
         /\ \A i \in DOMAIN table[s] : OwnPID(s, table[s][i]) # uuid
  <1>1. LockOver(IDs) /\ uuid \notin IDs /\ emptyUUID \in IDs
    BY DEF LockInv, IDs, emptyUUID
  <1>2. \A e \in EntriesOver(s, IDs) : e.entityID # uuid
    BY <1>1 DEF EntriesOver
  <1>3. \A q \in Seq(EntriesOver(s, IDs)) : \A e \in Range(q) : e \in EntriesOver(s, IDs)
    BY LenProperties, ElementOfSeq DEF Range
  <1>4. \A e \in InQueue(s) : e \in EntriesOver(s, IDs)
    <2>1. queue[s] \in Seq(QueuedOver(s, IDs))
      BY <1>1 DEF LockOver, QueuesShape
    <2>2. \A i \in DOMAIN queue[s] : queue[s][i] \in QueuedOver(s, IDs)
      BY <2>1, LenProperties, ElementOfSeq
    <2> QED
      BY <2>2 DEF InQueue, QueuedOver
  <1>5. \A e \in AtWorker(s) : e \in EntriesOver(s, IDs)
    BY <1>1, WorkerIsUp DEF AtWorker, OperationsOver
  <1>6. \A k \in Slots : http[s][k].pc \in {"stored", "apply"} =>
                           http[s][k].entries \in Seq(EntriesOver(s, IDs))
    BY <1>1, SlotShapes DEF LockOver
  <1>7. \A e \in ToApply(s) : e \in EntriesOver(s, IDs)
    BY <1>3, <1>6 DEF ToApply
  <1>8. \A x \in Storing(s) : x.entries \in Seq(EntriesOver(s, IDs))
    <2>1. \A x \in InStore(s) : x.entries \in Seq(EntriesOver(s, IDs))
      BY <1>6 DEF InStore, Stored
    <2>2. \A x \in AtControl(s) : x.entries \in Seq(EntriesOver(s, IDs))
      BY <1>1 DEF AtControl, Stored, LockOver, ControlsShape, ControlsOver, Idle
    <2> QED
      BY <2>1, <2>2 DEF Storing
  <1>9. \A i \in DOMAIN table[s] : OwnPID(s, table[s][i]) # uuid
    <2>1. \A i \in DOMAIN table[s] : table[s][i] \in RowsOver(s, IDs)
      BY <1>1, RowShapes DEF LockOver
    <2> QED
      BY <1>1, <2>1 DEF OwnPID, RowsOver, PpidsOver, CpidsOver
  <1> QED
    BY <1>2, <1>3, <1>4, <1>5, <1>7, <1>8, <1>9 DEF Held

LEMMA WhereDueStays ==
  ASSUME NEW s \in Roles, NEW i, RowsKept(s, i), NEW x \in Roles, NEW e, e.entityID # uuid,
         AgreedWhereDue(x, e)
  PROVE  AgreedWhereDue(x, e)'
  BY DEF AgreedWhereDue, RowsKept, RowKept

LEMMA ApartStays ==
  ASSUME LockInv, NEW s \in Roles, NEW i, RowsKept(s, i), RowsApart
  PROVE  RowsApart'
  <1>1. ASSUME NEW x \in Roles, NEW j \in DOMAIN table'[x], NEW l \in DOMAIN table'[x],
               OwnPID(x, table'[x][j]) = OwnPID(x, table'[x][l])
        PROVE  j = l
    <2>1. \A m \in DOMAIN table[x] : OwnPID(x, table[x][m]) # uuid
      BY UuidIsFresh
    <2>2. CASE RowKept(x, j) /\ RowKept(x, l)
      BY <1>1, <2>2 DEF RowKept, RowsApart
    <2>3. CASE ~RowKept(x, j)
      BY <1>1, <2>1, <2>3 DEF RowsKept, RowKept
    <2>4. CASE ~RowKept(x, l)
      BY <1>1, <2>1, <2>4 DEF RowsKept, RowKept
    <2> QED
      BY <2>2, <2>3, <2>4
  <1> QED
    BY <1>1 DEF RowsApart, OwnPID

\* What is under way goes on being about agreements that are there.
LEMMA FlowsStillAgreed ==
  ASSUME LockInv, FlowsAgreed, NEW s \in Roles, NEW i, RowsKept(s, i), AgreementsKept,
         NEW H, NEW S, Grows(s, H, S),
         \A e \in H : AgreedWhereDue(s, e)' /\ KnownAgreement(e)',
         \A x \in S : ToStoreAgreed(s, x)'
  PROVE  FlowsAgreed'
  <1>1. \A e : KnownAgreement(e) => KnownAgreement(e)'
    BY DEF KnownAgreement, AgreementsKept, Roles
  <1>2. ASSUME NEW x \in Roles, NEW e \in Held(x)
        PROVE  AgreedWhereDue(x, e)' /\ KnownAgreement(e)'
    <2>1. AgreedWhereDue(x, e) /\ KnownAgreement(e) /\ e.entityID # uuid
      BY <1>2, UuidIsFresh DEF FlowsAgreed
    <2> QED
      BY <1>1, <2>1, WhereDueStays
  <1>3. ASSUME NEW x \in Roles, NEW y \in Storing(x)
        PROVE  ToStoreAgreed(x, y)'
    <2>1. ToStoreAgreed(x, y) /\ \A e \in Range(y.entries) : e.entityID # uuid
      BY <1>3, UuidIsFresh DEF FlowsAgreed
    <2>2. \A e \in Range(y.entries) : AgreedWhereDue(x, e)'
      BY <2>1, WhereDueStays DEF ToStoreAgreed
    <2> QED
      BY <2>1, <2>2 DEF ToStoreAgreed, AgreementsKept, Roles
  <1>4. ASSUME NEW x \in Roles, NEW q \in Posted(x)'
        PROVE  KnownAgreement(q)'
    <2>1. CASE q \in Posted(x)
      BY <1>1, <2>1 DEF FlowsAgreed
    <2>2. CASE \E e \in Held(x) : q = RequestOf(e)
      BY <1>1, <2>2 DEF FlowsAgreed, RequestOf, KnownAgreement
    <2> QED
      BY <1>4, <2>1, <2>2 DEF Grows
  <1>5. ASSUME NEW x \in Roles, NEW e \in Held(x)'
        PROVE  AgreedWhereDue(x, e)' /\ KnownAgreement(e)'
    BY <1>2, <1>5 DEF Grows
  <1>6. ASSUME NEW x \in Roles, NEW y \in Storing(x)'
        PROVE  ToStoreAgreed(x, y)'
    BY <1>3, <1>6 DEF Grows
  <1> QED
    BY <1>4, <1>5, <1>6 DEF FlowsAgreed

LEMMA ProcessStillAgreed ==
  ASSUME ProcessesAgreed, AgreementsKept, NEW s \in Roles
  PROVE  /\ WorkerGoesOn(s) => WorkerAgreed(s)'
         /\ \A k \in Slots : SlotGoesOn(s, k) => SlotAgreed(s, k)'
  <1>1. WorkerGoesOn(s) => WorkerAgreed(s)'
    BY DEF ProcessesAgreed, WorkerAgreed, WorkerGoesOn, AgreementsKept
  <1>2. ASSUME NEW k \in Slots, SlotGoesOn(s, k)
        PROVE  SlotAgreed(s, k)'
    BY <1>2 DEF ProcessesAgreed, SlotAgreed, SlotGoesOn, AgreementsKept
  <1> QED
    BY <1>1, <1>2

LEMMA ProcessesStillAgreed ==
  ASSUME ProcessesAgreed, AgreementsKept, GoesOn
  PROVE  ProcessesAgreed'
  BY ProcessStillAgreed DEF ProcessesAgreed, GoesOn

\* Rows that only have their locks changed.
LEMMA SameRowsKept ==
  ASSUME SameRows, NEW s \in Roles, NEW i
  PROVE  RowsKept(s, i)
  <1>1. ASSUME NEW x \in Roles, NEW j \in DOMAIN table'[x]
        PROVE  RowKept(x, j)
    BY <1>1 DEF SameRows, SameColumns, RowKept, OwnPID
  <1> QED
    BY <1>1 DEF RowsKept

LEMMA SameRowsAgreed ==
  ASSUME SameRows, RowsAgreed, AgreementsKept
  PROVE  RowsAgreed'
  BY DEF SameRows, SameColumns, RowsAgreed, RowAgreed, AgreementsKept

\* Nothing but locks changes in the databases, and nobody takes a copy.
LEMMA QuietlyAgreed ==
  ASSUME LockInv, AgreedInv, SameRows, AgreementsKept, Flows, agreements' = agreements
  PROVE  /\ agreements'["consumer"] \subseteq agreements'["provider"]
         /\ RowsAgreed' /\ RowsApart' /\ FlowsAgreed'
  <1>1. PICK s \in Roles : TRUE
    BY DEF Roles
  <1>2. RowsKept(s, 0)
    BY SameRowsKept
  <1>3. RowsAgreed' /\ RowsApart'
    BY <1>2, SameRowsAgreed, ApartStays DEF AgreedInv
  <1>4. FlowsAgreed'
    BY <1>2, FlowsStillAgreed DEF AgreedInv, Flows
  <1> QED
    BY <1>3, <1>4 DEF AgreedInv

LEMMA LockedAgreed ==
  ASSUME NEW I, LockInv, Before(I), AgreedInv, NEW s \in Roles, NEW k \in Slots, NEW i, Locked(s, k, i)
  PROVE  AgreedInv'
  <1>1. AgreementsKept /\ agreements' = agreements /\ SameRows /\ Flows
    BY DEF Locked, AgreementsKept
  <1>2. SlotAgreed(s, k)'
    <2>1. table[s][i].agreement \in agreements[s] \cup {emptyUUID}
      BY DEF Locked, Free, Dangling
    <2> QED
      BY <1>1, <2>1 DEF Locked, SlotAgreed
  <1>3. ProcessesAgreed'
    BY <1>1, <1>2, ProcessStillAgreed DEF ProcessesAgreed, Locked, AgreedInv
  <1> QED
    BY <1>1, <1>3, QuietlyAgreed DEF AgreedInv

\* The row that an entry is about.
LEMMA EntryRowAgreed ==
  ASSUME FlowsAgreed, NEW s \in Roles, worker[s].pc # "idle",
         NEW i \in EntryRows(s, worker[s].op.entry), Free(s, i)
  PROVE  /\ table[s][i].agreement \in agreements[s] \cup {emptyUUID}
         /\ worker[s].op.entry.target \in Bound => table[s][i].agreement # emptyUUID
  <1> DEFINE e == worker[s].op.entry
  <1>1. e \in Held(s)
    BY DEF Held, AtWorker
  <1>2. AgreedWhereDue(s, e)
    BY <1>1 DEF FlowsAgreed
  <1>3. i \in DOMAIN table[s] /\ OwnPID(s, table[s][i]) = e.entityID
    BY DEF EntryRows, Lookup, Matches, OwnPID, Roles
  <1> QED
    BY <1>2, <1>3 DEF AgreedWhereDue, Free, Dangling

LEMMA AcquiredAgreed ==
  ASSUME NEW I, LockInv, Before(I), AgreedInv, NEW s \in Roles, NEW i, Acquired(s, i)
  PROVE  AgreedInv'
  <1>1. AgreementsKept /\ agreements' = agreements /\ SameRows /\ Flows
    BY DEF Acquired, AgreementsKept
  <1>2. WorkerAgreed(s)'
    <2>1. worker[s].pc # "idle" /\ i \in EntryRows(s, worker[s].op.entry) /\ Free(s, i)
      BY DEF Acquired
    <2>2. /\ table[s][i].agreement \in agreements[s] \cup {emptyUUID}
          /\ worker[s].op.entry.target \in Bound => table[s][i].agreement # emptyUUID
      BY <2>1, EntryRowAgreed DEF AgreedInv
    <2> QED
      BY <1>1, <2>2 DEF Acquired, WorkerAgreed
  <1>3. ProcessesAgreed'
    BY <1>1, <1>2, ProcessStillAgreed DEF ProcessesAgreed, Acquired, AgreedInv
  <1> QED
    BY <1>1, <1>3, QuietlyAgreed DEF AgreedInv

\* A row is written that has what it is bound to.
LEMMA RowPutAgreed ==
  ASSUME LockInv, AgreedInv, NEW s \in Roles, NEW i, NEW n, Puts(s, i, n), AgreementsKept,
         RowAgreed(s, n)', table[s][i].agreement # emptyUUID => n.agreement # emptyUUID
  PROVE  RowsAgreed' /\ RowsApart' /\ RowsKept(s, i)
  <1>1. /\ i \in DOMAIN table[s] /\ SameColumns(n, table'[s][i]) /\ KeptPIDs(s, table[s][i], n)
        /\ \A x \in Roles : DOMAIN table'[x] = DOMAIN table[x]
        /\ \A x \in Roles : \A j \in DOMAIN table[x] : x # s \/ j # i => table'[x][j] = table[x][j]
    BY DEF Puts
  <1>2. RowAgreed(s, table[s][i])'
    BY <1>1 DEF RowAgreed, SameColumns
  <1>3. RowsAgreed'
    <2>1. ASSUME NEW x \in Roles, NEW j \in DOMAIN table[x], x # s \/ j # i
          PROVE  RowAgreed(x, table[x][j])'
      BY <1>1, <2>1 DEF AgreedInv, RowsAgreed, RowAgreed, AgreementsKept
    <2> QED
      BY <1>1, <1>2, <2>1 DEF RowsAgreed
  <1>4. RowKept(s, i) \/ OwnPID(s, table'[s][i]) = uuid
    BY <1>1 DEF RowKept, KeptPIDs, SameColumns, OwnPID
  <1>5. RowsKept(s, i)
    <2>1. ASSUME NEW x \in Roles, NEW j \in DOMAIN table[x], x # s \/ j # i
          PROVE  RowKept(x, j)
      BY <1>1, <2>1 DEF RowKept
    <2>2. ASSUME NEW x \in Roles, NEW j \in DOMAIN table'[x]
          PROVE  RowKept(x, j) \/ (x = s /\ j = i /\ OwnPID(s, table'[s][i]) = uuid)
      BY <1>1, <1>4, <2>1
    <2> QED
      BY <2>2 DEF RowsKept
  <1> QED
    BY <1>3, <1>5, ApartStays DEF AgreedInv

LEMMA CompletesAgreed ==
  ASSUME NEW I, LockInv, Before(I), AgreedInv, NEW s \in Roles, NEW i, NEW n, Completes(s, i, n)
  PROVE  AgreedInv'
  <1> DEFINE e == worker[s].op.entry
  <1>1. /\ AgreementsKept /\ agreements' = agreements /\ Flows /\ GoesOn /\ Puts(s, i, n)
        /\ n.state = e.target /\ n.agreement = table[s][i].agreement
    BY DEF Completes, AgreementsKept
  <1>2. /\ n.agreement \in agreements[s] \cup {emptyUUID}
        /\ e.target \in Bound => n.agreement # emptyUUID
    <2>1. CASE worker[s].pc \in Busy /\ n.agreement = worker[s].neg.agreement
      BY <2>1 DEF AgreedInv, ProcessesAgreed, WorkerAgreed
    <2>2. CASE worker[s].pc = "terminate" /\ i \in EntryRows(s, e) /\ Free(s, i)
      BY <1>1, <2>2, EntryRowAgreed DEF AgreedInv
    <2> QED
      BY <2>1, <2>2 DEF Completes, Busy
  <1>3. RowAgreed(s, n)'
    BY <1>1, <1>2 DEF RowAgreed, Bound
  <1>4. RowsAgreed' /\ RowsApart' /\ RowsKept(s, i)
    BY <1>1, <1>3, RowPutAgreed
  <1>5. FlowsAgreed'
    BY <1>1, <1>4, FlowsStillAgreed DEF AgreedInv, Flows
  <1>6. ProcessesAgreed'
    BY <1>1, ProcessesStillAgreed DEF AgreedInv
  <1> QED
    BY <1>1, <1>4, <1>5, <1>6 DEF AgreedInv

\* A copy that Send may work on.
GoodCopy(s, i, r) ==
  /\ RowAgreed(s, r)
  /\ table[s][i].agreement # emptyUUID => r.agreement # emptyUUID
  /\ s = "consumer" /\ r.newAgreement => r.agreement \in agreements["provider"]

\* What Send does to the agreement.
LEMMA SentAgreement ==
  ASSUME NEW s \in Roles, NEW i, NEW r, GoodCopy(s, i, r), NEW out, uuid # emptyUUID,
         Sent(s, r, uuid, out), SameButAgreement(r, out.neg), r.state \in States
  PROVE  /\ GoodCopy(s, i, out.neg)
         /\ \A e \in Range(out.entries) :
              /\ EntryOf(s, out.neg, e)
              /\ e.target \in Bound => out.neg.agreement # emptyUUID
              /\ e.msg.type = "agreement" => out.neg.newAgreement /\ out.neg.agreement # emptyUUID
  <1>1. CASE out.neg = r /\ out.entries = <<>>
    BY <1>1 DEF Range
  <1>2. ASSUME NEW e, out.entries = <<e>>, EntryOf(s, out.neg, e),
               e.target \in validTransitions[r.state],
               out.neg.agreement = IF e.msg.type = "agreement" THEN uuid ELSE r.agreement,
               out.neg.newAgreement = (r.newAgreement \/ e.msg.type = "agreement")
        PROVE  /\ GoodCopy(s, i, out.neg)
               /\ \A d \in Range(out.entries) :
                    /\ EntryOf(s, out.neg, d)
                    /\ d.target \in Bound => out.neg.agreement # emptyUUID
                    /\ d.msg.type = "agreement" => out.neg.newAgreement /\ out.neg.agreement # emptyUUID
    <2>1. Range(out.entries) = {e}
      BY <1>2 DEF Range
    <2>2. e.msg.type \in TypesFrom(s) /\ e.msg.event \in EventsFrom(s) /\ e.target = TargetOf(e.msg)
      BY <1>2 DEF EntryOf, EntriesOver, MessagesOver
    <2>3. e.target = "AGREED" <=> e.msg.type = "agreement"
      BY <2>2 DEF TargetOf, TypesFrom, EventsFrom
    <2>4. out.neg.state = r.state
      BY DEF SameButAgreement
    <2>5. CASE e.msg.type = "agreement"
      <3>1. s = "provider" /\ out.neg.agreement = uuid /\ out.neg.newAgreement
        BY <1>2, <2>2, <2>5 DEF TypesFrom, Roles
      <3>2. r.state \in {"REQUESTED", "ACCEPTED"}
        BY <1>2, <2>3, <2>5 DEF validTransitions, States
      <3>3. GoodCopy(s, i, out.neg)
        BY <2>4, <3>1, <3>2 DEF GoodCopy, RowAgreed, Bound
      <3> QED
        BY <1>2, <2>1, <3>1, <3>3
    <2>6. CASE e.msg.type # "agreement"
      <3>1. out.neg.agreement = r.agreement /\ (out.neg.newAgreement => r.newAgreement)
        BY <1>2, <2>6
      <3>2. GoodCopy(s, i, out.neg)
        BY <2>4, <3>1 DEF GoodCopy, RowAgreed
      <3>3. e.target \in Bound => r.state \in {"AGREED", "VERIFIED"}
        <4>1. /\ "VERIFIED" \in validTransitions[r.state] => r.state = "AGREED"
              /\ "FINALIZED" \in validTransitions[r.state] => r.state = "VERIFIED"
          BY DEF validTransitions, States
        <4> QED
          BY <1>2, <2>3, <2>6, <4>1 DEF Bound
      <3>4. e.target \in Bound => out.neg.agreement # emptyUUID
        BY <3>1, <3>3 DEF GoodCopy, RowAgreed, Bound
      <3> QED
        BY <1>2, <2>1, <2>6, <3>2, <3>4
    <2> QED
      BY <2>5, <2>6
  <1> QED
    BY <1>1, <1>2 DEF Sent

\* A good copy is sent from and stored.
LEMMA SentAgreed ==
  ASSUME LockInv, AgreedInv, NEW I, NEW s \in Roles, NEW i, NEW r, GoodCopy(s, i, r), NEW out,
         r.state \in States, out.neg \in CopiesOver(s, I),
         Sent(s, r, uuid, out), SameButAgreement(r, out.neg),
         Puts(s, i, out.neg), GoesOn, agreements' = agreements,
         Grows(s, IF out.neg.newAgreement THEN {} ELSE Range(out.entries),
                  IF out.neg.newAgreement THEN {Stored(out)} ELSE {})
  PROVE  AgreedInv'
  <1>1. uuid # emptyUUID /\ AgreementsKept
    BY DEF LockInv, emptyUUID, AgreementsKept
  <1>2. /\ GoodCopy(s, i, out.neg)
        /\ \A e \in Range(out.entries) :
             /\ EntryOf(s, out.neg, e)
             /\ e.target \in Bound => out.neg.agreement # emptyUUID
             /\ e.msg.type = "agreement" => out.neg.newAgreement /\ out.neg.agreement # emptyUUID
    BY <1>1, SentAgreement
  <1>3. RowsAgreed' /\ RowsApart' /\ RowsKept(s, i)
    <2>1. RowAgreed(s, out.neg)' /\ (table[s][i].agreement # emptyUUID => out.neg.agreement # emptyUUID)
      BY <1>2 DEF GoodCopy, RowAgreed
    <2> QED
      BY <1>1, <2>1, RowPutAgreed
  <1>4. ASSUME NEW e \in Range(out.entries)
        PROVE  AgreedWhereDue(s, e)'
    <2>1. /\ e.entityID = OwnPID(s, table'[s][i]) /\ i \in DOMAIN table'[s]
          /\ table'[s][i].agreement = out.neg.agreement
      BY <1>2 DEF EntryOf, LocalPID, OwnPID, CopiesOver, Puts, SameColumns
    <2>2. \A j \in DOMAIN table'[s] : OwnPID(s, table'[s][j]) = e.entityID => j = i
      BY <1>3, <2>1 DEF RowsApart, OwnPID
    <2> QED
      BY <1>2, <2>1, <2>2 DEF AgreedWhereDue, OwnPID
  <1>5. FlowsAgreed'
    <2>1. CASE out.neg.newAgreement
      <3>1. ToStoreAgreed(s, Stored(out))'
        <4>1. Stored(out).neg = out.neg /\ Stored(out).entries = out.entries
          BY DEF Stored
        <4>2. s = "consumer" => out.neg.agreement \in agreements'["provider"]
          BY <1>2, <2>1 DEF GoodCopy
        <4>3. \A e \in Range(out.entries) : e.msg.type = "agreement" => e.msg.agreement = out.neg.agreement
          BY <1>2 DEF EntryOf
        <4> QED
          BY <1>2, <1>4, <4>1, <4>2, <4>3 DEF ToStoreAgreed
      <3> QED
        BY <1>1, <1>3, <2>1, <3>1, FlowsStillAgreed DEF AgreedInv
    <2>2. CASE ~out.neg.newAgreement
      <3>1. \A e \in Range(out.entries) : KnownAgreement(e)'
        BY <1>2, <2>2 DEF KnownAgreement
      <3> QED
        BY <1>1, <1>3, <1>4, <2>2, <3>1, FlowsStillAgreed DEF AgreedInv
    <2> QED
      BY <2>1, <2>2
  <1>6. ProcessesAgreed'
    BY <1>1, ProcessesStillAgreed DEF AgreedInv
  <1> QED
    BY <1>3, <1>5, <1>6 DEF AgreedInv

LEMMA StoresAgreed ==
  ASSUME NEW I, LockInv, Before(I), AgreedInv, NEW s \in Roles, NEW k \in Slots, NEW out,
         Stores(s, k, I, out)
  PROVE  AgreedInv'
  <1> DEFINE h == http[s][k]
             n == h.neg
             m == h.req.msg
  <1>1. LockOver(I) /\ h.pc = "locked" /\ Processed(s, I, n, m, out) /\ out.neg \in CopiesOver(s, I)
    BY DEF Stores, StoredBy, Before
  <1>2. /\ n.id \in DOMAIN table[s] /\ n \in CopiesOver(s, I)
        /\ n.state = table[s][n.id].state /\ n.agreement = table[s][n.id].agreement
        /\ n = FromModel(table[s][n.id], n.id)
    BY <1>1, LockedHandler
  <1>3. ~n.newAgreement
    <2>1. LET c == FromModel(table[s][n.id], n.id) IN ~c.newAgreement
      BY DEF FromModel
    <2> QED
      BY <1>2, <2>1
  <1>4. n.agreement \in agreements[s] \cup {emptyUUID}
    BY <1>1 DEF AgreedInv, ProcessesAgreed, SlotAgreed
  <1>5. RowAgreed(s, n)
    BY <1>2 DEF AgreedInv, RowsAgreed, RowAgreed
  <1>6. m.type = "agreement" => m.agreement \in agreements["provider"] \ {emptyUUID}
    <2>1. Peer(s) \in Roles /\ Peer(Peer(s)) = s
      BY DEF Peer, Roles
    <2>2. h.req \in Posted(Peer(s))
      BY <1>1, <2>1 DEF Posted
    <2> QED
      BY <2>1, <2>2 DEF AgreedInv, FlowsAgreed, KnownAgreement
  <1>7. PICK r \in CopiesOver(s, I \cup {uuid}) :
          /\ r.state \in validTransitions[n.state] /\ AgreementReceived(n, m, r)
          /\ SameButAgreement(r, out.neg) /\ Sent(s, r, uuid, out)
    BY <1>1 DEF Processed, Received
  <1>8. r.state \in States /\ n.state \in States
    BY <1>2, <1>7 DEF CopiesOver
  <1>9. GoodCopy(s, n.id, r)
    <2>1. CASE m.type = "agreement"
      <3>1. r.state = "AGREED" /\ r.agreement = m.agreement /\ r.agreement # emptyUUID
        BY <1>6, <1>7, <2>1 DEF AgreementReceived
      <3> QED
        BY <1>6, <2>1, <3>1 DEF GoodCopy, RowAgreed
    <2>2. CASE m.type # "agreement"
      <3>1. r.state # "AGREED" /\ r.agreement = n.agreement /\ r.newAgreement = n.newAgreement
        BY <1>7, <2>2 DEF AgreementReceived, SameAgreement
      <3>2. r.state \in {"VERIFIED", "FINALIZED"} => n.state \in {"AGREED", "VERIFIED"}
        <4>1. /\ "VERIFIED" \in validTransitions[n.state] => n.state = "AGREED"
              /\ "FINALIZED" \in validTransitions[n.state] => n.state = "VERIFIED"
          BY <1>8 DEF validTransitions, States
        <4> QED
          BY <1>7, <4>1
      <3>3. RowAgreed(s, r)
        BY <1>4, <1>5, <3>1, <3>2 DEF RowAgreed, Bound
      <3> QED
        BY <1>2, <1>3, <3>1, <3>3 DEF GoodCopy
    <2> QED
      BY <2>1, <2>2
  <1> QED
    BY <1>1, <1>7, <1>8, <1>9, SentAgreed DEF Stores

LEMMA CallsAgreed ==
  ASSUME NEW I, LockInv, Before(I), AgreedInv, NEW s \in Roles, NEW i \in DOMAIN table[s],
         NEW n, NEW out, Calls(s, i, I, n, out)
  PROVE  AgreedInv'
  <1>1. /\ n.state = table[s][i].state /\ n.agreement = table[s][i].agreement /\ ~n.newAgreement
        /\ out.neg \in CopiesOver(s, I) /\ SameButAgreement(n, out.neg) /\ Sent(s, n, uuid, out)
    BY DEF Calls
  <1>2. n.state \in States
    BY <1>1, RowShapes DEF Before, LockOver
  <1>3. GoodCopy(s, i, n)
    BY <1>1 DEF GoodCopy, AgreedInv, RowsAgreed, RowAgreed
  <1> QED
    BY <1>1, <1>2, <1>3, SentAgreed DEF Calls

\* An agreement is stored; the consumer's is one that the provider has.
LEMMA AgreesAgreed ==
  ASSUME LockInv, AgreedInv, NEW s \in Roles, NEW x, Agrees(s, x)
  PROVE  AgreedInv'
  <1>1. /\ x \in Storing(s) /\ SameRows /\ GoesOn /\ Grows(s, Range(x.entries), {})
        /\ agreements' = [agreements EXCEPT ![s] = @ \cup {x.neg.agreement}]
    BY DEF Agrees
  <1>2. DOMAIN agreements = Roles
    BY DEF LockInv, LockOver, StoreShape
  <1>3. /\ agreements'[s] = agreements[s] \cup {x.neg.agreement}
        /\ \A y \in Roles : y # s => agreements'[y] = agreements[y]
    BY <1>1, <1>2
  <1>4. AgreementsKept
    BY <1>3 DEF AgreementsKept
  <1>5. ToStoreAgreed(s, x) /\ \A e \in Range(x.entries) : e.entityID # uuid
    BY <1>1, UuidIsFresh DEF AgreedInv, FlowsAgreed
  <1>6. agreements'["consumer"] \subseteq agreements'["provider"]
    BY <1>3, <1>4, <1>5 DEF AgreedInv, ToStoreAgreed, AgreementsKept, Roles
  <1>7. RowsKept(s, 0) /\ RowsAgreed' /\ RowsApart'
    BY <1>1, <1>4, SameRowsKept, SameRowsAgreed, ApartStays DEF AgreedInv
  <1>8. ASSUME NEW e \in Range(x.entries)
        PROVE  AgreedWhereDue(s, e)' /\ KnownAgreement(e)'
    <2>1. AgreedWhereDue(s, e)'
      BY <1>5, <1>7, WhereDueStays DEF ToStoreAgreed
    <2>2. e.msg.type = "agreement" => e.msg.agreement = x.neg.agreement /\ e.msg.agreement # emptyUUID
      BY <1>5 DEF ToStoreAgreed
    <2>3. x.neg.agreement \in agreements'["provider"]
      BY <1>3, <1>6 DEF Roles
    <2> QED
      BY <2>1, <2>2, <2>3 DEF KnownAgreement
  <1>9. FlowsAgreed'
    BY <1>1, <1>4, <1>7, <1>8, FlowsStillAgreed DEF AgreedInv
  <1>10. ProcessesAgreed'
    BY <1>1, <1>4, ProcessesStillAgreed DEF AgreedInv
  <1> QED
    BY <1>6, <1>7, <1>9, <1>10 DEF AgreedInv

LEMMA AsksAgreed ==
  ASSUME LockInv, AgreedInv, NEW s \in Roles, NEW i, NEW e, Asks(s, i, e)
  PROVE  AgreedInv'
  <1>1. /\ SameRows /\ GoesOn /\ Grows(s, {e}, {}) /\ agreements' = agreements /\ AgreementsKept
        /\ e.target = "TERMINATED" /\ e.msg.type = "termination"
    BY DEF Asks, AgreementsKept
  <1>2. RowsKept(s, 0) /\ RowsAgreed' /\ RowsApart'
    BY <1>1, SameRowsKept, SameRowsAgreed, ApartStays DEF AgreedInv
  <1>3. AgreedWhereDue(s, e)' /\ KnownAgreement(e)'
    BY <1>1 DEF AgreedWhereDue, KnownAgreement, Bound
  <1>4. FlowsAgreed'
    BY <1>1, <1>2, <1>3, FlowsStillAgreed DEF AgreedInv
  <1>5. ProcessesAgreed'
    BY <1>1, ProcessesStillAgreed DEF AgreedInv
  <1> QED
    BY <1>1, <1>2, <1>4, <1>5 DEF AgreedInv

LEMMA CreatedAgreed ==
  ASSUME NEW I, LockInv, Before(I), AgreedInv, NEW s \in Roles, NEW k \in Slots, NEW n,
         Created(s, k, I, n)
  PROVE  AgreedInv'
  <1> DEFINE l == Len(table[s])
  <1>1. /\ table' = [table EXCEPT ![s] = Append(@, ToModel(n))] /\ StoreShape(I)
        /\ LocalPID(n) = uuid /\ n.role = s /\ n.state = "INITIAL"
        /\ Flows /\ GoesOn /\ agreements' = agreements /\ AgreementsKept
    BY DEF Created, Inserted, Before, LockOver, AgreementsKept
  <1>2. /\ \A x \in Roles : x # s => table'[x] = table[x]
        /\ l \in Nat /\ DOMAIN table[s] = 1..l /\ DOMAIN table'[s] = 1..(l + 1)
        /\ \A j \in DOMAIN table[s] : table'[s][j] = table[s][j]
        /\ table'[s][l + 1] = ToModel(n)
    BY <1>1, RowCreated
  <1>3. \A j \in DOMAIN table'[s] : j = l + 1 \/ j \in DOMAIN table[s]
    BY <1>2
  <1>4. PICK i : i = l + 1
    OBVIOUS
  <1> HIDE DEF l
  <1>5. table'[s][i].state = "INITIAL" /\ OwnPID(s, table'[s][i]) = uuid
    BY <1>1, <1>2, <1>4 DEF ToModel, LocalPID, OwnPID
  <1>6. RowsKept(s, i)
    <2>1. ASSUME NEW x \in Roles, NEW j \in DOMAIN table'[x], x # s \/ j # i
          PROVE  RowKept(x, j)
      BY <1>2, <1>3, <1>4, <2>1 DEF RowKept
    <2> QED
      BY <1>5, <2>1 DEF RowsKept
  <1>7. RowsAgreed'
    <2>1. ASSUME NEW x \in Roles, NEW j \in DOMAIN table'[x], x # s \/ j # i
          PROVE  RowAgreed(x, table[x][j])'
      BY <1>1, <1>2, <1>3, <1>4, <2>1 DEF AgreedInv, RowsAgreed, RowAgreed
    <2>2. RowAgreed(s, table[s][i])'
      BY <1>5 DEF RowAgreed, Bound
    <2> QED
      BY <2>1, <2>2 DEF RowsAgreed
  <1>8. RowsApart' /\ FlowsAgreed' /\ ProcessesAgreed'
    BY <1>1, <1>6, ApartStays, FlowsStillAgreed, ProcessesStillAgreed DEF AgreedInv, Flows
  <1> QED
    BY <1>1, <1>7, <1>8 DEF AgreedInv

LEMMA BeginsAgreed ==
  ASSUME NEW I, LockInv, Before(I), AgreedInv, NEW s \in Roles, NEW n, NEW r, NEW entries,
         Begins(s, I, n, r, entries)
  PROVE  AgreedInv'
  <1>1. /\ FirstOf(s, n) /\ SameColumns(n, r) /\ table' = [table EXCEPT ![s] = <<r>>]
        /\ \A x \in Roles : DOMAIN table[x] = {}
        /\ Grows(s, Range(entries), {}) /\ GoesOn /\ agreements' = agreements /\ AgreementsKept
        /\ DOMAIN table = Roles
    BY DEF Begins, AgreementsKept, Before, LockOver, StoreShape
  <1>2. table'[s] = <<r>> /\ \A x \in Roles : x # s => table'[x] = table[x]
    BY <1>1
  <1>3. DOMAIN table'[s] = {1} /\ table'[s][1] = r /\ \A x \in Roles : x # s => DOMAIN table'[x] = {}
    BY <1>1, <1>2
  <1>4. r.state = "INITIAL" /\ OwnPID(s, r) = uuid
    BY <1>1 DEF FirstOf, SameColumns, LocalPID, OwnPID
  <1>5. RowsKept(s, 1)
    BY <1>3, <1>4 DEF RowsKept
  <1>6. RowsAgreed'
    <2>1. RowAgreed(s, table[s][1])'
      BY <1>3, <1>4 DEF RowAgreed, Bound
    <2> QED
      BY <1>3, <2>1 DEF RowsAgreed
  <1>7. \A e \in Range(entries) : AgreedWhereDue(s, e)' /\ KnownAgreement(e)'
    <2>1. CASE entries = <<>>
      BY <2>1 DEF Range
    <2>2. ASSUME NEW e, entries = <<e>>, EntryOf(s, n, e),
                 e.target \in {"REQUESTED", "OFFERED", "TERMINATED"}
          PROVE  \A d \in Range(entries) : AgreedWhereDue(s, d)' /\ KnownAgreement(d)'
      <3>1. Range(entries) = {e}
        BY <2>2 DEF Range
      <3>2. e.msg.type # "agreement"
        BY <2>2 DEF EntryOf, TargetOf
      <3> QED
        BY <2>2, <3>1, <3>2 DEF AgreedWhereDue, KnownAgreement, Bound
    <2> QED
      BY <2>1, <2>2 DEF Begins
  <1>8. RowsApart' /\ FlowsAgreed' /\ ProcessesAgreed'
    BY <1>1, <1>5, <1>7, ApartStays, FlowsStillAgreed, ProcessesStillAgreed DEF AgreedInv
  <1> QED
    BY <1>1, <1>6, <1>8 DEF AgreedInv

LEMMA StepAgreed ==
  ASSUME NEW I, LockInv, Before(I), AgreedInv, Quiet \/ \E s \in Roles : Moves(s, I)
  PROVE  AgreedInv' /\ AgreementsKept
  <1>1. CASE Quiet
    <2>1. AgreementsKept
      BY <1>1 DEF Quiet, AgreementsKept
    <2> QED
      BY <1>1, <2>1, QuietlyAgreed, ProcessesStillAgreed DEF Quiet, AgreedInv
  <1>2. ASSUME NEW s \in Roles, Moves(s, I)
        PROVE  AgreedInv'
    BY <1>2, CreatedAgreed, LockedAgreed, AcquiredAgreed, StoresAgreed, AgreesAgreed,
       CompletesAgreed, CallsAgreed, AsksAgreed, BeginsAgreed DEF Moves
  <1>3. ASSUME NEW s \in Roles, Moves(s, I)
        PROVE  AgreementsKept
    <2>1. agreements' = agreements \/ \E x : Agrees(s, x)
      BY <1>3 DEF Moves, Created, Locked, Acquired, Stores, Completes, Calls, Asks, Begins
    <2>2. ASSUME NEW x, Agrees(s, x)
          PROVE  AgreementsKept
      <3>1. DOMAIN agreements = Roles
        BY DEF LockInv, LockOver, StoreShape
      <3> QED
        BY <2>2, <3>1 DEF Agrees, AgreementsKept
    <2> QED
      BY <2>1, <2>2 DEF AgreementsKept
  <1> QED
    BY <1>1, <1>2, <1>3

LEMMA NextAgreed ==
  ASSUME LockInv, AgreedInv, [Next]_vars
  PROVE  AgreedInv' /\ AgreementsKept
  <1>1. CASE Next
    <2>1. PICK J : J = IDs'
      OBVIOUS
    <2>2. Before(J)
      BY <1>1, <2>1, NextIDs
    <2>3. Quiet \/ \E s \in Roles : Moves(s, J)
      BY <1>1, <2>2, StepMoves
    <2> QED
      BY <2>2, <2>3, StepAgreed
  <1>2. CASE UNCHANGED vars
    <2>1. Quiet
      BY <1>2, StutterQuiet DEF vars
    <2>2. AgreementsKept
      BY <2>1 DEF Quiet, AgreementsKept
    <2> QED
      BY <2>1, <2>2, QuietlyAgreed, ProcessesStillAgreed DEF Quiet, AgreedInv
  <1> QED
    BY <1>1, <1>2

LEMMA InitAgreed ==
  ASSUME Init
  PROVE  AgreedInv
  <1>1. \A s \in Roles : Held(s) = {} /\ Storing(s) = {} /\ Posted(s) = {} /\ DOMAIN table[s] = {}
    BY NothingUnderWay
  <1>2. RowsAgreed /\ RowsApart
    BY <1>1 DEF RowsAgreed, RowsApart
  <1>3. FlowsAgreed
    BY <1>1 DEF FlowsAgreed
  <1>4. ProcessesAgreed
    BY DEF Init, ProcessesAgreed, WorkerAgreed, SlotAgreed, Idle, Busy
  <1> QED
    BY <1>2, <1>3, <1>4 DEF Init, AgreedInv, Roles

LEMMA AgreedInvariant == Spec => []AgreedInv
  <1>1. Init => AgreedInv
    BY InitAgreed
  <1>2. LockInv /\ AgreedInv /\ [Next]_vars => AgreedInv'
    BY NextAgreed
  <1> QED
    BY <1>1, <1>2, LockInvariant, PTL DEF Spec

\* Whoever is bound has an agreement, and every agreement that the consumer has
\* stored the provider had stored before: an agreement is sent only after
\* PutAgreement (storeNegotiation, sendContractMessage), and no row goes to
\* AGREED without one, whichever calls, messages and deaths come in between.
THEOREM AgreementsAreKnown == Spec => []AgreementKnown
  <1>1. AgreedInv => AgreementKnown
    BY DEF AgreedInv, RowsAgreed, RowAgreed, AgreementKnown, Bound
  <1> QED
    BY <1>1, AgreedInvariant, PTL

-----------------------------------------------------------------------------
(* The calls that wait for their negotiation                              *)

CallInv ==
  /\ DOMAIN poll = Roles
  /\ \A w \in Roles : poll[w].pc = "finalized" => poll[w].agreement \in agreements[w]

\* A call that comes back has polled.
LEMMA PollMoves ==
  ASSUME DOMAIN poll = Roles, [Next]_vars, NEW w \in Roles
  PROVE  /\ DOMAIN poll' = Roles
         /\ \/ poll'[w] = poll[w] \/ poll'[w].pc # "finalized"
            \/ Poll(w)
  <1> DEFINE Goal ==
        /\ DOMAIN poll' = Roles
        /\ poll'[w] = poll[w] \/ poll'[w].pc # "finalized"
  <1>1. poll' = poll => Goal
    OBVIOUS
  <1>2. ASSUME Begin
        PROVE  Goal
    <2>1. PICK start \in Starts, found \in Found, auto \in CallAuto :
            LET first == FirstNegotiation(start, auto)
                sent == Send(first, uuid, found)
            IN  poll' = [poll EXCEPT ![first.role] =
                  IF sent.ok THEN Polling(start, first) ELSE [pc |-> "failed"]]
      BY <1>2 DEF Begin
    <2> DEFINE first == FirstNegotiation(start, auto)
               v == IF Send(first, uuid, found).ok THEN Polling(start, first) ELSE [pc |-> "failed"]
    <2>2. v.pc # "finalized"
      BY DEF Polling, Idle
    <2>3. poll' = [poll EXCEPT ![first.role] = v]
      BY <2>1
    <2> HIDE DEF first, v
    <2> QED
      BY <2>2, <2>3
  <1>3. ASSUME NEW s \in Roles, NEW released, Die(s, released)
        PROVE  Goal
    BY <1>3 DEF Die
  <1>4. ASSUME NEW s \in Roles, Poll(s), s # w
        PROVE  Goal
    <2>1. \E v : poll' = [poll EXCEPT ![s] = v]
      BY <1>4 DEF Poll
    <2> QED
      BY <1>4, <2>1
  <1>5. ASSUME NEW s \in Roles, Reconcile(s)
        PROVE  Goal
    BY <1>1, <1>3, <1>5 DEF Reconcile, Take, Acquire, AcquireFails, SendHTTPRequest, SendFailsEarly,
       Commit, Requeue, GiveUp, Terminate, PanicHolding, PanicTerminating
  <1>6. ASSUME NEW s \in Roles, NEW k \in Slots, Handle(s, k)
        PROVE  Goal
    BY <1>1, <1>6 DEF Handle, RouteRequest, CreateNegotiation, HandlerLock, HandlerNotFound,
       HandlerStore, HandlerReject, HandlerPutAgreement, HandlerApply
  <1>7. ASSUME NEW s \in Roles, Operate(s)
        PROVE  Goal
    <2>1. poll' = poll
      <3>1. ASSUME NEW i, NEW call, NEW auto, Call(s, i, call, auto)
            PROVE  poll' = poll
        BY <3>1, Zenon DEF Call
      <3>2. ASSUME NEW i, NEW call, CallRefused(s, i, call)
            PROVE  poll' = poll
        BY <3>2, Zenon DEF CallRefused
      <3> QED
        BY <1>7, <3>1, <3>2 DEF Operate, ContractTerminate
    <2> QED
      BY <1>1, <2>1
  <1>8. ASSUME NEW s \in Roles, ConnectionLost(s) \/ Crash(s) \/ Restart(s) \/ CallPutAgreement(s)
        PROVE  Goal
    BY <1>1, <1>3, <1>8 DEF ConnectionLost, Crash, Restart, CallPutAgreement
  <1>9. ASSUME NEW s \in Roles, NEW k \in Slots, HandlerNotifyFails(s, k) \/ HandlerCancelled(s, k)
        PROVE  Goal
    BY <1>1, <1>9 DEF HandlerNotifyFails, HandlerCancelled
  <1>10. UNCHANGED vars => Goal
    BY <1>1 DEF vars
  <1>11. Poll(w) => DOMAIN poll' = Roles
    BY DEF Poll
  <1> QED
    BY <1>2, <1>4, <1>5, <1>6, <1>7, <1>8, <1>9, <1>10, <1>11 DEF Next, Progress

\* A download comes back with an agreement that both connectors have stored and
\* an upload with one that its own has: nobody gets to FINALIZED before, and
\* GetProviderDatasetDownloadInformation and GetProviderDatasetUploadInformation,
\* which read the row without a lock, dereference it only then.
THEOREM CallsGetAgreement == Spec => []CallGetsAgreement
  <1>1. Init => CallInv
    BY DEF Init, CallInv, Idle, Roles
  <1>2. ASSUME AgreedInv, CallInv, [Next]_vars, AgreementsKept
        PROVE  CallInv'
    <2> SUFFICES ASSUME NEW w \in Roles
                 PROVE  /\ DOMAIN poll' = Roles
                        /\ poll'[w].pc = "finalized" => poll'[w].agreement \in agreements'[w]
      BY DEF CallInv, Roles
    <2>1. /\ DOMAIN poll' = Roles
          /\ \/ poll'[w] = poll[w] \/ poll'[w].pc # "finalized"
             \/ Poll(w)
      BY <1>2, PollMoves DEF CallInv
    <2>2. CASE poll'[w] = poll[w] \/ poll'[w].pc # "finalized"
      BY <1>2, <2>1, <2>2 DEF CallInv, AgreementsKept, Roles
    <2>3. CASE Poll(w) /\ poll'[w].pc = "finalized"
      <3> DEFINE rows == Lookup(w, w, poll[w].pid)
                 Ends(v) == poll' = [poll EXCEPT ![w] = v]
      <3>1. PICK i \in DOMAIN table[w] :
              /\ table[w][i].state = "FINALIZED"
              /\ Ends([pc |-> "finalized", agreement |-> ReadAgreement(w, i)])
        <4>1. \A v : Ends(v) => poll'[w] = v
          BY <1>2 DEF CallInv
        <4>2. ~Ends([pc |-> "failed"]) /\ ~Ends([pc |-> "aborted"])
          BY <2>3, <4>1
        <4>3. rows \subseteq DOMAIN table[w]
          BY DEF Lookup
        <4>4. \/ Ends([pc |-> "failed"]) \/ Ends([pc |-> "aborted"])
              \/ \E i \in rows :
                   /\ table[w][i].state = "FINALIZED"
                   /\ Ends([pc |-> "finalized", agreement |-> ReadAgreement(w, i)])
          BY <2>3 DEF Poll
        <4> QED
          BY <4>2, <4>3, <4>4
      <3>2. table[w][i].agreement \in agreements[w]
        BY <1>2, <3>1 DEF AgreedInv, RowsAgreed, RowAgreed, Roles
      <3>3. poll'[w].agreement \in agreements[w]
        BY <1>2, <3>1, <3>2 DEF CallInv, ReadAgreement, Dangling, Roles
      <3> QED
        BY <1>2, <2>1, <3>3 DEF CallInv, AgreementsKept, Roles
    <2> QED
      BY <2>1, <2>2, <2>3
  <1>3. LockInv /\ AgreedInv /\ CallInv /\ [Next]_vars => CallInv'
    BY <1>2, NextAgreed
  <1>4. AgreedInv /\ CallInv => CallGetsAgreement
    BY DEF AgreedInv, CallInv, CallGetsAgreement, Roles
  <1> QED
    BY <1>1, <1>3, <1>4, AgreedInvariant, LockInvariant, PTL DEF Spec

==============================================================================
