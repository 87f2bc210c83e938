--------------------------- MODULE ReconcilerProofs ---------------------------
(***************************************************************************)
(* Proofs about Reconciler for any set of entries and any number of        *)
(* attempts.                                                               *)
(***************************************************************************)
EXTENDS Reconciler, SequenceTheorems, FiniteSetTheorems, TLAPS

ManagerHolds == manager.pc \in {"popped", "send"}
WorkerHolds == worker.pc = "busy"

Held(e) ==
  \/ \E i \in DOMAIN q : q[i].entry = e
  \/ ManagerHolds /\ manager.op.entry = e
  \/ WorkerHolds /\ worker.op.entry = e

\* The variables have their types, and the goroutines start together.  An
\* operation that the manager has popped came from the deque, so it has an
\* attempt left.
Shape ==
  /\ q \in Seq(Queued)
  /\ manager \in {Absent, Select, Left} \cup [pc: {"popped"}, op: Queued]
                                        \cup [pc: {"send"}, op: Operations]
  /\ worker \in {Absent, Select, Left} \cup [pc: {"busy"}, op: Operations]
  /\ manager = Absent => worker = Absent
  /\ added \subseteq Entries /\ delivered \subseteq added /\ givenUp \subseteq added
  /\ done \in BOOLEAN /\ up \in BOOLEAN

\* No two of the deque's places, the manager and the worker hold one entry.
HeldOnce ==
  /\ \A i, j \in DOMAIN q : q[i].entry = q[j].entry => i = j
  /\ ManagerHolds => \A i \in DOMAIN q : q[i].entry # manager.op.entry
  /\ WorkerHolds => \A i \in DOMAIN q : q[i].entry # worker.op.entry
  /\ ManagerHolds /\ WorkerHolds => manager.op.entry # worker.op.entry

\* What is held is what was added and is not settled.
HeldIsOpen ==
  /\ \A e \in Entries : Held(e) <=> e \in added \ (delivered \cup givenUp)
  /\ delivered \cap givenUp = {}

IndInv == Shape /\ HeldOnce /\ HeldIsOpen

-----------------------------------------------------------------------------
(* The deque                                                               *)

\* Append puts the operation behind the others (deque.PushBack).
LEMMA PushBack ==
  ASSUME q \in Seq(Queued), NEW op \in Queued, q' = Append(q, op)
  PROVE  /\ q' \in Seq(Queued)
         /\ DOMAIN q' = DOMAIN q \cup {Len(q) + 1}
         /\ Len(q) + 1 \notin DOMAIN q
         /\ q'[Len(q) + 1] = op
         /\ \A i \in DOMAIN q : q'[i] = q[i]
  OBVIOUS

\* Tail takes the first operation away and moves the others up (deque.PopFront).
LEMMA PopFront ==
  ASSUME q \in Seq(Queued), q # <<>>, q' = Tail(q)
  PROVE  /\ q' \in Seq(Queued)
         /\ 1 \in DOMAIN q /\ Head(q) = q[1]
         /\ \A i \in DOMAIN q' : i + 1 \in DOMAIN q /\ i + 1 # 1 /\ q'[i] = q[i + 1]
         /\ \A i \in DOMAIN q : i # 1 => i - 1 \in DOMAIN q' /\ q'[i - 1] = q[i]
         /\ \A i, j \in DOMAIN q' : i + 1 = j + 1 => i = j
  OBVIOUS

\* An element that is overwritten leaves the others where they are.
LEMMA Overwrite ==
  ASSUME NEW S, NEW s \in Seq(S), NEW i \in DOMAIN s, NEW e \in S
  PROVE  /\ [s EXCEPT ![i] = e] \in Seq(S)
         /\ DOMAIN [s EXCEPT ![i] = e] = DOMAIN s
         /\ \A j \in DOMAIN s : [s EXCEPT ![i] = e][j] = IF j = i THEN e ELSE s[j]
  <1> DEFINE t == [s EXCEPT ![i] = e]
  <1>1. DOMAIN s = 1..Len(s)
    BY LenProperties
  <1>2. t \in Seq(S) /\ \A j \in 1..Len(s) : t[j] = IF j = i THEN e ELSE s[j]
    BY <1>1, ExceptSeq
  <1>3. DOMAIN t = DOMAIN s
    OBVIOUS
  <1> QED
    BY <1>1, <1>2, <1>3

-----------------------------------------------------------------------------

\* Nothing is held when the process starts.
LEMMA InitIndInv == ReconcilerInit => IndInv
  <1> SUFFICES ASSUME ReconcilerInit PROVE IndInv
    OBVIOUS
  <1> USE DEF ReconcilerInit
  <1>1. Shape
    <2>1. q \in Seq(Queued)
      OBVIOUS
    <2> QED
      BY <2>1 DEF Shape
  <1>2. HeldOnce
    BY DEF HeldOnce, ManagerHolds, WorkerHolds, Absent
  <1>3. HeldIsOpen
    BY DEF HeldIsOpen, Held, ManagerHolds, WorkerHolds, Absent
  <1> QED
    BY <1>1, <1>2, <1>3 DEF IndInv

\* NewReconciler and Run: the goroutines start empty-handed.
LEMMA StartReconcilerIndInv ==
  ASSUME IndInv, StartReconciler
  PROVE  IndInv'
  <1> USE DEF IndInv, StartReconciler, history
  <1>1. Shape'
    BY DEF Shape, Operations, Queued, Absent, Select, Left
  <1>2. HeldOnce'
    BY DEF Shape, HeldOnce, ManagerHolds, WorkerHolds, Absent, Select, Left
  <1>3. HeldIsOpen'
    BY DEF Shape, HeldIsOpen, Held, ManagerHolds, WorkerHolds, Absent, Select, Left
  <1> QED
    BY <1>1, <1>2, <1>3

\* Add takes an entry it has not seen, so nobody holds it.
LEMMA AddIndInv ==
  ASSUME NEW e \in Entries, IndInv, Add(e)
  PROVE  IndInv'
  <1> USE DEF IndInv, Add
  <1> DEFINE op == [entry |-> e, attempts |-> 0, due |-> TRUE]
  <1>1. /\ q' \in Seq(Queued)
        /\ DOMAIN q' = DOMAIN q \cup {Len(q) + 1}
        /\ Len(q) + 1 \notin DOMAIN q
        /\ q'[Len(q) + 1] = op
        /\ \A i \in DOMAIN q : q'[i] = q[i]
    BY PushBack, AttemptsAssumption DEF Shape, Queued
  <1>2. ~Held(e)
    BY DEF Shape, HeldIsOpen
  <1>3. Shape'
    BY <1>1 DEF Shape, Operations, Queued, Absent, Select, Left
  <1>4. HeldOnce'
    BY <1>1, <1>2 DEF Held, Shape, HeldOnce, ManagerHolds, WorkerHolds
  <1>5. HeldIsOpen'
    BY <1>1 DEF Shape, HeldIsOpen, Held, ManagerHolds, WorkerHolds
  <1> QED
    BY <1>3, <1>4, <1>5

\* The operation at place i becomes due and stays where it is.
LEMMA ElapseIndInv ==
  ASSUME NEW i \in DOMAIN q, IndInv, Elapse(i)
  PROVE  IndInv'
  <1> USE DEF IndInv, Elapse, history
  <1>1. /\ q' \in Seq(Queued) /\ DOMAIN q' = DOMAIN q
        /\ \A j \in DOMAIN q : q'[j].entry = q[j].entry
    <2> DEFINE op == [q[i] EXCEPT !.due = TRUE]
    <2>1. q \in Seq(Queued) /\ i \in 1..Len(q) /\ q[i] \in Queued
      BY DEF Shape
    <2>2. op \in Queued /\ op.entry = q[i].entry
      BY <2>1 DEF Queued
    <2>3. q' = [q EXCEPT ![i] = op]
      OBVIOUS
    <2> HIDE DEF op, Elapse
    <2> QED
      BY <2>1, <2>2, <2>3, Overwrite
  <1>2. Shape'
    BY <1>1 DEF Shape, Operations, Queued, Absent, Select, Left
  <1>3. HeldOnce'
    BY <1>1 DEF Shape, HeldOnce, ManagerHolds, WorkerHolds
  <1>4. HeldIsOpen'
    BY <1>1 DEF Shape, HeldIsOpen, Held, ManagerHolds, WorkerHolds
  <1> QED
    BY <1>2, <1>3, <1>4

\* The operation at the front passes from the deque to the manager.
LEMMA ManagerPopsIndInv ==
  ASSUME IndInv, ManagerPops
  PROVE  IndInv'
  <1> USE DEF IndInv, ManagerPops, history
  <1>1. /\ q' \in Seq(Queued)
        /\ 1 \in DOMAIN q /\ Head(q) = q[1]
        /\ \A i \in DOMAIN q' : i + 1 \in DOMAIN q /\ i + 1 # 1 /\ q'[i] = q[i + 1]
        /\ \A i \in DOMAIN q : i # 1 => i - 1 \in DOMAIN q' /\ q'[i - 1] = q[i]
        /\ \A i, j \in DOMAIN q' : i + 1 = j + 1 => i = j
    BY PopFront DEF Shape
  <1>2. q[1] \in Queued
    BY <1>1 DEF Shape
  <1>3. Shape'
    BY <1>1, <1>2 DEF Shape, Absent, Select, Left
  <1>4. HeldOnce'
    BY <1>1 DEF Shape, HeldOnce, ManagerHolds, WorkerHolds, Absent, Select, Left
  <1>5. HeldIsOpen'
    <2>1. ASSUME NEW e PROVE Held(e)' <=> Held(e)
      <3>1. (\E i \in DOMAIN q : q[i].entry = e) <=>
              q[1].entry = e \/ \E i \in DOMAIN q' : q'[i].entry = e
        <4>1. ASSUME NEW i \in DOMAIN q, q[i].entry = e
              PROVE  q[1].entry = e \/ \E j \in DOMAIN q' : q'[j].entry = e
          BY <1>1, <4>1
        <4>2. ASSUME NEW j \in DOMAIN q', q'[j].entry = e
              PROVE  \E i \in DOMAIN q : q[i].entry = e
          BY <1>1, <4>2
        <4> QED
          BY <1>1, <4>1, <4>2
      <3>2. ~ManagerHolds /\ ManagerHolds' /\ manager'.op = q[1]
        BY <1>1 DEF ManagerHolds, Select
      <3> QED
        BY <3>1, <3>2 DEF Held, WorkerHolds
    <2> QED
      BY <2>1 DEF HeldIsOpen
  <1> QED
    BY <1>3, <1>4, <1>5

\* The operation passes from the manager to the back of the deque.
LEMMA ManagerPutsBackIndInv ==
  ASSUME IndInv, ManagerPutsBack
  PROVE  IndInv'
  <1> USE DEF IndInv, ManagerPutsBack, history
  <1>1. manager.op \in Queued
    BY DEF Shape, Absent, Select, Left
  <1>2. /\ q' \in Seq(Queued)
        /\ DOMAIN q' = DOMAIN q \cup {Len(q) + 1}
        /\ Len(q) + 1 \notin DOMAIN q
        /\ q'[Len(q) + 1] = manager.op
        /\ \A i \in DOMAIN q : q'[i] = q[i]
    BY <1>1, PushBack DEF Shape
  <1>3. Shape'
    BY <1>2 DEF Shape, Operations, Queued, Absent, Select, Left
  <1>4. HeldOnce'
    BY <1>2 DEF Shape, HeldOnce, ManagerHolds, WorkerHolds, Absent, Select, Left
  <1>5. HeldIsOpen'
    BY <1>2 DEF Shape, HeldIsOpen, Held, ManagerHolds, WorkerHolds, Absent, Select, Left
  <1> QED
    BY <1>3, <1>4, <1>5

\* The manager counts the attempt: it is at most the last one.
LEMMA ManagerOffersIndInv ==
  ASSUME IndInv, ManagerOffers
  PROVE  IndInv'
  <1> USE DEF IndInv, ManagerOffers, history
  <1>1. manager.op \in Queued
    BY DEF Shape, Absent, Select, Left
  <1>2. /\ manager'.op \in Operations /\ manager'.op.entry = manager.op.entry
        /\ manager' = [pc |-> "send", op |-> manager'.op]
    BY <1>1, AttemptsAssumption DEF Queued, Operations
  <1>3. Shape'
    BY <1>2 DEF Shape, Operations, Queued, Absent, Select, Left
  <1>4. HeldOnce'
    BY <1>2 DEF Shape, HeldOnce, ManagerHolds, WorkerHolds, Absent, Select, Left
  <1>5. HeldIsOpen'
    BY <1>2 DEF Shape, HeldIsOpen, Held, ManagerHolds, WorkerHolds, Absent, Select, Left
  <1> QED
    BY <1>3, <1>4, <1>5

\* The operation passes from the manager to the worker.
LEMMA HandoverIndInv ==
  ASSUME IndInv, Handover
  PROVE  IndInv'
  <1> USE DEF IndInv, Handover, history
  <1>1. Shape'
    BY DEF Shape, Operations, Queued, Absent, Select, Left
  <1>2. HeldOnce'
    BY DEF Shape, HeldOnce, ManagerHolds, WorkerHolds, Absent, Select, Left
  <1>3. HeldIsOpen'
    BY DEF Shape, HeldIsOpen, Held, ManagerHolds, WorkerHolds, Absent, Select, Left
  <1> QED
    BY <1>1, <1>2, <1>3

\* A manager that leaves holds nothing.
LEMMA ManagerLeavesIndInv ==
  ASSUME IndInv, ManagerLeaves
  PROVE  IndInv'
  <1> USE DEF IndInv, ManagerLeaves, history
  <1>1. Shape'
    BY DEF Shape, Operations, Queued, Absent, Select, Left
  <1>2. HeldOnce'
    BY DEF Shape, HeldOnce, ManagerHolds, WorkerHolds, Absent, Select, Left
  <1>3. HeldIsOpen'
    BY DEF Shape, HeldIsOpen, Held, ManagerHolds, WorkerHolds, Absent, Select, Left
  <1> QED
    BY <1>1, <1>2, <1>3

\* A worker that leaves holds nothing.
LEMMA WorkerLeavesIndInv ==
  ASSUME IndInv, WorkerLeaves
  PROVE  IndInv'
  <1> USE DEF IndInv, WorkerLeaves, history
  <1>1. Shape'
    BY DEF Shape, Operations, Queued, Absent, Select, Left
  <1>2. HeldOnce'
    BY DEF Shape, HeldOnce, ManagerHolds, WorkerHolds, Absent, Select, Left
  <1>3. HeldIsOpen'
    BY DEF Shape, HeldIsOpen, Held, ManagerHolds, WorkerHolds, Absent, Select, Left
  <1> QED
    BY <1>1, <1>2, <1>3

\* The entry the worker held is settled, and held by nobody else.
LEMMA WorkerDeliversIndInv ==
  ASSUME IndInv, WorkerDelivers
  PROVE  IndInv'
  <1> USE DEF IndInv, WorkerDelivers
  <1>1. WorkerHolds /\ worker.op \in Operations /\ worker.op.entry \in Entries
    BY DEF Shape, WorkerHolds, Operations, Absent, Select, Left
  <1>2. Held(worker.op.entry) /\ worker.op.entry \in added \ (delivered \cup givenUp)
    BY <1>1 DEF Held, HeldIsOpen
  <1>3. Shape'
    BY <1>2 DEF Shape, Operations, Queued, Absent, Select, Left
  <1>4. HeldOnce'
    BY DEF Shape, HeldOnce, ManagerHolds, WorkerHolds, Absent, Select, Left
  <1>5. HeldIsOpen'
    BY <1>1, <1>2 DEF Shape, HeldOnce, HeldIsOpen, Held, ManagerHolds, WorkerHolds, Absent, Select, Left
  <1> QED
    BY <1>3, <1>4, <1>5

\* The entry the worker held is settled, and held by nobody else.
LEMMA WorkerGivesUpIndInv ==
  ASSUME IndInv, WorkerGivesUp
  PROVE  IndInv'
  <1> USE DEF IndInv, WorkerGivesUp
  <1>1. WorkerHolds /\ worker.op \in Operations /\ worker.op.entry \in Entries
    BY DEF Shape, WorkerHolds, Operations, Absent, Select, Left
  <1>2. Held(worker.op.entry) /\ worker.op.entry \in added \ (delivered \cup givenUp)
    BY <1>1 DEF Held, HeldIsOpen
  <1>3. Shape'
    BY <1>2 DEF Shape, Operations, Queued, Absent, Select, Left
  <1>4. HeldOnce'
    BY DEF Shape, HeldOnce, ManagerHolds, WorkerHolds, Absent, Select, Left
  <1>5. HeldIsOpen'
    BY <1>1, <1>2 DEF Shape, HeldOnce, HeldIsOpen, Held, ManagerHolds, WorkerHolds, Absent, Select, Left
  <1> QED
    BY <1>3, <1>4, <1>5

\* The operation passes from the worker to the back of the deque.
LEMMA WorkerRequeuesIndInv ==
  ASSUME IndInv, WorkerRequeues
  PROVE  IndInv'
  <1> USE DEF IndInv, WorkerRequeues, history
  <1> DEFINE op == [worker.op EXCEPT !.due = FALSE]
  <1>1. worker.op \in Operations
    BY DEF Shape, Absent, Select, Left
  <1>2. op \in Queued /\ op.entry = worker.op.entry
    <2>1. worker.op.attempts \in 0..(MaxAttempts - 1)
      BY <1>1, AttemptsAssumption DEF Operations
    <2> QED
      BY <1>1, <2>1 DEF Operations, Queued
  <1> HIDE DEF op
  <1>3. /\ q' \in Seq(Queued)
        /\ DOMAIN q' = DOMAIN q \cup {Len(q) + 1}
        /\ Len(q) + 1 \notin DOMAIN q
        /\ q'[Len(q) + 1] = op
        /\ \A i \in DOMAIN q : q'[i] = q[i]
    BY <1>2, PushBack DEF Shape, op
  <1>4. Shape'
    BY <1>3 DEF Shape, Operations, Queued, Absent, Select, Left
  <1>5. HeldOnce'
    BY <1>3, <1>2 DEF Shape, HeldOnce, ManagerHolds, WorkerHolds, Absent, Select, Left
  <1>6. HeldIsOpen'
    BY <1>3, <1>2 DEF Shape, HeldIsOpen, Held, ManagerHolds, WorkerHolds, Absent, Select, Left
  <1> QED
    BY <1>4, <1>5, <1>6

\* A process that ends leaves the reconciler as it is.
LEMMA ProcessEndsIndInv ==
  ASSUME IndInv, ProcessEnds
  PROVE  IndInv'
  <1> USE DEF IndInv, ProcessEnds
  <1>1. Shape'
    BY DEF Shape, reconciler, history
  <1>2. HeldOnce'
    BY DEF HeldOnce, ManagerHolds, WorkerHolds, reconciler, history
  <1>3. HeldIsOpen'
    BY DEF HeldIsOpen, Held, ManagerHolds, WorkerHolds, reconciler, history
  <1> QED
    BY <1>1, <1>2, <1>3

\* The signal changes nothing the goroutines hold.
LEMMA InterruptIndInv ==
  ASSUME IndInv, Interrupt
  PROVE  IndInv'
  <1> USE DEF IndInv, Interrupt
  <1>1. Shape'
    BY DEF Shape, reconciler, history
  <1>2. HeldOnce'
    BY DEF HeldOnce, ManagerHolds, WorkerHolds, reconciler, history
  <1>3. HeldIsOpen'
    BY DEF HeldIsOpen, Held, ManagerHolds, WorkerHolds, reconciler, history
  <1> QED
    BY <1>1, <1>2, <1>3

\* A step that changes none of the reconciler's variables keeps the invariant.
LEMMA StutterIndInv ==
  ASSUME IndInv, UNCHANGED reconcilerVars
  PROVE  IndInv'
  BY DEF IndInv, Shape, HeldOnce, HeldIsOpen, Held, ManagerHolds, WorkerHolds,
         reconcilerVars, reconciler, history

\* Every step of the goroutines, and of what surrounds them, keeps the
\* invariant.
LEMMA NextIndInv == IndInv /\ [ReconcilerNext]_reconcilerVars => IndInv'
  <1> SUFFICES ASSUME IndInv, [ReconcilerNext]_reconcilerVars PROVE IndInv'
    OBVIOUS
  <1>1. CASE StartReconciler BY <1>1, StartReconcilerIndInv
  <1>2. CASE ManagerSteps
    BY <1>2, ManagerPopsIndInv, ManagerPutsBackIndInv, ManagerOffersIndInv, HandoverIndInv
    DEF ManagerSteps
  <1>3. CASE WorkerSteps
    BY <1>3, WorkerDeliversIndInv, WorkerRequeuesIndInv, WorkerGivesUpIndInv, ProcessEndsIndInv
    DEF WorkerSteps, WorkerPanics
  <1>4. CASE ManagerLeaves \/ WorkerLeaves
    BY <1>4, ManagerLeavesIndInv, WorkerLeavesIndInv
  <1>5. CASE Interrupt \/ ProcessEnds
    BY <1>5, InterruptIndInv, ProcessEndsIndInv
  <1>6. ASSUME NEW e \in Entries, Add(e) PROVE IndInv'
    BY <1>6, AddIndInv
  <1>7. ASSUME NEW i \in DOMAIN q, Elapse(i) PROVE IndInv'
    BY <1>7, ElapseIndInv
  <1>8. CASE UNCHANGED reconcilerVars
    BY <1>8, StutterIndInv
  <1> QED
    BY <1>1, <1>2, <1>3, <1>4, <1>5, <1>6, <1>7, <1>8 DEF ReconcilerNext

\* The inductive invariant holds whatever surrounds the reconciler.
THEOREM ReconcilerInvariant == ReconcilerSpec => []IndInv
  BY InitIndInv, NextIndInv, PTL DEF ReconcilerSpec

-----------------------------------------------------------------------------
(* The refinement                                                          *)

\* What the invariant leaves of FateOf.
Fate(e) ==
  IF e \notin added THEN "new"
  ELSE IF e \in delivered THEN "delivered"
  ELSE IF e \in givenUp THEN "givenUp"
  ELSE IF up THEN "pending" ELSE "lost"

\* An entry that is held nowhere has no holder, and one that is held has one.
LEMMA HoldersOf ==
  ASSUME IndInv, NEW e \in Entries
  PROVE  /\ ~Held(e) => Holders(e) = {}
         /\ Held(e) => \E h : Holders(e) = {h}
  <1> USE DEF IndInv
  <1>1. ASSUME ~Held(e) PROVE Holders(e) = {}
    BY <1>1 DEF Held, Holders, ManagerHolds, WorkerHolds
  <1>2. ASSUME NEW i \in DOMAIN q, q[i].entry = e PROVE Holders(e) = {<<"q", i>>}
    BY <1>2 DEF HeldOnce, Holders, ManagerHolds, WorkerHolds
  <1>3. ASSUME ManagerHolds, manager.op.entry = e PROVE Holders(e) = {<<"manager", 0>>}
    BY <1>3 DEF HeldOnce, Holders, ManagerHolds, WorkerHolds
  <1>4. ASSUME WorkerHolds, worker.op.entry = e PROVE Holders(e) = {<<"worker", 0>>}
    BY <1>4 DEF HeldOnce, Holders, ManagerHolds, WorkerHolds
  <1> QED
    BY <1>1, <1>2, <1>3, <1>4 DEF Held

\* No entry is held twice, and none is forgotten: FateOf is what the history
\* says of the entry.
LEMMA FateOfIsFate ==
  ASSUME IndInv, NEW e \in Entries
  PROVE  FateOf(e) = Fate(e)
  <1>1. CASE Held(e)
    <2>1. PICK h : Holders(e) = {h}
      BY <1>1, HoldersOf
    <2>2. Cardinality(Holders(e)) = 1 /\ Holders(e) # {}
      BY <2>1, FS_Singleton
    <2>3. e \in added /\ e \notin delivered /\ e \notin givenUp
      BY <1>1 DEF IndInv, HeldIsOpen
    <2> QED
      BY <2>2, <2>3 DEF FateOf, Fate
  <1>2. CASE ~Held(e)
    <2>1. Holders(e) = {} /\ Cardinality(Holders(e)) # 1
      <3>1. Holders(e) = {} /\ Cardinality(Holders(e)) = 0
        BY <1>2, HoldersOf, FS_EmptySet
      <3> QED
        BY <3>1
    <2>2. e \notin added \/ e \in delivered \/ e \in givenUp
      BY <1>2 DEF IndInv, HeldIsOpen
    <2>3. e \notin delivered \/ e \notin givenUp
      BY DEF IndInv, HeldIsOpen
    <2>4. e \in delivered \/ e \in givenUp => e \in added
      BY DEF IndInv, Shape
    <2>5. CASE e \notin added
      BY <2>4, <2>5 DEF FateOf, Fate
    <2>6. CASE e \in delivered
      BY <2>1, <2>3, <2>4, <2>6 DEF FateOf, Fate
    <2>7. CASE e \in givenUp
      BY <2>1, <2>3, <2>4, <2>7 DEF FateOf, Fate
    <2> QED
      BY <2>2, <2>5, <2>6, <2>7
  <1> QED
    BY <1>1, <1>2

\* Each of the reconciler's steps accepts an entry, settles one, ends the
\* process or is invisible from outside.
LEMMA StepKeepsPromise ==
  ASSUME IndInv, [ReconcilerNext]_reconcilerVars,
         \A e \in Entries : FateOf(e) = Fate(e),
         \A e \in Entries : FateOf(e)' = Fate(e)'
  PROVE  [Promise!Next]_<<[e \in Entries |-> FateOf(e)], up>>
  <1> DEFINE fate == [e \in Entries |-> FateOf(e)]
  <1>1. /\ fate = [e \in Entries |-> Fate(e)]
        /\ fate' = [e \in Entries |-> Fate(e)']
    OBVIOUS
  <1> HIDE DEF fate
  <1>2. CASE UNCHANGED <<history, up>>
    BY <1>1, <1>2 DEF Fate, history, fate
  <1>3. ASSUME NEW e \in Entries, Add(e) PROVE Promise!Accept(e)
    <2>1. fate[e] = "new" /\ up /\ up' = up
      BY <1>1, <1>3 DEF Add, Fate
    <2>2. fate' = [fate EXCEPT ![e] = "pending"]
      BY <1>1, <1>3 DEF Add, Fate, IndInv, Shape
    <2> QED
      BY <2>1, <2>2 DEF Promise!Accept, fate
  <1>4. ASSUME WorkerDelivers \/ WorkerGivesUp
        PROVE  \E e \in Entries : Promise!Settle(e)
    <2> DEFINE e == worker.op.entry
    <2>1. e \in added /\ e \notin delivered /\ e \notin givenUp /\ e \in Entries
      <3>1. WorkerHolds /\ e \in Entries
        BY <1>4 DEF IndInv, Shape, WorkerDelivers, WorkerGivesUp, WorkerHolds, Operations,
                    Absent, Select, Left
      <3> QED
        BY <3>1 DEF IndInv, HeldIsOpen, Held
    <2>2. up /\ up' = up /\ fate[e] = "pending"
      BY <1>1, <1>4, <2>1 DEF WorkerDelivers, WorkerGivesUp, Fate
    <2>3. CASE WorkerDelivers
      <3>1. fate' = [fate EXCEPT ![e] = "delivered"]
        BY <1>1, <2>1, <2>3 DEF WorkerDelivers, Fate
      <3> QED
        BY <2>1, <2>2, <3>1 DEF Promise!Settle, fate
    <2>4. CASE WorkerGivesUp
      <3>1. fate' = [fate EXCEPT ![e] = "givenUp"]
        BY <1>1, <2>1, <2>4 DEF WorkerGivesUp, Fate
      <3> QED
        BY <2>1, <2>2, <3>1 DEF Promise!Settle, fate
    <2> QED
      BY <1>4, <2>3, <2>4
  <1>5. ASSUME ProcessEnds PROVE Promise!End
    <2>1. up /\ up' = FALSE /\ UNCHANGED history
      BY <1>5 DEF ProcessEnds, reconciler
    <2>2. fate' = [e \in Entries |-> IF fate[e] = "pending" THEN "lost" ELSE fate[e]]
      BY <1>1, <2>1 DEF Fate, history
    <2> QED
      BY <2>1, <2>2 DEF Promise!End, fate
  <1>6. \/ UNCHANGED <<history, up>>
        \/ \E e \in Entries : Add(e)
        \/ WorkerDelivers \/ WorkerGivesUp \/ ProcessEnds
    BY DEF ReconcilerNext, ManagerSteps, WorkerSteps, WorkerPanics, StartReconciler,
           Elapse, ManagerPops, ManagerPutsBack, ManagerOffers, Handover, ManagerLeaves,
           WorkerLeaves, WorkerRequeues, Interrupt, reconcilerVars, reconciler
  <1> QED
    BY <1>2, <1>3, <1>4, <1>5, <1>6 DEF Promise!Next

\* The reconciler keeps its promise, however many entries there are and
\* whatever surrounds it: each entry that Add took is in exactly one place
\* until it is delivered or given up, and only the end of the process loses
\* it (manager, worker, handleError).
THEOREM ReconcilerRefinement == ReconcilerSpec => KeepsPromise
  <1>1. ReconcilerInit => Promise!Init
    BY DEF ReconcilerInit, Promise!Init, FateOf
  <1>2. IndInv => \A e \in Entries : FateOf(e) = Fate(e)
    BY FateOfIsFate
  <1>3. /\ IndInv /\ [ReconcilerNext]_reconcilerVars
        /\ \A e \in Entries : FateOf(e) = Fate(e)
        /\ (\A e \in Entries : FateOf(e) = Fate(e))'
        => [Promise!Next]_<<[e \in Entries |-> FateOf(e)], up>>
    BY StepKeepsPromise
  <1> QED
    BY <1>1, <1>2, <1>3, ReconcilerInvariant, PTL
    DEF ReconcilerSpec, KeepsPromise, Promise!Spec

=============================================================================
