------------------------------ MODULE Reconciler ------------------------------
(***************************************************************************)
(* The goroutines of the HTTPReconciler (dsp/statemachine/reconciler.go):  *)
(* a manager that moves operations from the deque to an unbuffered         *)
(* channel, and a worker that takes them from it.  What the worker does    *)
(* with an operation is here only its outcome; NegotiationPeers and        *)
(* TransferPeers have the exchange itself, and fold the two goroutines     *)
(* into one step.                                                          *)
(***************************************************************************)
EXTENDS Naturals, Sequences, FiniteSets

CONSTANTS
  Entries,      \* the reconciliation entries the state machines may add
  MaxAttempts   \* attempts that fit into maxDuration

ASSUME AttemptsAssumption == MaxAttempts \in Nat \ {0}

VARIABLES
  q,          \* the deque, a sequence of operations
  manager,    \* what the manager goroutine is doing
  worker,     \* what the worker goroutine is doing
  added,      \* the entries Add was called with
  delivered,  \* the entries reconcileEntry got through with
  givenUp,    \* the entries terminate set the state of
  done,       \* whether the context is cancelled
  up          \* whether the process runs

history == <<added, delivered, givenUp>>
reconciler == <<q, manager, worker, history>>
reconcilerVars == <<reconciler, done, up>>

Absent == [pc |-> "absent"]
Select == [pc |-> "select"]
Left == [pc |-> "left"]

\* An operation, and one that has an attempt left.
Operations == [entry: Entries, attempts: 0..MaxAttempts, due: BOOLEAN]
Queued == [entry: Entries, attempts: 0..(MaxAttempts - 1), due: BOOLEAN]

-----------------------------------------------------------------------------

\* NewReconciler and Run.
StartReconciler ==
  /\ up /\ manager = Absent
  /\ manager' = Select /\ worker' = Select
  /\ UNCHANGED <<q, history, done, up>>

Add(e) ==
  /\ up /\ e \notin added
  /\ q' = Append(q, [entry |-> e, attempts |-> 0, due |-> TRUE])
  /\ added' = added \cup {e}
  /\ UNCHANGED <<manager, worker, delivered, givenUp, done, up>>

\* The worker has not got entry e yet.
Untried(e) ==
  \/ e \notin added
  \/ \E i \in DOMAIN q : q[i].entry = e /\ q[i].attempts = 0
  \/ manager.pc = "popped" /\ manager.op.entry = e /\ manager.op.attempts = 0
  \/ manager.pc = "send" /\ manager.op.entry = e /\ manager.op.attempts = 1

\* Time passes NextAttempt of the operation at place i.
Elapse(i) ==
  /\ up /\ ~q[i].due
  /\ q' = [q EXCEPT ![i].due = TRUE]
  /\ UNCHANGED <<manager, worker, history, done, up>>

\* manager: a tick finds the deque non-empty.
ManagerPops ==
  /\ up /\ manager = Select /\ q # <<>>
  /\ manager' = [pc |-> "popped", op |-> Head(q)]
  /\ q' = Tail(q)
  /\ UNCHANGED <<worker, history, done, up>>

\* manager: the operation goes back, it is not due.  The deque was unlocked
\* in between.
ManagerPutsBack ==
  /\ up /\ manager.pc = "popped" /\ ~manager.op.due
  /\ q' = Append(q, manager.op)
  /\ manager' = Select
  /\ UNCHANGED <<worker, history, done, up>>

\* Mutant: Attempts is not incremented.
ManagerOffersUncounted ==
  /\ up /\ manager.pc = "popped" /\ manager.op.due
  /\ manager' = [pc |-> "send", op |-> manager.op]
  /\ UNCHANGED <<q, worker, history, done, up>>

\* manager: the operation is due, and from now on the manager can do nothing
\* but hand it over.
ManagerOffers ==
  /\ up /\ manager.pc = "popped" /\ manager.op.due
  /\ manager' = [pc |-> "send", op |-> [manager.op EXCEPT !.attempts = @ + 1]]
  /\ UNCHANGED <<q, worker, history, done, up>>

\* The two goroutines meet at the channel.
Handover ==
  /\ up /\ manager.pc = "send" /\ worker = Select
  /\ worker' = [pc |-> "busy", op |-> manager.op]
  /\ manager' = Select
  /\ UNCHANGED <<q, history, done, up>>

\* The goroutines see the cancelled context only in their select, where it
\* competes with the ticker and with the channel.
ManagerLeaves ==
  /\ up /\ done /\ manager = Select
  /\ manager' = Left
  /\ UNCHANGED <<q, worker, history, done, up>>

WorkerLeaves ==
  /\ up /\ done /\ worker = Select
  /\ worker' = Left
  /\ UNCHANGED <<q, manager, history, done, up>>

\* reconcileEntry reaches the end.
WorkerDelivers ==
  /\ up /\ worker.pc = "busy"
  /\ delivered' = delivered \cup {worker.op.entry}
  /\ worker' = Select
  /\ UNCHANGED <<q, manager, added, givenUp, done, up>>

\* Mutant: the comparison with the limit is off by one.
WorkerRequeuesOnceMore ==
  /\ up /\ worker.pc = "busy" /\ worker.op.attempts <= MaxAttempts
  /\ q' = Append(q, [worker.op EXCEPT !.due = FALSE])
  /\ worker' = Select
  /\ UNCHANGED <<manager, history, done, up>>

\* Mutant: the operation is queued but also kept in the channel.
WorkerRequeuesTwice ==
  /\ up /\ worker.pc = "busy" /\ worker.op.attempts < MaxAttempts
  /\ LET op == [worker.op EXCEPT !.due = FALSE] IN q' = q \o <<op, op>>
  /\ worker' = Select
  /\ UNCHANGED <<manager, history, done, up>>

\* handleError: there is time for another attempt.
WorkerRequeues ==
  /\ up /\ worker.pc = "busy" /\ worker.op.attempts < MaxAttempts
  /\ q' = Append(q, [worker.op EXCEPT !.due = FALSE])
  /\ worker' = Select
  /\ UNCHANGED <<manager, history, done, up>>

\* handleError: there is not, and terminate succeeds.  Slow exchanges can use
\* up maxDuration at any attempt.
WorkerGivesUp ==
  /\ up /\ worker.pc = "busy"
  /\ givenUp' = givenUp \cup {worker.op.entry}
  /\ worker' = Select
  /\ UNCHANGED <<q, manager, added, delivered, done, up>>

\* The process ends: it panics, is killed, or Run returns.
ProcessEnds ==
  /\ up /\ up' = FALSE
  /\ UNCHANGED <<reconciler, done>>

\* terminate panics after ten attempts.
WorkerPanics == worker.pc = "busy" /\ ProcessEnds

\* The signal that signal.NotifyContext waits for.
Interrupt ==
  /\ up /\ ~done /\ done' = TRUE
  /\ UNCHANGED <<reconciler, up>>

-----------------------------------------------------------------------------

ReconcilerInit ==
  /\ q = <<>> /\ manager = Absent /\ worker = Absent
  /\ added = {} /\ delivered = {} /\ givenUp = {}
  /\ done = FALSE /\ up = TRUE

ManagerSteps == ManagerPops \/ ManagerPutsBack \/ ManagerOffers \/ Handover

WorkerSteps == WorkerDelivers \/ WorkerRequeues \/ WorkerGivesUp \/ WorkerPanics

\* The reconciler in a process of which nothing else is known.
ReconcilerNext ==
  \/ StartReconciler \/ ManagerSteps \/ ManagerLeaves \/ WorkerSteps \/ WorkerLeaves
  \/ Interrupt \/ ProcessEnds
  \/ \E e \in Entries : Add(e)
  \/ \E i \in DOMAIN q : Elapse(i)

ReconcilerSpec == ReconcilerInit /\ [][ReconcilerNext]_reconcilerVars

\* The goroutines run while the process does; Go's select chooses at random
\* among the cases that are ready, so it takes each of them in the end.  Time
\* passes, also while the manager holds an operation that is not due.  The
\* worker waits as long as the peer does not answer: its requests have no
\* timeout, and no signal cancels them.
ReconcilerFairness ==
  /\ WF_reconcilerVars(ManagerSteps)
  /\ SF_reconcilerVars(\E i \in DOMAIN q : Elapse(i))
  /\ SF_reconcilerVars(ManagerLeaves) /\ SF_reconcilerVars(WorkerLeaves)

-----------------------------------------------------------------------------
(* The reconciler implements Outbox                                        *)

\* Where entry e is held.
Holders(e) ==
  {<<"q", i>> : i \in {j \in DOMAIN q : q[j].entry = e}}
    \cup {h \in {<<"manager", 0>>} : manager.pc \in {"popped", "send"} /\ manager.op.entry = e}
    \cup {h \in {<<"worker", 0>>} : worker.pc = "busy" /\ worker.op.entry = e}

\* An entry that is held twice, or nowhere, counts as lost.
FateOf(e) ==
  CASE e \notin added -> "new"
    [] e \in delivered /\ Holders(e) = {} -> "delivered"
    [] e \in givenUp /\ Holders(e) = {} -> "givenUp"
    [] e \in added /\ up /\ Cardinality(Holders(e)) = 1 -> "pending"
    [] OTHER -> "lost"

Promise == INSTANCE Outbox WITH fate <- [e \in Entries |-> FateOf(e)], running <- up

\* Every entry that Add took is in exactly one place, the deque, the channel
\* or the worker's hands, until it is delivered or given up; only the end of
\* the process loses it (manager, worker, handleError).
KeepsPromise == Promise!Spec

=============================================================================
