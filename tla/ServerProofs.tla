----------------------------- MODULE ServerProofs -----------------------------
(***************************************************************************)
(* Proofs about Server for any requests, calls and entries, one or two     *)
(* HTTP services and any number of attempts.                               *)
(***************************************************************************)
EXTENDS Server, ReconcilerProofs

\* What the server does with the reconciler are the reconciler's own steps.
LEMMA ServerStepsReconciler == [Next]_vars => [ReconcilerNext]_reconcilerVars
  <1> SUFFICES ASSUME [Next]_vars PROVE [ReconcilerNext]_reconcilerVars
    OBVIOUS
  <1>1. CASE Start
    BY <1>1 DEF Start, SetupFails, Setup, StartControl, StartFails, Launch, AddServices,
                Return, ReconcilerNext
  <1>2. CASE Stop
    BY <1>2 DEF Stop, ReconcilerEnded, ShutdownBegins, ShutdownReturns, Check, Wait,
                Return, ReconcilerNext
  <1>3. CASE GracefulStop \/ ControlEnds
    BY <1>3 DEF GracefulStop, ControlEnds, Done, ReconcilerNext
  <1>4. ASSUME NEW i \in 1..Services, Listen(i) \/ ListenReturns(i)
        PROVE  [ReconcilerNext]_reconcilerVars
    BY <1>4 DEF Listen, ListenReturns, Done, ReconcilerNext
  <1>5. ASSUME NEW r \in Requests, Handle(r) \/ RequestArrives(r)
        PROVE  [ReconcilerNext]_reconcilerVars
    BY <1>5, EntriesAssumption
    DEF Handle, RequestApplies, RequestAnswered, SpawnedApplies, RequestArrives, ReconcilerNext
  <1>6. ASSUME NEW c \in Calls, Call(c) \/ CallArrives(c) \/ CallCancelled(c)
        PROVE  [ReconcilerNext]_reconcilerVars
    BY <1>6, EntriesAssumption
    DEF Call, CallApplies, CallGoesOn, CallReturns, CallAborts, CallArrives, CallCancelled,
        ReconcilerNext
  <1>7. CASE Reconcile
    BY <1>7 DEF Reconcile, Commit, WorkerSteps, ReconcilerNext
  <1>8. CASE Interrupt \/ ProcessEnds
    BY <1>8 DEF ReconcilerNext
  <1>9. CASE UNCHANGED vars
    BY <1>9 DEF vars
  <1> QED
    BY <1>1, <1>2, <1>3, <1>4, <1>5, <1>6, <1>7, <1>8, <1>9 DEF Next, Goroutines, Environment

\* The reconciler of the process is the reconciler that Reconciler describes.
THEOREM ServerRunsReconciler == Spec => ReconcilerSpec
  <1>1. Init => ReconcilerInit
    BY DEF Init
  <1> QED
    BY <1>1, ServerStepsReconciler, PTL DEF Spec, ReconcilerSpec

\* In a whole process, from its start through any shutdown, no message that a
\* handler or a call has left with the reconciler is held twice or forgotten
\* before the process ends (manager, worker, handleError, Run).
THEOREM ServerKeepsPromise == Spec => KeepsPromise
  BY ServerRunsReconciler, ReconcilerRefinement

-----------------------------------------------------------------------------

(* Run and its goroutines                                                  *)

Stopping == {"shutdown", "closing", "check", "wait"}

\* The variables of Run, the servers and the clients have their types.
ProcessTypes ==
  /\ main \in {"setup", "control", "configure", "launched", "reconciling", "returned"}
                \cup Stopping
  /\ service \in 1..Services
  /\ wg \in -1..(Services + 1)
  /\ http \in [1..Services -> {"absent", "launched", "listening", "closed", "ended"}]
  /\ grpc \in {"absent", "serving", "stopping", "stopped"}
  /\ request \in [Requests -> {"new", "serving", "applied", "answered"}]
  /\ call \in [Calls -> {"new", "contract", "negotiating", "transfer", "requesting", "ended"}]
  /\ row \in [Calls -> {"open", "reached", "terminated", "over"}]
  /\ spawned \subseteq Requests

\* How far Run is says which goroutines there are.
Phases ==
  /\ main = "setup" => manager = Absent
  /\ main \in Stopping => worker = Left
  /\ main \in {"setup", "control"} => grpc = "absent"
  /\ main \notin {"setup", "control", "returned"} => grpc # "absent"
  /\ main \in {"setup", "control", "configure"} => \A i \in 1..Services : http[i] = "absent"
  /\ main = "returned" => ~up
  /\ main \notin Stopping \cup {"returned"} => service = 1

\* Only a server that takes requests, or calls, has some to serve.
ServersServe ==
  /\ http[1] \in {"absent", "launched"} => Serving = {}
  /\ grpc \in {"absent", "stopped"} => InCall = {}

\* Run goes on past the shutdown of the dataspace server only when it has
\* nothing left to serve, and nothing arrives any more.
DataspaceShut ==
  LET past == main = "wait" \/ (main \in Stopping /\ service = 2)
  IN  /\ past \/ main \in {"closing", "check"} => http[1] \in {"closed", "ended"}
      /\ past \/ (main = "check" /\ err = "nil") => Serving = {}

ProcessInv ==
  ProcessTypes /\ Phases /\ GoroutinesCounted /\ ServersServe /\ DataspaceShut /\ NothingCutOff

ServerInv == IndInv /\ ProcessInv

\* Nothing runs when the process starts.
LEMMA InitProcessInv == Init => ProcessInv
  <1> SUFFICES ASSUME Init PROVE ProcessInv
    OBVIOUS
  <1>1. ProcessTypes
    BY ServicesAssumption DEF Init, ProcessTypes, Stopping
  <1>2. Phases /\ GoroutinesCounted
    BY ServicesAssumption
    DEF Init, ReconcilerInit, Phases, GoroutinesCounted, Ended, Controls, Counted, Stopping
  <1>3. ServersServe /\ DataspaceShut /\ NothingCutOff
    BY DEF Init, ServersServe, DataspaceShut, NothingCutOff, Serving, InCall, Stopping
  <1> QED
    BY <1>1, <1>2, <1>3 DEF ProcessInv

\* Run returns before anything was started.
LEMMA SetupFailsProcessInv ==
  ASSUME ServerInv, SetupFails
  PROVE  ProcessInv'
  <1> USE DEF ServerInv, ProcessInv, SetupFails, Return, ProcessEnds, reconcilerVars, reconciler, history, process, servers, clients
  <1>1. ProcessTypes'
    BY ServicesAssumption DEF ProcessTypes, Stopping
  <1>2. Phases'
    BY ServicesAssumption DEF ProcessTypes, Phases, Stopping
  <1>3. GoroutinesCounted'
    BY ServicesAssumption DEF ProcessTypes, Phases, GoroutinesCounted, Ended, Controls, Counted, Stopping
  <1>4. ServersServe'
    BY DEF ProcessTypes, Phases, ServersServe, Serving, InCall
  <1>5. DataspaceShut'
    BY DEF ProcessTypes, DataspaceShut, Serving, Stopping
  <1>6. NothingCutOff'
    <2>1. Serving = {} /\ InCall = {} /\ worker = Absent
      BY ServicesAssumption DEF Phases, ServersServe, IndInv, Shape
    <2> QED
      BY <2>1 DEF NothingCutOff, Serving, InCall
  <1> QED
    BY <1>1, <1>2, <1>3, <1>4, <1>5, <1>6

\* The reconciler is started before the control service.
LEMMA SetupProcessInv ==
  ASSUME ServerInv, Setup
  PROVE  ProcessInv'
  <1> USE DEF ServerInv, ProcessInv, Setup, StartReconciler, servers, clients, history
  <1>1. ProcessTypes'
    BY ServicesAssumption DEF ProcessTypes, Stopping
  <1>2. Phases'
    BY ServicesAssumption DEF ProcessTypes, Phases, Stopping
  <1>3. GoroutinesCounted'
    BY ServicesAssumption DEF ProcessTypes, Phases, GoroutinesCounted, Ended, Controls, Counted, Stopping
  <1>4. ServersServe'
    BY DEF ProcessTypes, Phases, ServersServe, Serving, InCall
  <1>5. DataspaceShut'
    BY DEF ProcessTypes, DataspaceShut, Serving, Stopping
  <1>6. NothingCutOff'
    BY DEF ProcessTypes, NothingCutOff, Phases, Serving, InCall
  <1> QED
    BY <1>1, <1>2, <1>3, <1>4, <1>5, <1>6

\* The control service is counted before it is started.
LEMMA StartControlProcessInv ==
  ASSUME ServerInv, StartControl
  PROVE  ProcessInv'
  <1> USE DEF ServerInv, ProcessInv, StartControl, reconcilerVars, reconciler, history, clients
  <1>1. ProcessTypes'
    BY ServicesAssumption DEF ProcessTypes, Phases, GoroutinesCounted, Ended, Controls, Counted, Stopping
  <1>2. Phases'
    BY ServicesAssumption DEF ProcessTypes, Phases, Stopping
  <1>3. GoroutinesCounted'
    BY ServicesAssumption DEF ProcessTypes, Phases, GoroutinesCounted, Ended, Controls, Counted, Stopping
  <1>4. ServersServe'
    BY DEF ProcessTypes, Phases, ServersServe, Serving, InCall
  <1>5. DataspaceShut'
    BY DEF ProcessTypes, DataspaceShut, Serving, Stopping
  <1>6. NothingCutOff'
    BY DEF ProcessTypes, NothingCutOff, Phases, Serving, InCall
  <1> QED
    BY <1>1, <1>2, <1>3, <1>4, <1>5, <1>6

\* Run returns the error of a setup step.
LEMMA StartFailsProcessInv ==
  ASSUME ServerInv, StartFails
  PROVE  ProcessInv'
  <1> USE DEF ServerInv, ProcessInv, StartFails, Return, ProcessEnds, reconcilerVars, reconciler, history, process, servers, clients
  <1>1. ProcessTypes'
    BY ServicesAssumption DEF ProcessTypes, Stopping
  <1>2. Phases'
    BY ServicesAssumption DEF ProcessTypes, Phases, Stopping
  <1>3. GoroutinesCounted'
    BY ServicesAssumption DEF ProcessTypes, Phases, GoroutinesCounted, Ended, Controls, Counted, Stopping
  <1>4. ServersServe'
    BY DEF ProcessTypes, Phases, ServersServe, Serving, InCall
  <1>5. DataspaceShut'
    BY DEF ProcessTypes, DataspaceShut, Serving, Stopping
  <1>6. NothingCutOff'
    BY DEF ProcessTypes, NothingCutOff, Phases, Serving, InCall
  <1> QED
    BY <1>1, <1>2, <1>3, <1>4, <1>5, <1>6

\* The HTTP services start to run uncounted.
LEMMA LaunchProcessInv ==
  ASSUME ServerInv, Launch
  PROVE  ProcessInv'
  <1> USE DEF ServerInv, ProcessInv, Launch, reconcilerVars, reconciler, history, clients
  <1>1. ProcessTypes'
    BY ServicesAssumption DEF ProcessTypes, Stopping
  <1>2. Phases'
    BY ServicesAssumption DEF ProcessTypes, Phases, Stopping
  <1>3. GoroutinesCounted'
    BY ServicesAssumption DEF ProcessTypes, Phases, GoroutinesCounted, Ended, Controls, Counted, Stopping
  <1>4. ServersServe'
    BY ServicesAssumption DEF ProcessTypes, Phases, ServersServe, Serving, InCall
  <1>5. DataspaceShut'
    BY DEF ProcessTypes, DataspaceShut, Serving, Stopping
  <1>6. NothingCutOff'
    BY DEF ProcessTypes, NothingCutOff, Phases, Serving, InCall
  <1> QED
    BY <1>1, <1>2, <1>3, <1>4, <1>5, <1>6

\* Run counts the HTTP services, of which some may have ended.
LEMMA AddServicesProcessInv ==
  ASSUME ServerInv, AddServices
  PROVE  ProcessInv'
  <1> USE DEF ServerInv, ProcessInv, AddServices, reconcilerVars, reconciler, history, servers, clients
  <1>1. ProcessTypes'
    BY ServicesAssumption DEF ProcessTypes, Phases, GoroutinesCounted, Ended, Controls, Counted, Stopping
  <1>2. Phases'
    BY ServicesAssumption DEF ProcessTypes, Phases, Stopping
  <1>3. GoroutinesCounted'
    BY ServicesAssumption DEF ProcessTypes, Phases, GoroutinesCounted, Ended, Controls, Counted, Stopping
  <1>4. ServersServe'
    BY DEF ProcessTypes, Phases, ServersServe, Serving, InCall
  <1>5. DataspaceShut'
    BY DEF ProcessTypes, DataspaceShut, Serving, Stopping
  <1>6. NothingCutOff'
    BY DEF ProcessTypes, NothingCutOff, Phases, Serving, InCall
  <1> QED
    BY <1>1, <1>2, <1>3, <1>4, <1>5, <1>6

\* A service listens, and requests can arrive.
LEMMA ListenProcessInv ==
  ASSUME NEW i \in 1..Services, ServerInv, Listen(i)
  PROVE  ProcessInv'
  <1> USE DEF ServerInv, ProcessInv, Listen, reconcilerVars, reconciler, history, process, clients
  <1>1. ProcessTypes'
    BY ServicesAssumption DEF ProcessTypes, Stopping
  <1>2. Phases'
    BY ServicesAssumption DEF ProcessTypes, Phases, Stopping
  <1>3. GoroutinesCounted'
    BY ServicesAssumption DEF ProcessTypes, Phases, GoroutinesCounted, Ended, Controls, Counted, Stopping
  <1>4. ServersServe'
    BY DEF ProcessTypes, Phases, ServersServe, Serving, InCall
  <1>5. DataspaceShut'
    BY DEF ProcessTypes, DataspaceShut, Serving, Stopping
  <1>6. NothingCutOff'
    BY DEF ProcessTypes, NothingCutOff, Phases, Serving, InCall
  <1> QED
    BY <1>1, <1>2, <1>3, <1>4, <1>5, <1>6

\* A service ends, and the process with it if it was not counted yet.
LEMMA ListenReturnsProcessInv ==
  ASSUME NEW i \in 1..Services, ServerInv, ListenReturns(i)
  PROVE  ProcessInv'
  <1> USE DEF ServerInv, ProcessInv, ListenReturns, Done, ProcessEnds, reconcilerVars, reconciler, history, clients
  <1>1. ProcessTypes'
    BY ServicesAssumption DEF ProcessTypes, Phases, GoroutinesCounted, Ended, Controls, Counted, Stopping
  <1>2. Phases'
    BY ServicesAssumption DEF ProcessTypes, Phases, Stopping
  <1>3. GoroutinesCounted'
    <2>1. CASE wg > 0
      <3>1. Ended(1)' + Ended(2)' = Ended(1) + Ended(2) + 1
        BY ServicesAssumption DEF ProcessTypes, Ended
      <3>2. wg' = wg - 1 /\ Controls' = Controls /\ Counted' = Counted /\ up' = up
        BY <2>1 DEF Controls, Counted
      <3>3. /\ wg \in Int /\ Controls \in Int /\ Counted \in Int
            /\ \A j \in {1, 2} : Ended(j) \in Int /\ Ended(j)' \in Int
        BY ServicesAssumption DEF ProcessTypes, Controls, Counted, Ended
      <3> QED
        BY <2>1, <3>1, <3>2, <3>3 DEF GoroutinesCounted
    <2>2. CASE ~(wg > 0)
      <3>1. wg = 0
        BY <2>2 DEF ProcessTypes, GoroutinesCounted
      <3> QED
        BY <3>1, <2>2, ServicesAssumption
        DEF ProcessTypes, Phases, GoroutinesCounted, Ended, Controls, Counted, Stopping
    <2> QED
      BY <2>1, <2>2
  <1>4. ServersServe'
    BY DEF ProcessTypes, Phases, ServersServe, Serving, InCall
  <1>5. DataspaceShut'
    BY DEF ProcessTypes, DataspaceShut, Serving, Stopping
  <1>6. NothingCutOff'
    BY DEF ProcessTypes, NothingCutOff, Phases, Serving, InCall
  <1> QED
    BY <1>1, <1>2, <1>3, <1>4, <1>5, <1>6

\* The control service takes no more calls.
LEMMA GracefulStopProcessInv ==
  ASSUME ServerInv, GracefulStop
  PROVE  ProcessInv'
  <1> USE DEF ServerInv, ProcessInv, GracefulStop, reconcilerVars, reconciler, history, process, clients
  <1>1. ProcessTypes'
    BY ServicesAssumption DEF ProcessTypes, Stopping
  <1>2. Phases'
    BY ServicesAssumption DEF ProcessTypes, Phases, Stopping
  <1>3. GoroutinesCounted'
    BY ServicesAssumption DEF ProcessTypes, Phases, GoroutinesCounted, Ended, Controls, Counted, Stopping
  <1>4. ServersServe'
    BY DEF ProcessTypes, Phases, ServersServe, Serving, InCall
  <1>5. DataspaceShut'
    BY DEF ProcessTypes, DataspaceShut, Serving, Stopping
  <1>6. NothingCutOff'
    BY DEF ProcessTypes, NothingCutOff, Phases, Serving, InCall
  <1> QED
    BY <1>1, <1>2, <1>3, <1>4, <1>5, <1>6

\* The control service ends when no call is left.
LEMMA ControlEndsProcessInv ==
  ASSUME ServerInv, ControlEnds
  PROVE  ProcessInv'
  <1> USE DEF ServerInv, ProcessInv, ControlEnds, Done, ProcessEnds, reconcilerVars, reconciler, history, clients
  <1>1. ProcessTypes'
    BY ServicesAssumption DEF ProcessTypes, Phases, GoroutinesCounted, Ended, Controls, Counted, Stopping
  <1>2. Phases'
    BY ServicesAssumption DEF ProcessTypes, Phases, Stopping
  <1>3. GoroutinesCounted'
    <2>1. CASE wg > 0
      BY <2>1, ServicesAssumption
      DEF ProcessTypes, Phases, GoroutinesCounted, Ended, Controls, Counted, Stopping
    <2>2. CASE ~(wg > 0)
      <3>1. wg = 0
        BY <2>2 DEF ProcessTypes, GoroutinesCounted
      <3> QED
        BY <3>1, <2>2, ServicesAssumption
        DEF ProcessTypes, Phases, GoroutinesCounted, Ended, Controls, Counted, Stopping
    <2> QED
      BY <2>1, <2>2
  <1>4. ServersServe'
    BY DEF ProcessTypes, Phases, ServersServe, Serving, InCall
  <1>5. DataspaceShut'
    BY DEF ProcessTypes, DataspaceShut, Serving, Stopping
  <1>6. NothingCutOff'
    BY DEF ProcessTypes, NothingCutOff, Phases, Serving, InCall
  <1> QED
    BY <1>1, <1>2, <1>3, <1>4, <1>5, <1>6

\* Run shuts the services down after both goroutines have left.
LEMMA ReconcilerEndedProcessInv ==
  ASSUME ServerInv, ReconcilerEnded
  PROVE  ProcessInv'
  <1> USE DEF ServerInv, ProcessInv, ReconcilerEnded, reconcilerVars, reconciler, history, servers, clients
  <1>1. ProcessTypes'
    BY ServicesAssumption DEF ProcessTypes, Stopping
  <1>2. Phases'
    BY ServicesAssumption DEF ProcessTypes, Phases, Stopping
  <1>3. GoroutinesCounted'
    BY ServicesAssumption DEF ProcessTypes, Phases, GoroutinesCounted, Ended, Controls, Counted, Stopping
  <1>4. ServersServe'
    BY DEF ProcessTypes, Phases, ServersServe, Serving, InCall
  <1>5. DataspaceShut'
    BY ServicesAssumption DEF ProcessTypes, Phases, DataspaceShut, Stopping
  <1>6. NothingCutOff'
    BY DEF ProcessTypes, NothingCutOff, Phases, Serving, InCall
  <1> QED
    BY <1>1, <1>2, <1>3, <1>4, <1>5, <1>6

\* Shutdown closes the listener for good.
LEMMA ShutdownBeginsProcessInv ==
  ASSUME ServerInv, ShutdownBegins
  PROVE  ProcessInv'
  <1> USE DEF ServerInv, ProcessInv, ShutdownBegins, reconcilerVars, reconciler, history, clients
  <1>1. ProcessTypes'
    BY ServicesAssumption DEF ProcessTypes, Stopping
  <1>2. Phases'
    BY ServicesAssumption DEF ProcessTypes, Phases, Stopping
  <1>3. GoroutinesCounted'
    BY ServicesAssumption DEF ProcessTypes, Phases, GoroutinesCounted, Ended, Controls, Counted, Stopping
  <1>4. ServersServe'
    BY DEF ProcessTypes, Phases, ServersServe, Serving, InCall
  <1>5. DataspaceShut'
    BY ServicesAssumption DEF ProcessTypes, DataspaceShut, Serving, Stopping
  <1>6. NothingCutOff'
    BY DEF ProcessTypes, NothingCutOff, Phases, Serving, InCall
  <1> QED
    BY <1>1, <1>2, <1>3, <1>4, <1>5, <1>6

\* Shutdown reports the requests it did not wait for.
LEMMA ShutdownReturnsProcessInv ==
  ASSUME ServerInv, ShutdownReturns
  PROVE  ProcessInv'
  <1> USE DEF ServerInv, ProcessInv, ShutdownReturns, reconcilerVars, reconciler, history, servers, clients
  <1>1. ProcessTypes'
    BY ServicesAssumption DEF ProcessTypes, Stopping
  <1>2. Phases'
    BY ServicesAssumption DEF ProcessTypes, Phases, Stopping
  <1>3. GoroutinesCounted'
    BY ServicesAssumption DEF ProcessTypes, Phases, GoroutinesCounted, Ended, Controls, Counted, Stopping
  <1>4. ServersServe'
    BY DEF ProcessTypes, Phases, ServersServe, Serving, InCall
  <1>5. DataspaceShut'
    BY ServicesAssumption DEF ProcessTypes, DataspaceShut, Serving, Stopping
  <1>6. NothingCutOff'
    BY DEF ProcessTypes, NothingCutOff, Phases, Serving, InCall
  <1> QED
    BY <1>1, <1>2, <1>3, <1>4, <1>5, <1>6

\* Run goes on only when err is nil.
LEMMA CheckProcessInv ==
  ASSUME ServerInv, Check
  PROVE  ProcessInv'
  <1> USE DEF ServerInv, ProcessInv, Check, Return, ProcessEnds, reconcilerVars, reconciler, history, process, servers, clients
  <1>1. ProcessTypes'
    <2>1. CASE err # "nil"
      BY <2>1 DEF ProcessTypes, Stopping
    <2>2. CASE err = "nil"
      BY <2>2, ServicesAssumption DEF ProcessTypes, Stopping
    <2> QED
      BY <2>1, <2>2
  <1>2. Phases'
    BY ServicesAssumption DEF ProcessTypes, Phases, Stopping
  <1>3. GoroutinesCounted'
    BY ServicesAssumption DEF ProcessTypes, Phases, GoroutinesCounted, Ended, Controls, Counted, Stopping
  <1>4. ServersServe'
    BY DEF ProcessTypes, Phases, ServersServe, Serving, InCall
  <1>5. DataspaceShut'
    BY DEF ProcessTypes, DataspaceShut, Serving, Stopping
  <1>6. NothingCutOff'
    BY DEF ProcessTypes, NothingCutOff, Phases, Serving, InCall
  <1> QED
    BY <1>1, <1>2, <1>3, <1>4, <1>5, <1>6

\* Run returns when no goroutine is left.
LEMMA WaitProcessInv ==
  ASSUME ServerInv, Wait
  PROVE  ProcessInv'
  <1> USE DEF ServerInv, ProcessInv, Wait, Return, ProcessEnds, reconcilerVars, reconciler, history, process, servers, clients
  <1>1. ProcessTypes'
    BY ServicesAssumption DEF ProcessTypes, Stopping
  <1>2. Phases'
    BY ServicesAssumption DEF ProcessTypes, Phases, Stopping
  <1>3. GoroutinesCounted'
    BY ServicesAssumption DEF ProcessTypes, Phases, GoroutinesCounted, Ended, Controls, Counted, Stopping
  <1>4. ServersServe'
    BY DEF ProcessTypes, Phases, ServersServe, Serving, InCall
  <1>5. DataspaceShut'
    BY DEF ProcessTypes, DataspaceShut, Serving, Stopping
  <1>6. NothingCutOff'
    <2>1. grpc = "stopped" /\ worker = Left
      BY ServicesAssumption
      DEF ProcessTypes, Phases, GoroutinesCounted, Ended, Controls, Counted, Stopping
    <2>2. Serving = {} /\ InCall = {}
      BY <2>1 DEF ServersServe, DataspaceShut
    <2> QED
      BY <2>1, <2>2 DEF NothingCutOff, Serving, InCall
  <1> QED
    BY <1>1, <1>2, <1>3, <1>4, <1>5, <1>6

\* A request arrives at the dataspace server while it listens.
LEMMA RequestArrivesProcessInv ==
  ASSUME NEW r \in Requests, ServerInv, RequestArrives(r)
  PROVE  ProcessInv'
  <1> USE DEF ServerInv, ProcessInv, RequestArrives, reconcilerVars, reconciler, history, process, servers, clients
  <1>1. ProcessTypes'
    BY ServicesAssumption DEF ProcessTypes, Stopping
  <1>2. Phases'
    BY ServicesAssumption DEF ProcessTypes, Phases, Stopping
  <1>3. GoroutinesCounted'
    BY ServicesAssumption DEF ProcessTypes, Phases, GoroutinesCounted, Ended, Controls, Counted, Stopping
  <1>4. ServersServe'
    BY DEF ProcessTypes, Phases, ServersServe, Serving, InCall
  <1>5. DataspaceShut'
    BY DEF ProcessTypes, DataspaceShut, Serving, Stopping
  <1>6. NothingCutOff'
    BY DEF ProcessTypes, NothingCutOff, Phases, Serving, InCall
  <1> QED
    BY <1>1, <1>2, <1>3, <1>4, <1>5, <1>6

\* A handler applies while it is being served.
LEMMA RequestAppliesProcessInv ==
  ASSUME NEW r \in Requests, ServerInv, RequestApplies(r)
  PROVE  ProcessInv'
  <1> USE DEF ServerInv, ProcessInv, RequestApplies, Add, reconcilerVars, reconciler, history, process, servers, clients
  <1>1. ProcessTypes'
    BY ServicesAssumption DEF ProcessTypes, Stopping
  <1>2. Phases'
    BY ServicesAssumption DEF ProcessTypes, Phases, Stopping
  <1>3. GoroutinesCounted'
    BY ServicesAssumption DEF ProcessTypes, Phases, GoroutinesCounted, Ended, Controls, Counted, Stopping
  <1>4. ServersServe'
    BY DEF ProcessTypes, Phases, ServersServe, Serving, InCall
  <1>5. DataspaceShut'
    BY DEF ProcessTypes, DataspaceShut, Serving, Stopping
  <1>6. NothingCutOff'
    BY DEF ProcessTypes, NothingCutOff, Phases, Serving, InCall
  <1> QED
    BY <1>1, <1>2, <1>3, <1>4, <1>5, <1>6

\* A request is answered.
LEMMA RequestAnsweredProcessInv ==
  ASSUME NEW r \in Requests, ServerInv, RequestAnswered(r)
  PROVE  ProcessInv'
  <1> USE DEF ServerInv, ProcessInv, RequestAnswered, reconcilerVars, reconciler, history, process, servers, clients
  <1>1. ProcessTypes'
    <2>1. row' = row \/ \E c \in Calls, s \in {"reached", "terminated", "over"} :
                         row' = [row EXCEPT ![c] = s]
      BY DEF StoreReceived, Received, Polling
    <2> QED
      BY <2>1, ServicesAssumption DEF ProcessTypes, Stopping
  <1>2. Phases'
    BY ServicesAssumption DEF ProcessTypes, Phases, Stopping
  <1>3. GoroutinesCounted'
    BY ServicesAssumption DEF ProcessTypes, Phases, GoroutinesCounted, Ended, Controls, Counted, Stopping
  <1>4. ServersServe'
    BY DEF ProcessTypes, Phases, ServersServe, Serving, InCall
  <1>5. DataspaceShut'
    BY DEF ProcessTypes, DataspaceShut, Serving, Stopping
  <1>6. NothingCutOff'
    BY DEF ProcessTypes, NothingCutOff, Phases, Serving, InCall
  <1> QED
    BY <1>1, <1>2, <1>3, <1>4, <1>5, <1>6

\* The goroutine of a transfer handler applies.
LEMMA SpawnedAppliesProcessInv ==
  ASSUME NEW r \in Requests, ServerInv, SpawnedApplies(r)
  PROVE  ProcessInv'
  <1> USE DEF ServerInv, ProcessInv, SpawnedApplies, Add, process, servers, clients
  <1>1. ProcessTypes'
    BY ServicesAssumption DEF ProcessTypes, Stopping
  <1>2. Phases'
    BY ServicesAssumption DEF ProcessTypes, Phases, Stopping
  <1>3. GoroutinesCounted'
    BY ServicesAssumption DEF ProcessTypes, Phases, GoroutinesCounted, Ended, Controls, Counted, Stopping
  <1>4. ServersServe'
    BY DEF ProcessTypes, Phases, ServersServe, Serving, InCall
  <1>5. DataspaceShut'
    BY DEF ProcessTypes, DataspaceShut, Serving, Stopping
  <1>6. NothingCutOff'
    BY DEF ProcessTypes, NothingCutOff, Phases, Serving, InCall
  <1> QED
    BY <1>1, <1>2, <1>3, <1>4, <1>5, <1>6

\* A call arrives while the control service takes calls.
LEMMA CallArrivesProcessInv ==
  ASSUME NEW c \in Calls, ServerInv, CallArrives(c)
  PROVE  ProcessInv'
  <1> USE DEF ServerInv, ProcessInv, CallArrives, reconcilerVars, reconciler, history, process, servers, clients
  <1>1. ProcessTypes'
    BY ServicesAssumption DEF ProcessTypes, Stopping
  <1>2. Phases'
    BY ServicesAssumption DEF ProcessTypes, Phases, Stopping
  <1>3. GoroutinesCounted'
    BY ServicesAssumption DEF ProcessTypes, Phases, GoroutinesCounted, Ended, Controls, Counted, Stopping
  <1>4. ServersServe'
    BY DEF ProcessTypes, Phases, ServersServe, Serving, InCall
  <1>5. DataspaceShut'
    BY DEF ProcessTypes, DataspaceShut, Serving, Stopping
  <1>6. NothingCutOff'
    BY DEF ProcessTypes, NothingCutOff, Phases, Serving, InCall
  <1> QED
    BY <1>1, <1>2, <1>3, <1>4, <1>5, <1>6

\* A call applies, polls, ends or is cancelled.
LEMMA CallProcessInv ==
  ASSUME NEW c \in Calls, ServerInv, Call(c) \/ CallCancelled(c)
  PROVE  ProcessInv'
  <1>1. /\ up /\ up' = up /\ UNCHANGED <<process, servers, request, spawned, manager, worker>>
        /\ \E t \in {"negotiating", "transfer", "requesting", "ended"} :
             call' = [call EXCEPT ![c] = t]
        /\ row' \in {row, [row EXCEPT ![c] = "open"]}
        /\ c \in InCall
    BY DEF Call, CallApplies, CallGoesOn, CallReturns, CallAborts, CallCancelled, Add, InCall,
           Own, Polling, reconcilerVars, reconciler, history
  <1>2. InCall' \subseteq InCall
    BY <1>1 DEF InCall, ServerInv, ProcessInv, ProcessTypes
  <1> USE <1>1 DEF ServerInv, ProcessInv, process, servers
  <1>3. ProcessTypes'
    BY DEF ProcessTypes
  <1>4. Phases'
    BY DEF Phases
  <1>5. GoroutinesCounted'
    BY DEF GoroutinesCounted, Ended, Controls, Counted
  <1>6. ServersServe' /\ DataspaceShut'
    BY <1>2 DEF ServersServe, DataspaceShut, Serving
  <1>7. NothingCutOff'
    BY DEF Phases, NothingCutOff
  <1> QED
    BY <1>3, <1>4, <1>5, <1>6, <1>7

\* The reconciler's steps, a signal and the end of the process leave Run,
\* the servers and the clients alone, but for the rows that calls poll; a
\* goroutine that has not started or has left does not move.
LEMMA ReconcileProcessInv ==
  ASSUME ServerInv, Reconcile \/ ((Interrupt \/ ProcessEnds) /\ UNCHANGED <<process, servers, clients>>)
  PROVE  ProcessInv'
  <1>1. /\ up /\ UNCHANGED <<process, servers, request, spawned, call>>
        /\ row' = row \/ \E c \in Calls : row' = [row EXCEPT ![c] = "reached"]
        /\ manager = Absent => manager' = Absent
        /\ worker = Left => worker' = Left
    BY DEF Reconcile, Commit, Polling, clients, ManagerSteps, WorkerSteps, ManagerPops, ManagerPutsBack, ManagerOffers,
           Handover, ManagerLeaves, WorkerLeaves, WorkerDelivers, WorkerRequeues,
           WorkerGivesUp, WorkerPanics, ProcessEnds, Interrupt, Elapse, reconciler,
           Absent, Select, Left
  <1> USE <1>1 DEF ServerInv, ProcessInv, process, servers
  <1>2. ProcessTypes'
    BY DEF ProcessTypes
  <1>3. Phases'
    BY DEF Phases
  <1>4. GoroutinesCounted'
    BY DEF GoroutinesCounted, Ended, Controls, Counted
  <1>5. ServersServe' /\ DataspaceShut'
    BY DEF ServersServe, DataspaceShut, Serving, InCall
  <1>6. NothingCutOff'
    BY DEF Phases, NothingCutOff
  <1> QED
    BY <1>2, <1>3, <1>4, <1>5, <1>6

\* A stuttering step keeps the invariant.
LEMMA StutterProcessInv ==
  ASSUME ServerInv, UNCHANGED vars
  PROVE  ProcessInv'
  <1> USE DEF ServerInv, ProcessInv, vars, reconcilerVars, reconciler, history,
              process, servers, clients
  <1>1. ProcessTypes' /\ Phases'
    BY DEF ProcessTypes, Phases
  <1>2. GoroutinesCounted'
    BY DEF GoroutinesCounted, Ended, Controls, Counted
  <1>3. ServersServe' /\ DataspaceShut' /\ NothingCutOff'
    BY DEF ServersServe, DataspaceShut, NothingCutOff, Serving, InCall
  <1> QED
    BY <1>1, <1>2, <1>3

\* Every step of the process and of its surroundings keeps the invariant.
LEMMA NextServerInv == ServerInv /\ [Next]_vars => ServerInv'
  <1> SUFFICES ASSUME ServerInv, [Next]_vars PROVE ServerInv'
    OBVIOUS
  <1>1. IndInv'
    BY ServerStepsReconciler, NextIndInv DEF ServerInv
  <1>2. ProcessInv'
    <2>1. CASE Start
      BY <2>1, SetupFailsProcessInv, SetupProcessInv, StartControlProcessInv,
         StartFailsProcessInv, LaunchProcessInv, AddServicesProcessInv DEF Start
    <2>2. CASE Stop
      BY <2>2, ReconcilerEndedProcessInv, ShutdownBeginsProcessInv, ShutdownReturnsProcessInv,
         CheckProcessInv, WaitProcessInv DEF Stop
    <2>3. CASE GracefulStop \/ ControlEnds
      BY <2>3, GracefulStopProcessInv, ControlEndsProcessInv
    <2>4. ASSUME NEW i \in 1..Services, Listen(i) \/ ListenReturns(i) PROVE ProcessInv'
      BY <2>4, ListenProcessInv, ListenReturnsProcessInv
    <2>5. ASSUME NEW r \in Requests, Handle(r) \/ RequestArrives(r) PROVE ProcessInv'
      BY <2>5, RequestArrivesProcessInv, RequestAppliesProcessInv, RequestAnsweredProcessInv,
         SpawnedAppliesProcessInv DEF Handle
    <2>6. ASSUME NEW c \in Calls, Call(c) \/ CallArrives(c) \/ CallCancelled(c)
          PROVE  ProcessInv'
      BY <2>6, CallArrivesProcessInv, CallProcessInv
    <2>7. CASE Reconcile \/ ((Interrupt \/ ProcessEnds) /\ UNCHANGED <<process, servers, clients>>)
      BY <2>7, ReconcileProcessInv
    <2>8. CASE UNCHANGED vars
      BY <2>8, StutterProcessInv
    <2> QED
      BY <2>1, <2>2, <2>3, <2>4, <2>5, <2>6, <2>7, <2>8 DEF Next, Goroutines, Environment
  <1> QED
    BY <1>1, <1>2 DEF ServerInv

\* The inductive invariant holds in every reachable state of the process.
THEOREM ServerInvariant == Spec => []ServerInv
  <1>1. Init => ServerInv
    BY InitIndInv, InitProcessInv DEF Init, ServerInv
  <1> QED
    BY <1>1, NextServerInv, PTL DEF Spec

\* The process keeps its shape; in particular no operation gets into the deque
\* without an attempt left (handleError).
THEOREM ServerTypeCorrect == Spec => []TypeOK
  <1>1. ServerInv => TypeOK
    <2> SUFFICES ASSUME ServerInv PROVE TypeOK
      OBVIOUS
    <2>1. Queued \subseteq Operations
      BY AttemptsAssumption DEF Queued, Operations
    <2>2. manager \in {Absent, Select, Left} \cup [pc: {"popped", "send"}, op: Operations]
      BY <2>1 DEF ServerInv, IndInv, Shape
    <2> QED
      BY <2>2 DEF ServerInv, IndInv, Shape, ProcessInv, ProcessTypes, TypeOK, Stopping
  <1> QED
    BY <1>1, ServerInvariant, PTL

\* From the start to the return of Run the WaitGroup counts the control service
\* and the HTTP services that have not ended, less those that have ended before
\* Run added them; if that gets negative, the process has panicked before Run
\* could add them (Run, startControl).
THEOREM GoroutinesAreCounted == Spec => []GoroutinesCounted
  <1>1. ServerInv => GoroutinesCounted
    BY DEF ServerInv, ProcessInv
  <1> QED
    BY <1>1, ServerInvariant, PTL

\* Run returns without an error only when no handler is before its answer, no
\* control call is unanswered and the worker holds nothing, however many
\* requests and calls there are and whenever the signal comes (Run,
\* startControl).
THEOREM NothingCutOffHolds == Spec => []NothingCutOff
  <1>1. ServerInv => NothingCutOff
    BY DEF ServerInv, ProcessInv
  <1> QED
    BY <1>1, ServerInvariant, PTL

=============================================================================
