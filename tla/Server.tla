-------------------------------- MODULE Server --------------------------------
(***************************************************************************)
(* One run-dsp process from start to end (internal/server/command.go): the *)
(* main goroutine in Run, the HTTP services, the gRPC control service and  *)
(* the reconciler, tied together by a context that a signal cancels and by *)
(* two WaitGroups.  Requests and control calls are what leave entries with *)
(* the reconciler.                                                         *)
(*                                                                         *)
(* The first HTTP service is the dataspace server, the second, if any, the *)
(* metrics server.                                                         *)
(***************************************************************************)
EXTENDS Reconciler, Integers

CONSTANTS
  Requests,   \* HTTP requests to the dataspace server
  Downloads,  \* download calls at the control service
  Uploads,    \* upload calls at the control service
  Services    \* the number of HTTP services

Calls == Downloads \cup Uploads

\* The messages that calls leave with the reconciler: a download sends the
\* transfer request too, an upload leaves that to its peer.
Own == (Calls \X {"contract"}) \cup (Downloads \X {"transfer"})

ASSUME EntriesAssumption == Entries = Requests \cup Own
ASSUME CallsAssumption == Downloads \cap Uploads = {}
ASSUME ServicesAssumption == Services \in {1, 2}

VARIABLES
  main,      \* where Run is
  service,   \* the HTTP service that Run shuts down
  wg,        \* the counter of the WaitGroup `wg'
  err,       \* the variable err of Run, shared by the HTTP goroutines
  http,      \* [1..Services -> the state of an HTTP service]
  grpc,      \* the state of the control service
  request,   \* [Requests -> how far the handler is]
  spawned,   \* the requests whose apply runs in a goroutine of its own
  call,      \* [Calls -> how far the call is]
  row        \* [Calls -> what the row that the call polls has come to]

process == <<main, service, wg, err>>
servers == <<http, grpc>>
clients == <<request, spawned, call, row>>
vars == <<reconcilerVars, process, servers, clients>>

Serving == {r \in Requests : request[r] \in {"serving", "applied"}}
InCall == {c \in Calls : call[c] \notin {"new", "ended"}}
Polling == {c \in Calls : call[c] \in {"negotiating", "requesting"}}

\* Run returns and the process ends.
Return(e) == main' = "returned" /\ err' = e /\ ProcessEnds /\ UNCHANGED <<service, wg>>

-----------------------------------------------------------------------------
(* Run: starting up                                                        *)

\* setupOTelSDK fails, which Run does not report, or setupServices fails
\* before the reconciler runs.
SetupFails ==
  /\ up /\ main = "setup"
  /\ Return("nil") \/ Return("setup")
  /\ UNCHANGED <<servers, clients>>

\* setupServices: provider, store and authn service are there.
Setup ==
  /\ main = "setup" /\ StartReconciler
  /\ main' = "control"
  /\ UNCHANGED <<service, wg, err, servers, clients>>

\* startControl.
StartControl ==
  /\ up /\ main = "control"
  /\ wg' = wg + 1 /\ grpc' = "serving" /\ main' = "configure"
  /\ UNCHANGED <<reconcilerVars, service, err, http, clients>>

\* getContractService or startControl fails, or configureContractService does
\* when the control service already takes calls.
StartFails ==
  /\ up /\ main \in {"control", "configure"}
  /\ Return("setup")
  /\ UNCHANGED <<servers, clients>>

\* Run launches the goroutines of the HTTP services.
Launch ==
  /\ up /\ main = "configure"
  /\ http' = [i \in 1..Services |-> "launched"]
  /\ main' = "launched"
  /\ UNCHANGED <<reconcilerVars, service, wg, err, grpc, clients>>

\* Mutant: Run adds one service.
AddOneService ==
  /\ up /\ main = "launched"
  /\ wg' = wg + 1 /\ main' = "reconciling"
  /\ UNCHANGED <<reconcilerVars, service, err, servers, clients>>

\* Run adds them to the WaitGroup afterwards.
AddServices ==
  /\ up /\ main = "launched"
  /\ wg' = wg + Services /\ main' = "reconciling"
  /\ UNCHANGED <<reconcilerVars, service, err, servers, clients>>

Start == SetupFails \/ Setup \/ StartControl \/ StartFails \/ Launch \/ AddServices

-----------------------------------------------------------------------------
(* The goroutines of the servers                                           *)

\* Done panics when the counter gets negative.
Done ==
  /\ wg' = wg - 1
  /\ IF wg > 0 THEN UNCHANGED reconcilerVars ELSE ProcessEnds

Listen(i) ==
  /\ up /\ http[i] = "launched"
  /\ http' = [http EXCEPT ![i] = "listening"]
  /\ UNCHANGED <<reconcilerVars, process, grpc, clients>>

\* ListenAndServe cannot listen, or returns because of Shutdown.
ListenReturns(i) ==
  /\ up
  /\ \/ http[i] = "launched" /\ err' = "listen"
     \/ http[i] = "closed" /\ err' = "closed"
  /\ http' = [http EXCEPT ![i] = "ended"]
  /\ Done
  /\ UNCHANGED <<main, service, grpc, clients>>

\* GracefulStop takes no more calls, and returns when none is left.
GracefulStop ==
  /\ up /\ done /\ grpc = "serving"
  /\ grpc' = "stopping"
  /\ UNCHANGED <<reconcilerVars, process, http, clients>>

\* Mutant: the deferred wg.Done is forgotten.
ControlEndsUncounted ==
  /\ up /\ grpc = "stopping" /\ InCall = {}
  /\ grpc' = "stopped"
  /\ UNCHANGED <<reconcilerVars, process, http, clients>>

ControlEnds ==
  /\ up /\ grpc = "stopping" /\ InCall = {}
  /\ grpc' = "stopped"
  /\ Done
  /\ UNCHANGED <<main, service, err, http, clients>>

-----------------------------------------------------------------------------
(* Run: shutting down                                                      *)

\* reconciler.WaitGroup.Wait.
ReconcilerEnded ==
  /\ up /\ main = "reconciling" /\ manager = Left /\ worker = Left
  /\ main' = "shutdown"
  /\ UNCHANGED <<reconcilerVars, service, wg, err, servers, clients>>

\* Shutdown: the listener is closed; a service that does not listen yet never
\* will.
ShutdownBegins ==
  /\ up /\ main = "shutdown"
  /\ http' = [http EXCEPT ![service] = IF @ = "ended" THEN @ ELSE "closed"]
  /\ main' = "closing"
  /\ UNCHANGED <<reconcilerVars, service, wg, err, grpc, clients>>

\* Shutdown: with the context cancelled already, it does not wait for the
\* requests that are being served.  What the metrics server serves is open.
ShutdownReturns ==
  /\ up /\ main = "closing"
  /\ err' \in IF service = 1 THEN {IF Serving = {} THEN "nil" ELSE "cut"}
                             ELSE {"nil", "cut"}
  /\ main' = "check"
  /\ UNCHANGED <<reconcilerVars, service, wg, servers, clients>>

\* Run looks at err, which a goroutine may have overwritten.
Check ==
  /\ up /\ main = "check"
  /\ IF err # "nil" THEN Return(err)
     ELSE /\ main' = IF service < Services THEN "shutdown" ELSE "wait"
          /\ service' = IF service < Services THEN service + 1 ELSE service
          /\ UNCHANGED <<reconcilerVars, wg, err>>
  /\ UNCHANGED <<servers, clients>>

\* Mutant: Run does not wait for its goroutines.
WaitForNobody ==
  /\ up /\ main = "wait"
  /\ Return(err)
  /\ UNCHANGED <<servers, clients>>

\* wg.Wait, and Run returns err as it is then.
Wait ==
  /\ up /\ main = "wait" /\ wg = 0
  /\ Return(err)
  /\ UNCHANGED <<servers, clients>>

Stop == ReconcilerEnded \/ ShutdownBegins \/ ShutdownReturns \/ Check \/ Wait

-----------------------------------------------------------------------------
(* Requests and calls                                                      *)

RequestArrives(r) ==
  /\ up /\ http[1] = "listening" /\ request[r] = "new"
  /\ request' = [request EXCEPT ![r] = "serving"]
  /\ UNCHANGED <<reconcilerVars, process, servers, spawned, call, row>>

\* processMessage calls apply, processTransferMessage leaves it to a goroutine.
RequestApplies(r) ==
  /\ up /\ request[r] = "serving"
  /\ \/ Add(r) /\ UNCHANGED spawned
     \/ spawned' = spawned \cup {r} /\ UNCHANGED reconcilerVars
  /\ request' = [request EXCEPT ![r] = "applied"]
  /\ UNCHANGED <<process, servers, call, row>>

\* The peer has been sent everything that call c has left for it.
PeerAsked(c) == \A e \in Own \cap added : e[1] = c => ~Untried(e)

\* What the peer's messages do to the row that call c polls.  A download
\* receives FINALIZED and STARTED, an upload stores them when it has sent
\* them.  A transfer can be past STARTED before the call looks.
Received(c) ==
  {s \in {"reached", "terminated", "over"} :
     \/ row[c] = "open" /\ (s = "terminated" \/ (s = "reached" /\ c \in Downloads))
     \/ row[c] = "reached" /\ call[c] = "requesting" /\ s # "reached"}

StoreReceived ==
  \E c \in Polling : PeerAsked(c) /\ row' \in {[row EXCEPT ![c] = s] : s \in Received(c)}

\* The answer is sent, perhaps without there being anything to apply; messages
\* that bring an exchange to its end leave nothing to apply.
RequestAnswered(r) ==
  /\ up /\ r \in Serving
  /\ UNCHANGED row \/ (request[r] = "serving" /\ StoreReceived)
  /\ request' = [request EXCEPT ![r] = "answered"]
  /\ UNCHANGED <<reconcilerVars, process, servers, spawned, call>>

SpawnedApplies(r) ==
  /\ r \in spawned /\ Add(r)
  /\ spawned' = spawned \ {r}
  /\ UNCHANGED <<process, servers, request, call, row>>

Handle(r) == RequestApplies(r) \/ RequestAnswered(r) \/ SpawnedApplies(r)

\* The call stores its negotiation.
CallArrives(c) ==
  /\ up /\ grpc = "serving" /\ call[c] = "new"
  /\ call' = [call EXCEPT ![c] = "contract"]
  /\ UNCHANGED <<reconcilerVars, process, servers, request, spawned, row>>

\* The call has stored its negotiation or its transfer, calls apply and starts
\* to poll.
CallApplies(c) ==
  /\ <<c, call[c]>> \in Own /\ Add(<<c, call[c]>>)
  /\ call' = [call EXCEPT ![c] = IF @ = "contract" THEN "negotiating" ELSE "requesting"]
  /\ UNCHANGED <<process, servers, request, spawned, row>>

\* The negotiation is FINALIZED.  A download stores a transfer request, an
\* upload looks for the one that its peer makes.
CallGoesOn(c) ==
  /\ up /\ call[c] = "negotiating" /\ row[c] = "reached"
  /\ call' = [call EXCEPT ![c] = IF c \in Downloads THEN "transfer" ELSE "requesting"]
  /\ row' = [row EXCEPT ![c] = "open"]
  /\ UNCHANGED <<reconcilerVars, process, servers, request, spawned>>

\* The transfer is STARTED.
CallReturns(c) ==
  /\ up /\ call[c] = "requesting" /\ row[c] = "reached"
  /\ call' = [call EXCEPT ![c] = "ended"]
  /\ UNCHANGED <<reconcilerVars, process, servers, request, spawned, row>>

\* Mutant: a download looks for TERMINATED while it negotiates only.
CallAbortsEarly(c) ==
  /\ up /\ c \in Downloads /\ call[c] = "negotiating" /\ row[c] = "terminated"
  /\ call' = [call EXCEPT ![c] = "ended"]
  /\ UNCHANGED <<reconcilerVars, process, servers, request, spawned, row>>

\* Only a download looks for TERMINATED.
CallAborts(c) ==
  /\ up /\ c \in Downloads \cap Polling /\ row[c] = "terminated"
  /\ call' = [call EXCEPT ![c] = "ended"]
  /\ UNCHANGED <<reconcilerVars, process, servers, request, spawned, row>>

\* The client cancels the call, which fails the next access to the store.
CallCancelled(c) ==
  /\ up /\ c \in InCall
  /\ call' = [call EXCEPT ![c] = "ended"]
  /\ UNCHANGED <<reconcilerVars, process, servers, request, spawned, row>>

Call(c) == CallApplies(c) \/ CallGoesOn(c) \/ CallReturns(c) \/ CallAborts(c)

-----------------------------------------------------------------------------

Init ==
  /\ ReconcilerInit
  /\ main = "setup" /\ service = 1 /\ wg = 0 /\ err = "nil"
  /\ http = [i \in 1..Services |-> "absent"] /\ grpc = "absent"
  /\ request = [r \in Requests |-> "new"] /\ spawned = {}
  /\ call = [c \in Calls |-> "new"] /\ row = [c \in Calls |-> "open"]

\* What the process does by itself, goroutine by goroutine.
Goroutines ==
  \/ Start \/ Stop \/ GracefulStop \/ ControlEnds
  \/ \E i \in 1..Services : Listen(i) \/ ListenReturns(i)
  \/ \E r \in Requests : Handle(r)
  \/ \E c \in Calls : Call(c)

\* The worker stores the state that a handler's message was to announce.
Commit ==
  /\ WorkerDelivers \/ WorkerGivesUp
  /\ worker.op.entry \in Requests
  /\ \E c \in Uploads \cap Polling :
       PeerAsked(c) /\ row[c] = "open" /\ row' = [row EXCEPT ![c] = "reached"]
  /\ UNCHANGED <<process, servers, request, spawned, call>>

\* The reconciler goes about its work.
Reconcile ==
  \/ Commit
  \/ /\ \/ ManagerSteps \/ ManagerLeaves \/ WorkerSteps \/ WorkerLeaves
        \/ \E i \in DOMAIN q : Elapse(i)
     /\ UNCHANGED <<process, servers, clients>>

\* Signals, requests and calls arrive, and clients go away.  A signal that
\* NotifyContext does not know ends the process.
Environment ==
  \/ (Interrupt \/ ProcessEnds) /\ UNCHANGED <<process, servers, clients>>
  \/ \E r \in Requests : RequestArrives(r)
  \/ \E c \in Calls : CallArrives(c) \/ CallCancelled(c)

Next == Goroutines \/ Reconcile \/ Environment

Spec == Init /\ [][Next]_vars

\* Goroutines are scheduled; clients, operators and the peers that the worker
\* waits for owe nothing.
Fairness ==
  /\ ReconcilerFairness
  /\ WF_vars(Start) /\ WF_vars(Stop) /\ WF_vars(GracefulStop) /\ WF_vars(ControlEnds)
  /\ \A i \in 1..Services : WF_vars(Listen(i) \/ ListenReturns(i))
  /\ \A r \in Requests : WF_vars(RequestApplies(r) \/ RequestAnswered(r)) /\ WF_vars(SpawnedApplies(r))
  /\ \A c \in Calls : WF_vars(Call(c))

FairSpec == Spec /\ Fairness

-----------------------------------------------------------------------------
(* Properties                                                              *)

\* The process has the shape the code gives it, and an operation in the deque
\* has an attempt left.
TypeOK ==
  /\ q \in Seq(Queued)
  /\ manager \in {Absent, Select, Left} \cup [pc: {"popped", "send"}, op: Operations]
  /\ worker \in {Absent, Select, Left} \cup [pc: {"busy"}, op: Operations]
  /\ added \subseteq Entries /\ delivered \subseteq added /\ givenUp \subseteq added
  /\ main \in {"setup", "control", "configure", "launched", "reconciling", "shutdown",
               "closing", "check", "wait", "returned"}
  /\ service \in 1..Services
  /\ wg \in -1..(Services + 1)
  /\ http \in [1..Services -> {"absent", "launched", "listening", "closed", "ended"}]
  /\ grpc \in {"absent", "serving", "stopping", "stopped"}
  /\ request \in [Requests -> {"new", "serving", "applied", "answered"}]
  /\ call \in [Calls -> {"new", "contract", "negotiating", "transfer", "requesting", "ended"}]
  /\ row \in [Calls -> {"open", "reached", "terminated", "over"}]
  /\ spawned \subseteq Requests

Ended(i) == IF i \in 1..Services /\ http[i] = "ended" THEN 1 ELSE 0
Controls == IF grpc \in {"serving", "stopping"} THEN 1 ELSE 0
Counted == IF main \in {"reconciling", "shutdown", "closing", "check", "wait"} THEN Services ELSE 0

\* The WaitGroup counts the goroutines that Run has to wait for.  A service
\* that cannot listen may call Done before Run has added it, and the counter
\* then is one short until Run does; if that makes it negative the process
\* panics, which only happens before Run has added the services (Run,
\* startControl).
GoroutinesCounted ==
  /\ main # "returned" => wg = Controls + Counted - Ended(1) - Ended(2)
  /\ wg < 0 => ~up /\ main = "launched"

\* When Run returns without an error nothing was cut off: no handler is
\* between the row it has locked and its answer, no control call is left
\* unanswered and the worker holds no operation.  And once the process has served,
\* Run does not return, error or not, before the worker is done (Run,
\* startControl).
NothingCutOff ==
  main = "returned" =>
    /\ err # "setup" => worker \in {Absent, Left}
    /\ err = "nil" => Serving = {} /\ InCall = {}

\* The worker waits for the peer's answer, for which it has no timeout.
PeerSilent == worker.pc = "busy"

\* While the process runs undisturbed and each peer answers in the end, every
\* message that a handler or a call has left is delivered or given up: none
\* starves behind others that are retried, or at the hand-over between the
\* goroutines (manager, handleError).
Settles ==
  [](up /\ ~done) /\ []<>~PeerSilent =>
    \A e \in Entries : e \in added ~> e \in delivered \cup givenUp

\* The manager waits for a worker that has left.
HandoverStuck == manager.pc = "send" /\ worker = Left

\* A control call polls a row that is not what it looks for.
PollingInVain ==
  \E c \in Polling : row[c] # "reached" /\ ~(c \in Downloads /\ row[c] = "terminated")

\* A signal ends the process, in whatever phase it comes and whatever is being
\* served, unless one of three things lasts for good: the peer is silent, the
\* hand-over is stuck, or a control call polls in vain, for instance because
\* what it waits for takes a message that the reconciler is not there to send.
ShutdownUnlessStuck ==
  <>done => \/ <>~up
            \/ <>[]PeerSilent
            \/ <>[]HandoverStuck
            \/ <>[]PollingInVain

\* A signal ends the process if each peer answers in the end: "Handle shutdown
\* properly so nothing leaks".
ShutdownCompletes == []<>~PeerSilent => (done ~> ~up)

\* The control service is down some time after the signal, if each peer answers
\* in the end: "Wait until we get the done signal and then shut down the grpc
\* service".
ControlStops == []<>~PeerSilent => (done /\ grpc = "serving" ~> grpc = "stopped" \/ ~up)

=============================================================================
