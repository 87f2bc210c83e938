----------------------- MODULE NegotiationHalvesProofs -----------------------
(***************************************************************************)
(* What the two halves of a negotiation know of each other: where their    *)
(* messages go, which PIDs they have of one another, whose agreement they  *)
(* hold and which states their peer has reached.                           *)
(***************************************************************************)
EXTENDS NegotiationFlowProofs

-----------------------------------------------------------------------------
(* Messages and the states they bring                                      *)

\* The state a message names says what kind of message it is.
LEMMA TypeOfTarget ==
  ASSUME NEW s \in Roles, NEW m, m.type \in TypesFrom(s), m.event \in EventsFrom(s)
  PROVE  /\ TargetOf(m) = "REQUESTED" <=> m.type = "request"
         /\ TargetOf(m) = "OFFERED" <=> m.type = "offer"
         /\ TargetOf(m) = "AGREED" <=> m.type = "agreement"
         /\ TargetOf(m) = "VERIFIED" <=> m.type = "verification"
         /\ TargetOf(m) = "TERMINATED" <=> m.type = "termination"
         /\ TargetOf(m) = "ACCEPTED" => s = "consumer" /\ m.type = "event"
         /\ TargetOf(m) = "FINALIZED" => s = "provider" /\ m.type = "event"
         /\ TargetOf(m) # "INITIAL"
         /\ m.type = "event" /\ TargetOf(m) \in States =>
              TargetOf(m) = IF s = "consumer" THEN "ACCEPTED" ELSE "FINALIZED"
  BY DEF TargetOf, TypesFrom, EventsFrom, States, Roles

\* Which state a connector that receives moves to from which.
LEMMA ReceivesFrom ==
  ASSUME NEW s \in Roles, NEW t \in States, NEW t1, t1 \in validTransitions[t], t1 \in ReceivedBy(s)
  PROVE  /\ t1 = "REQUESTED" => s = "provider" /\ t \in {"INITIAL", "OFFERED"}
         /\ t1 = "OFFERED" => s = "consumer" /\ t \in {"INITIAL", "REQUESTED"}
         /\ t1 = "ACCEPTED" => s = "provider" /\ t = "OFFERED"
         /\ t1 = "AGREED" => s = "consumer" /\ t \in {"REQUESTED", "ACCEPTED"}
         /\ t1 = "VERIFIED" => s = "provider" /\ t = "AGREED"
         /\ t1 = "FINALIZED" => s = "consumer" /\ t = "VERIFIED"
         /\ t1 \in {"REQUESTED", "OFFERED", "ACCEPTED", "AGREED", "VERIFIED", "FINALIZED", "TERMINATED"}
  BY DEF validTransitions, States, ReceivedBy, Roles

\* Which state a message that is sent aims at from which.
LEMMA SendsTo ==
  ASSUME NEW s \in Roles, NEW n, n.state \in States, NEW e, SentAs(n, e),
         e.target \in validTransitions[n.state], e.target = TargetOf(e.msg),
         e.msg.type \in TypesFrom(s), e.msg.event \in EventsFrom(s)
  PROVE  /\ e.target = "REQUESTED" => s = "consumer" /\ n.state \in {"INITIAL", "OFFERED"}
         /\ e.target = "OFFERED" => s = "provider" /\ n.state \in {"INITIAL", "REQUESTED"}
         /\ e.target = "ACCEPTED" => s = "consumer" /\ n.state = "OFFERED"
         /\ e.target = "AGREED" => s = "provider" /\ n.state \in {"REQUESTED", "ACCEPTED"}
         /\ e.target = "VERIFIED" => s = "consumer" /\ n.state = "AGREED"
         /\ e.target = "FINALIZED" => s = "provider" /\ n.state = "VERIFIED"
         /\ e.target \in {"REQUESTED", "OFFERED", "ACCEPTED", "AGREED", "VERIFIED", "FINALIZED"}
         /\ n.state = "REQUESTED" => e.target = IF n.initial THEN "OFFERED" ELSE "AGREED"
         /\ n.state = "OFFERED" => e.target = IF n.initial THEN "REQUESTED" ELSE "ACCEPTED"
  <1>1. /\ e.target = "REQUESTED" => s = "consumer"
        /\ e.target = "OFFERED" => s = "provider"
        /\ e.target = "AGREED" => s = "provider"
        /\ e.target = "VERIFIED" => s = "consumer"
        /\ e.target = "ACCEPTED" => s = "consumer"
        /\ e.target = "FINALIZED" => s = "provider"
        /\ e.target # "TERMINATED" /\ e.target # "INITIAL"
    BY TypeOfTarget DEF TypesFrom, SentAs, Roles
  <1>2. /\ e.target = "REQUESTED" => n.state \in {"INITIAL", "OFFERED"}
        /\ e.target = "OFFERED" => n.state \in {"INITIAL", "REQUESTED"}
        /\ e.target = "ACCEPTED" => n.state = "OFFERED"
        /\ e.target = "AGREED" => n.state \in {"REQUESTED", "ACCEPTED"}
        /\ e.target = "VERIFIED" => n.state = "AGREED"
        /\ e.target = "FINALIZED" => n.state = "VERIFIED"
        /\ e.target \in {"INITIAL", "REQUESTED", "OFFERED", "ACCEPTED", "AGREED", "VERIFIED",
                         "FINALIZED", "TERMINATED"}
    BY DEF validTransitions, States
  <1> QED
    BY <1>1, <1>2 DEF SentAs

\* The message that a handler works on, as its row and the sender have it.
LEMMA StoreData ==
  ASSUME NEW I, Before(I), NEW s \in Roles, NEW k \in Slots, NEW out, Stores(s, k, I, out)
  PROVE  LET h == http[s][k]
             n == h.neg
             m == h.req.msg
             row == table[s][n.id]
         IN  /\ n.id \in DOMAIN table[s] /\ n \in CopiesOver(s, I) /\ n = FromModel(row, n.id)
             /\ n.state = row.state /\ n.ppid = row.ppid /\ n.cpid = row.cpid
             /\ n.agreement = row.agreement /\ n.callback = row.callback /\ n.self = row.self
             /\ ~n.initial /\ n.state \in States
             /\ m \in MessagesOver(Peer(s), I) /\ h.req \in Posted(Peer(s)) /\ h.pc = "locked"
             /\ \E r \in CopiesOver(s, I \cup {uuid}) :
                  /\ Received(s, I \cup {uuid}, n, m, r) /\ RecvAs(n, m, r)
                  /\ IF n.state = "INITIAL"
                       THEN /\ m.type = IF s = "provider" THEN "request" ELSE "offer"
                            /\ r.initial /\ r.cpid = n.cpid
                            /\ r.ppid = IF s = "provider" THEN uuid ELSE n.ppid
                       ELSE KeepsPIDs(n, r) /\ ~r.initial
                  /\ SameButAgreement(r, out.neg) /\ Sent(s, r, uuid, out)
  <1> DEFINE h == http[s][k]
             n == h.neg
             m == h.req.msg
  <1>1. LockOver(I) /\ h.pc = "locked" /\ Processed(s, I, n, m, out)
    BY SMTT(30) DEF Stores, StoredBy, Before
  <1>2. /\ n.id \in DOMAIN table[s] /\ n \in CopiesOver(s, I) /\ m \in MessagesOver(Peer(s), I)
        /\ n.state = table[s][n.id].state /\ n.agreement = table[s][n.id].agreement
        /\ n.ppid = table[s][n.id].ppid /\ n.cpid = table[s][n.id].cpid
        /\ n = FromModel(table[s][n.id], n.id)
    BY <1>1, LockedHandler
  <1>3. /\ n.callback = table[s][n.id].callback /\ n.self = table[s][n.id].self /\ ~n.initial
    <2> DEFINE row == table[s][n.id]
    <2>1. LET c == FromModel(row, n.id) IN c.callback = row.callback /\ c.self = row.self /\ ~c.initial
      BY DEF FromModel
    <2> QED
      BY <1>2, <2>1
  <1>4. h.req \in Posted(Peer(s))
    <2>1. Peer(s) \in Roles /\ Peer(Peer(s)) = s
      BY DEF Peer, Roles
    <2> QED
      BY <1>1, <2>1 DEF Posted
  <1>5. n.state \in States
    BY <1>2 DEF CopiesOver
  <1> HIDE DEF n, m
  <1>6. \E r \in CopiesOver(s, I \cup {uuid}) :
          /\ Received(s, I \cup {uuid}, n, m, r) /\ RecvAs(n, m, r)
          /\ IF n.state = "INITIAL"
               THEN /\ m.type = IF s = "provider" THEN "request" ELSE "offer"
                    /\ r.initial /\ r.cpid = n.cpid
                    /\ r.ppid = IF s = "provider" THEN uuid ELSE n.ppid
               ELSE KeepsPIDs(n, r) /\ ~r.initial
          /\ SameButAgreement(r, out.neg) /\ Sent(s, r, uuid, out)
    BY <1>1, <1>3 DEF Processed
  <1> QED
    BY <1>1, <1>2, <1>3, <1>4, <1>5, <1>6, Zenon DEF n, m

-----------------------------------------------------------------------------
(* Where messages go                                                       *)

\* The starts for which the theorem is stated, while operators do not call,
\* or for a download whatever they do.
Routable ==
  /\ "request" \notin Starts
  /\ calls = 0 \/ Starts \subseteq {"download"}

\* A consumer answers at the callback root and writes to the root of the API,
\* and so does a provider until it is answered from the callback root.
RowRouted(s, r) ==
  /\ s = "consumer" => r.self = "callback" /\ r.callback = "root"
  /\ s = "provider" =>
       /\ r.self = "root"
       /\ r.callback = "callback" => r.cpid # emptyUUID
       /\ r.callback = "root" =>
            /\ ~(Starts \subseteq {"download"})
            /\ r.state \in {"INITIAL", "REQUESTED", "OFFERED", "TERMINATED"}
            /\ r.state = "INITIAL" => r.cpid = emptyUUID

\* The provider has learned where its consumer listens.
Answerable == \A i \in DOMAIN table["provider"] : table["provider"][i].callback = "callback"

\* Only an offer that is to make a negotiation, or a termination, goes to the
\* root of a consumer; nobody but a consumer that was answered accepts.
EntryRouted(s, e) ==
  /\ s = "consumer" => /\ e.base = "root" /\ e.msg.callback = "callback"
                       /\ e.msg.cpid # emptyUUID
                       /\ e.msg.type = "event" => Answerable
  /\ s = "provider" =>
       /\ e.msg.callback = "root"
       /\ e.base = "root" =>
            e.msg.type = "termination" \/ (e.msg.type = "offer" /\ e.pid = emptyUUID)
       /\ e.base = "callback" => e.pid # emptyUUID /\ Answerable

\* An entry is routed and stores the state that its message names.
Aimed(s, e) == EntryRouted(s, e) /\ e.target = TargetOf(e.msg)

RowsRouted == \A s \in Roles : \A i \in DOMAIN table[s] : RowRouted(s, table[s][i])

FlowsRouted ==
  \A s \in Roles :
    /\ \A e \in Held(s) : Aimed(s, e)
    /\ \A x \in Storing(s) : \A e \in Range(x.entries) : Aimed(s, e)
    /\ \A q \in Posted(s) : EntryRouted(s, q)

RouteInv == Routable => RowsRouted /\ FlowsRouted

\* What is under way is about IDs that were drawn.
LEMMA FlowShapes ==
  ASSUME NEW I, LockOver(I), NEW s \in Roles
  PROVE  /\ \A e \in Held(s) : e \in EntriesOver(s, I)
         /\ \A x \in Storing(s) : x.neg \in CopiesOver(s, I) /\ \A e \in Range(x.entries) : e \in EntriesOver(s, I)
         /\ \A q \in Posted(s) : q \in RequestsOver(Peer(s), I)
  <1>1. \A q \in Seq(EntriesOver(s, I)) : \A e \in Range(q) : e \in EntriesOver(s, I)
    BY LenProperties, ElementOfSeq DEF Range
  <1>2. \A e \in InQueue(s) : e \in EntriesOver(s, I)
    <2>1. queue[s] \in Seq(QueuedOver(s, I))
      BY DEF LockOver, QueuesShape
    <2>2. \A i \in DOMAIN queue[s] : queue[s][i] \in QueuedOver(s, I)
      BY <2>1, LenProperties, ElementOfSeq
    <2> QED
      BY <2>2 DEF InQueue, QueuedOver
  <1>3. \A e \in AtWorker(s) : e \in EntriesOver(s, I)
    BY WorkerIsUp DEF AtWorker, OperationsOver
  <1>4. \A k \in Slots : http[s][k].pc \in {"stored", "apply"} =>
          http[s][k].neg \in CopiesOver(s, I) /\ http[s][k].entries \in Seq(EntriesOver(s, I))
    BY SlotShapes DEF LockOver
  <1>5. \A e \in ToApply(s) : e \in EntriesOver(s, I)
    BY <1>1, <1>4 DEF ToApply
  <1>6. \A x \in Storing(s) : x.neg \in CopiesOver(s, I) /\ x.entries \in Seq(EntriesOver(s, I))
    <2>1. \A x \in InStore(s) : x.neg \in CopiesOver(s, I) /\ x.entries \in Seq(EntriesOver(s, I))
      BY <1>4 DEF InStore, Stored
    <2>2. \A x \in AtControl(s) : x.neg \in CopiesOver(s, I) /\ x.entries \in Seq(EntriesOver(s, I))
      BY DEF AtControl, Stored, LockOver, ControlsShape, ControlsOver, Idle
    <2> QED
      BY <2>1, <2>2 DEF Storing
  <1>7. \A q \in Posted(s) : q \in RequestsOver(Peer(s), I)
    <2>1. Peer(s) \in Roles
      BY DEF Peer, Roles
    <2> QED
      BY <2>1, SlotShapes DEF LockOver, Posted
  <1> QED
    BY <1>1, <1>2, <1>3, <1>5, <1>6, <1>7 DEF Held

LEMMA FlowsStillRouted ==
  ASSUME FlowsRouted, Answerable => Answerable', NEW s \in Roles, NEW H, NEW S, Grows(s, H, S),
         \A e \in H : Aimed(s, e)', \A x \in S : \A e \in Range(x.entries) : Aimed(s, e)'
  PROVE  FlowsRouted'
  <1>1. \A x \in Roles : \A q : EntryRouted(x, q) => EntryRouted(x, q)'
    BY DEF EntryRouted
  <1>2. \A x \in Roles : \A e : Aimed(x, e) => Aimed(x, e)'
    BY <1>1 DEF Aimed
  <1>3. ASSUME NEW x \in Roles
        PROVE  /\ \A e \in Held(x)' : Aimed(x, e)'
               /\ \A y \in Storing(x)' : \A e \in Range(y.entries) : Aimed(x, e)'
    BY <1>2 DEF FlowsRouted, Grows
  <1>4. ASSUME NEW x \in Roles, NEW q \in Posted(x)'
        PROVE  EntryRouted(x, q)'
    <2>1. CASE q \in Posted(x)
      BY <1>1, <2>1 DEF FlowsRouted
    <2>2. CASE \E e \in Held(x) : q = RequestOf(e)
      <3>1. EntryRouted(x, q)
        BY <2>2 DEF FlowsRouted, RequestOf, EntryRouted, Aimed
      <3> QED
        BY <1>1, <3>1
    <2> QED
      BY <1>4, <2>1, <2>2 DEF Grows
  <1> QED
    BY <1>3, <1>4 DEF FlowsRouted

\* Locks do not matter.
LEMMA SameRowsRouted ==
  ASSUME SameRows, RowsRouted
  PROVE  RowsRouted' /\ (Answerable => Answerable')
  <1>1. RowsRouted'
    BY DEF SameRows, SameColumns, RowsRouted, RowRouted
  <1>2. Answerable => Answerable'
    BY DEF SameRows, SameColumns, Answerable, Roles
  <1> QED
    BY <1>1, <1>2

LEMMA RowPutRouted ==
  ASSUME RowsRouted, NEW s \in Roles, NEW i, NEW n, Puts(s, i, n), RowRouted(s, n),
         s = "provider" /\ table[s][i].callback = "callback" => n.callback = "callback"
  PROVE  RowsRouted' /\ (Answerable => Answerable')
  <1>1. RowRouted(s, table'[s][i])
    BY DEF Puts, SameColumns, RowRouted
  <1>2. RowsRouted'
    BY <1>1 DEF RowsRouted, Puts
  <1>3. Answerable => Answerable'
    BY DEF Answerable, Puts, SameColumns, Roles
  <1> QED
    BY <1>2, <1>3

\* The row that is made of a message answers at where the message came from.
LEMMA CreatedRouted ==
  ASSUME NEW I, Before(I), RowsRouted, FlowsRouted, NEW s \in Roles, NEW k \in Slots, NEW n,
         Created(s, k, I, n)
  PROVE  RowsRouted' /\ FlowsRouted'
  <1> DEFINE m == http[s][k].req.msg
             l == Len(table[s])
  <1>1. Peer(s) \in Roles /\ Peer(Peer(s)) = s /\ Peer(s) = IF s = "consumer" THEN "provider" ELSE "consumer"
    BY DEF Peer, Roles
  <1>2. http[s][k].req \in Posted(Peer(s))
    BY <1>1 DEF Created, Posted
  <1>3. EntryRouted(Peer(s), http[s][k].req)
    BY <1>1, <1>2 DEF FlowsRouted
  <1>4. /\ n.state = "INITIAL" /\ table' = [table EXCEPT ![s] = Append(@, ToModel(n))]
        /\ n = IF s = "provider" THEN NegotiationOfRequest(s, m) ELSE NegotiationOfOffer(s, m)
        /\ StoreShape(I)
    BY DEF Created, Inserted, Roles, Before, LockOver
  <1>5. s = "consumer" => n.self = "callback" /\ n.callback = "root"
    BY <1>1, <1>3, <1>4 DEF NegotiationOfOffer, New, EntryRouted
  <1>6. s = "provider" => n.self = "root" /\ n.callback = "callback" /\ n.cpid # emptyUUID
    BY <1>1, <1>3, <1>4 DEF NegotiationOfRequest, New, EntryRouted, Roles
  <1>7. RowRouted(s, ToModel(n)) /\ (s = "provider" => ToModel(n).callback = "callback")
    BY <1>5, <1>6 DEF ToModel, RowRouted, Roles
  <1>8. /\ \A x \in Roles : x # s => table'[x] = table[x]
        /\ l \in Nat /\ DOMAIN table[s] = 1..l /\ DOMAIN table'[s] = 1..(l + 1)
        /\ \A i \in DOMAIN table[s] : table'[s][i] = table[s][i]
        /\ table'[s][l + 1] = ToModel(n)
    <2>1. StoreShape(I) /\ table' = [table EXCEPT ![s] = Append(@, ToModel(n))]
      BY <1>4
    <2> QED
      BY <2>1, RowCreated
  <1>9. \A i \in DOMAIN table'[s] : i = l + 1 \/ i \in DOMAIN table[s]
    BY <1>8
  <1> HIDE DEF l
  <1>10. RowsRouted'
    BY <1>7, <1>8, <1>9 DEF RowsRouted
  <1>11. Answerable => Answerable'
    BY <1>7, <1>8, <1>9 DEF Answerable, Roles
  <1> QED
    BY <1>10, <1>11, FlowsStillRouted DEF Created, Flows

\* What a row becomes that receives a message.
LEMMA ReceivedRouted ==
  ASSUME NEW I, Before(I), RowsRouted, FlowsRouted, NEW s \in Roles, NEW k \in Slots, NEW out,
         Stores(s, k, I, out)
  PROVE  LET n == http[s][k].neg IN
         /\ RowRouted(s, out.neg) /\ out.neg.state # "INITIAL"
         /\ s = "provider" /\ table[s][n.id].callback = "callback" => out.neg.callback = "callback"
  <1> DEFINE n == http[s][k].neg
             m == http[s][k].req.msg
             row == table[s][n.id]
  <1>1. /\ n.id \in DOMAIN table[s] /\ n.state = row.state /\ n.cpid = row.cpid
        /\ n.callback = row.callback /\ n.self = row.self /\ n.state \in States
        /\ m \in MessagesOver(Peer(s), I) /\ http[s][k].req \in Posted(Peer(s))
    BY StoreData
  <1>2. PICK r \in CopiesOver(s, I \cup {uuid}) :
          /\ Received(s, I \cup {uuid}, n, m, r) /\ RecvAs(n, m, r) /\ SameButAgreement(r, out.neg)
          /\ IF n.state = "INITIAL"
               THEN /\ m.type = IF s = "provider" THEN "request" ELSE "offer"
                    /\ r.initial /\ r.cpid = n.cpid
                    /\ r.ppid = IF s = "provider" THEN uuid ELSE n.ppid
               ELSE KeepsPIDs(n, r) /\ ~r.initial
    BY StoreData
  <1>3. Peer(s) \in Roles /\ Peer(s) = IF s = "consumer" THEN "provider" ELSE "consumer"
    BY DEF Peer, Roles
  <1>4. RowRouted(s, row) /\ EntryRouted(Peer(s), http[s][k].req)
    BY <1>1, <1>3 DEF RowsRouted, FlowsRouted
  <1>5. /\ r.state = TargetOf(m) /\ r.self = n.self
        /\ r.state \in validTransitions[n.state] /\ r.state \in ReceivedBy(s)
        /\ r.callback = IF n.state # "INITIAL" /\ m.type \in {"request", "offer", "agreement"}
                          THEN m.callback ELSE n.callback
        /\ n.state # "INITIAL" => m.cpid = r.cpid /\ (n.cpid # emptyUUID => r.cpid = n.cpid)
        /\ n.state = "INITIAL" => r.cpid = n.cpid
    BY <1>2 DEF Received, RecvAs, KeepsPIDs
  <1>6. m.type \in TypesFrom(Peer(s)) /\ m.event \in EventsFrom(Peer(s))
    BY <1>1 DEF MessagesOver
  <1>7. /\ out.neg.state = r.state /\ out.neg.cpid = r.cpid
        /\ out.neg.callback = r.callback /\ out.neg.self = r.self
    BY <1>2 DEF SameButAgreement
  <1> HIDE DEF n, m
  <1>8. CASE s = "consumer"
    <2>1. m.callback = "root"
      BY <1>3, <1>4, <1>8 DEF EntryRouted, m
    <2>2. r.self = "callback" /\ r.callback = "root"
      BY <1>1, <1>4, <1>5, <1>8, <2>1 DEF RowRouted
    <2>3. r.state # "INITIAL"
      BY <1>5, <1>8, SMTT(30) DEF ReceivedBy
    <2> QED
      BY <1>7, <1>8, <2>2, <2>3 DEF RowRouted
  <1>9. CASE s = "provider"
    <2>1. m.callback = "callback" /\ m.cpid # emptyUUID /\ r.self = "root"
      <3>1. m.callback = "callback" /\ m.cpid # emptyUUID
        BY <1>3, <1>4, <1>9 DEF EntryRouted, m
      <3> QED
        BY <1>1, <1>4, <1>5, <1>9, <3>1 DEF RowRouted
    <2>2. r.callback = "callback" => r.cpid # emptyUUID
      BY <1>1, <1>4, <1>5, <1>9, <2>1 DEF RowRouted
    <2>3. n.callback = "callback" => r.callback = "callback"
      BY <1>5, <2>1
    <2>4. r.callback = "root" => n.callback = "root"
      BY <1>5, <2>1
    <2>5. ASSUME r.callback = "root"
          PROVE  r.state \in {"REQUESTED", "TERMINATED"}
      <3>1. m.type # "event"
        <4>1. m.type = "event" => Answerable
          BY <1>3, <1>4, <1>9 DEF EntryRouted, m
        <4> QED
          BY <1>1, <1>9, <2>4, <2>5, <4>1 DEF Answerable
      <3>2. n.state \in {"INITIAL", "REQUESTED", "OFFERED", "TERMINATED"}
        BY <1>1, <1>4, <1>9, <2>4, <2>5 DEF RowRouted
      <3>3. /\ r.state = "VERIFIED" => n.state = "AGREED"
            /\ r.state \in {"REQUESTED", "ACCEPTED", "VERIFIED", "TERMINATED"}
        BY <1>1, <1>5, <1>9, ReceivesFrom DEF ReceivedBy
      <3>4. r.state = "ACCEPTED" => m.type = "event"
        BY <1>3, <1>5, <1>6, TypeOfTarget
      <3> QED
        BY <3>1, <3>2, <3>3, <3>4
    <2>6. r.state # "INITIAL"
      BY <1>5, <1>9 DEF ReceivedBy
    <2> QED
      BY <1>1, <1>4, <1>7, <1>9, <2>1, <2>2, <2>3, <2>4, <2>5, <2>6 DEF RowRouted, n
  <1> QED
    BY <1>8, <1>9 DEF Roles

\* The entry that is made of a row.
LEMMA EntryMadeRouted ==
  ASSUME NEW s \in Roles, NEW n, n.role = s, RowRouted(s, n), s = "consumer" => n.cpid # emptyUUID,
         n.callback \in Bases, NEW e, EntryOf(s, n, e),
         s = "consumer" /\ e.msg.type = "event" => Answerable',
         s = "provider" /\ n.callback = "callback" => Answerable',
         s = "provider" /\ n.callback = "root" =>
           e.msg.type = "termination" \/ (e.msg.type = "offer" /\ n.cpid = emptyUUID)
  PROVE  Aimed(s, e)'
  <1>1. /\ e.base = n.callback /\ e.pid = RemotePID(n) /\ e.target = TargetOf(e.msg)
        /\ e.msg.cpid = n.cpid /\ e.msg.callback = n.self
    BY DEF EntryOf
  <1>2. CASE s = "consumer"
    BY <1>1, <1>2 DEF Aimed, EntryRouted, RowRouted
  <1>3. CASE s = "provider"
    BY <1>1, <1>3 DEF Aimed, EntryRouted, RowRouted, RemotePID, Bases
  <1> QED
    BY <1>2, <1>3 DEF Roles

\* The entry that a handler's Send makes.
LEMMA StoredEntryRouted ==
  ASSUME NEW I, Before(I), NEW o \in Roles, StartedBy(o), RowsRouted, FlowsRouted,
         NEW s \in Roles, NEW k \in Slots, NEW out, Stores(s, k, I, out), NEW e \in Range(out.entries)
  PROVE  Aimed(s, e)'
  <1> DEFINE n == http[s][k].neg
             m == http[s][k].req.msg
             row == table[s][n.id]
  <1>1. /\ n.id \in DOMAIN table[s] /\ n.state = row.state /\ n.cpid = row.cpid
        /\ n.callback = row.callback /\ n.state \in States
        /\ m \in MessagesOver(Peer(s), I) /\ http[s][k].req \in Posted(Peer(s))
    BY StoreData
  <1>2. PICK r \in CopiesOver(s, I \cup {uuid}) :
          /\ Received(s, I \cup {uuid}, n, m, r) /\ RecvAs(n, m, r) /\ SameButAgreement(r, out.neg)
          /\ IF n.state = "INITIAL"
               THEN /\ m.type = IF s = "provider" THEN "request" ELSE "offer"
                    /\ r.initial /\ r.cpid = n.cpid
                    /\ r.ppid = IF s = "provider" THEN uuid ELSE n.ppid
               ELSE KeepsPIDs(n, r) /\ ~r.initial
          /\ Sent(s, r, uuid, out)
    BY StoreData
  <1>3. Peer(s) \in Roles /\ Peer(s) = IF s = "consumer" THEN "provider" ELSE "consumer"
    BY DEF Peer, Roles
  <1>4. /\ RowRouted(s, row) /\ EntryRouted(Peer(s), http[s][k].req)
        /\ KnownEntry(o, Peer(s), http[s][k].req)
    BY <1>1, <1>3 DEF RowsRouted, FlowsRouted, StartedBy, FlowsKnow
  <1>5. /\ r.state = TargetOf(m) /\ r.state \in States
        /\ r.callback = IF n.state # "INITIAL" /\ m.type \in {"request", "offer", "agreement"}
                          THEN m.callback ELSE n.callback
        /\ n.state # "INITIAL" => m.cpid = r.cpid /\ ~r.initial
        /\ n.state = "INITIAL" => r.cpid = n.cpid
        /\ s = "consumer" => r.cpid # emptyUUID
    BY <1>2 DEF Received, RecvAs, CopiesOver, CpidsOver
  <1>6. /\ m.type \in TypesFrom(Peer(s)) /\ m.event \in EventsFrom(Peer(s))
    BY <1>1 DEF MessagesOver
  <1>7. /\ out.neg.state = r.state /\ out.neg.cpid = r.cpid
        /\ out.neg.callback = r.callback /\ out.neg.self = r.self
    BY <1>2 DEF SameButAgreement
  <1>8. /\ EntryOf(s, out.neg, e) /\ e.target \in validTransitions[r.state] /\ SentAs(r, e)
    BY <1>2 DEF Sent, Range
  <1>9. /\ e.target = TargetOf(e.msg) /\ e.target \in States
        /\ e.msg.type \in TypesFrom(s) /\ e.msg.event \in EventsFrom(s)
    BY <1>8 DEF EntryOf, EntriesOver, MessagesOver
  <1>10. /\ e.target = "ACCEPTED" => s = "consumer" /\ r.state = "OFFERED"
         /\ e.target = "OFFERED" => s = "provider"
         /\ e.target = "REQUESTED" => s = "consumer"
         /\ e.target \in {"REQUESTED", "OFFERED", "ACCEPTED", "AGREED", "VERIFIED", "FINALIZED"}
         /\ e.target = "AGREED" => r.state \in {"REQUESTED", "ACCEPTED"}
         /\ e.target = "FINALIZED" => r.state = "VERIFIED"
         /\ e.target = "VERIFIED" => s = "consumer"
         /\ r.state = "REQUESTED" => e.target = IF r.initial THEN "OFFERED" ELSE "AGREED"
         /\ r.state = "OFFERED" => e.target = IF r.initial THEN "REQUESTED" ELSE "ACCEPTED"
    BY <1>5, <1>8, <1>9, SendsTo
  <1>11. RowRouted(s, out.neg) /\ out.neg.state # "INITIAL" /\ out.neg.role = s /\ out.neg.callback \in Bases
    <2>1. out.neg \in CopiesOver(s, I)
      BY DEF Stores, StoredBy
    <2>2. RowRouted(s, out.neg) /\ out.neg.state # "INITIAL"
      BY ReceivedRouted
    <2> QED
      BY <2>1, <2>2 DEF CopiesOver
  <1>12. \A x \in Roles : DOMAIN table'[x] = DOMAIN table[x]
    BY DEF Stores, Puts
  <1>13. s = "consumer" => table'["provider"] = table["provider"]
    <2> SUFFICES ASSUME s = "consumer" PROVE table'["provider"] = table["provider"]
      OBVIOUS
    <2>1. Put(s, out.neg)
      BY DEF Stores, StoredBy
    <2> QED
      BY <2>1 DEF Put, Before, LockOver, StoreShape, Roles
  <1> HIDE DEF n, m
  <1>14. s = "consumer" /\ e.msg.type = "event" => Answerable'
    <2> SUFFICES ASSUME s = "consumer", e.msg.type = "event"
                 PROVE  Answerable'
      OBVIOUS
    <2>1. e.target = "ACCEPTED"
      BY <1>9, TypeOfTarget
    <2>2. r.state = "OFFERED" /\ ~r.initial
      BY <1>10, <2>1
    <2>3. n.state # "INITIAL"
      BY <1>2, <2>2
    <2>4. m.type = "offer"
      <3>1. TargetOf(m) = "OFFERED"
        BY <1>5, <2>2
      <3> QED
        BY <1>3, <1>6, <3>1, TypeOfTarget
    <2>5. http[s][k].req.pid = m.cpid /\ m.cpid # emptyUUID
      BY <1>3, <1>4, <1>5, <2>3 DEF KnownEntry, m
    <2>6. Answerable
      <3>1. http[s][k].req.base \in Bases
        BY <1>1, <1>3, FlowShapes DEF RequestsOver, Before
      <3> QED
        BY <1>3, <1>4, <2>4, <2>5, <3>1 DEF EntryRouted, Bases, m
    <2> QED
      BY <1>13, <2>6 DEF Answerable
  <1>15. s = "provider" /\ out.neg.callback = "callback" => Answerable'
    <2> SUFFICES ASSUME s = "provider", out.neg.callback = "callback"
                 PROVE  Answerable'
      OBVIOUS
    <2>1. n.id \in DOMAIN table'["provider"] /\ table'["provider"][n.id].callback = "callback"
      BY <1>1, <1>12, Zenon DEF Stores, Puts, SameColumns, n
    <2>2. \A j \in DOMAIN table'["provider"] : j = n.id
      BY <1>1, <1>12 DEF StartedBy, Roles
    <2> QED
      BY <2>1, <2>2 DEF Answerable
  <1>16. s = "provider" /\ out.neg.callback = "root" =>
           e.msg.type = "termination" \/ (e.msg.type = "offer" /\ out.neg.cpid = emptyUUID)
    <2> SUFFICES ASSUME s = "provider", out.neg.callback = "root"
                 PROVE  e.msg.type = "offer" /\ out.neg.cpid = emptyUUID
      OBVIOUS
    <2>1. m.callback = "callback"
      BY <1>3, <1>4 DEF EntryRouted, m
    <2>2. r.state \in {"REQUESTED", "OFFERED", "TERMINATED"}
      BY <1>7, <1>11 DEF RowRouted
    <2>3. r.state = "REQUESTED" /\ TargetOf(m) = "REQUESTED"
      BY <1>5, <1>8, <1>10, <2>2 DEF validTransitions
    <2>4. m.type = "request"
      BY <1>3, <1>6, <2>3, TypeOfTarget
    <2>5. n.state = "INITIAL" /\ r.callback = n.callback
      BY <1>5, <1>7, <2>1, <2>4
    <2>6. row.cpid = emptyUUID
      BY <1>1, <1>4, <1>7, <2>5 DEF RowRouted
    <2>7. e.target = "OFFERED"
      BY <1>2, <1>10, <2>3, <2>5
    <2>8. e.msg.type = "offer"
      BY <1>9, <2>7, TypeOfTarget, Zenon
    <2> QED
      BY <1>1, <1>5, <1>7, <2>5, <2>6, <2>8
  <1> QED
    BY <1>5, <1>7, <1>8, <1>11, <1>14, <1>15, <1>16, EntryMadeRouted

LEMMA StoresRouted ==
  ASSUME NEW I, Before(I), NEW o \in Roles, StartedBy(o), RowsRouted, FlowsRouted,
         NEW s \in Roles, NEW k \in Slots, NEW out, Stores(s, k, I, out)
  PROVE  RowsRouted' /\ FlowsRouted'
  <1>1. RowsRouted' /\ (Answerable => Answerable')
    BY ReceivedRouted, RowPutRouted DEF Stores
  <1>2. \A e \in Range(out.entries) : Aimed(s, e)'
    BY StoredEntryRouted
  <1>3. /\ Stored(out).entries = out.entries
        /\ Grows(s, IF out.neg.newAgreement THEN {} ELSE Range(out.entries),
                    IF out.neg.newAgreement THEN {Stored(out)} ELSE {})
    BY DEF Stored, Stores
  <1>4. FlowsRouted'
    BY <1>1, <1>2, <1>3, FlowsStillRouted
  <1> QED
    BY <1>1, <1>4

LEMMA AgreesRouted ==
  ASSUME RowsRouted, FlowsRouted, NEW s \in Roles, NEW x, Agrees(s, x)
  PROVE  RowsRouted' /\ FlowsRouted'
  <1>1. RowsRouted' /\ (Answerable => Answerable')
    BY SameRowsRouted DEF Agrees
  <1>2. \A e \in Range(x.entries) : Aimed(s, e)'
    BY <1>1 DEF Agrees, FlowsRouted, Aimed, EntryRouted
  <1>3. FlowsRouted'
    BY <1>1, <1>2, FlowsStillRouted DEF Agrees
  <1> QED
    BY <1>1, <1>3

\* A provider that completes a message and has learned nobody's address has
\* offered.
LEMMA CompletesRouted ==
  ASSUME NEW I, Before(I), RowsRouted, FlowsRouted, NEW s \in Roles, NEW i, NEW n, Completes(s, i, n)
  PROVE  RowsRouted' /\ FlowsRouted'
  <1> DEFINE e == worker[s].op.entry
             r == table[s][i]
  <1>1. /\ Puts(s, i, n) /\ i \in DOMAIN table[s] /\ KeptPIDs(s, r, n) /\ Flows
        /\ n.state = e.target /\ n.callback = r.callback /\ n.self = r.self
    BY DEF Completes, Puts
  <1>2. e \in Held(s)
    BY DEF Completes, Held, AtWorker
  <1>3. RowRouted(s, r) /\ Aimed(s, e) /\ e \in EntriesOver(s, I)
    BY <1>1, <1>2, FlowShapes DEF RowsRouted, FlowsRouted, Before
  <1>4. /\ e.base \in Bases /\ e.msg.type \in TypesFrom(s) /\ e.msg.event \in EventsFrom(s)
        /\ e.target = TargetOf(e.msg)
    BY <1>3 DEF EntriesOver, MessagesOver, Aimed
  <1> HIDE DEF e, r
  <1>5. e.target # "INITIAL" /\ (e.target = "OFFERED" <=> e.msg.type = "offer")
        /\ (e.target = "TERMINATED" <=> e.msg.type = "termination")
    BY <1>4, TypeOfTarget
  <1>6. s = "provider" /\ r.callback = "root" => e.target \in {"OFFERED", "TERMINATED"}
    <2> SUFFICES ASSUME s = "provider", r.callback = "root"
                 PROVE  e.target \in {"OFFERED", "TERMINATED"}
      OBVIOUS
    <2>1. ~Answerable
      BY <1>1 DEF Answerable, r
    <2>2. e.base = "root"
      BY <1>3, <1>4, <2>1 DEF Aimed, EntryRouted, Bases
    <2> QED
      BY <1>3, <1>5, <2>2 DEF Aimed, EntryRouted
  <1>7. r.cpid # emptyUUID => n.cpid = r.cpid
    BY <1>1 DEF KeptPIDs
  <1>8. RowRouted(s, n)
    BY <1>1, <1>3, <1>5, <1>6, <1>7 DEF RowRouted
  <1>9. RowsRouted' /\ (Answerable => Answerable')
    BY <1>1, <1>8, RowPutRouted DEF r
  <1> QED
    BY <1>1, <1>9, FlowsStillRouted DEF Flows

\* A step that counts as an operator's call leaves the theorem only downloads.
LEMMA CallsRouted ==
  ASSUME NEW I, Before(I), RowsRouted, FlowsRouted, Starts \subseteq {"download"},
         NEW s \in Roles, NEW i \in DOMAIN table[s], NEW n, NEW out, Calls(s, i, I, n, out)
  PROVE  RowsRouted' /\ FlowsRouted'
  <1> DEFINE r == table[s][i]
  <1>1. /\ RowRouted(s, r) /\ Puts(s, i, out.neg) /\ out.neg \in CopiesOver(s, I)
        /\ n.state = r.state /\ n.cpid = r.cpid /\ n.callback = r.callback /\ n.self = r.self
    BY DEF RowsRouted, Calls
  <1>2. /\ out.neg.state = r.state /\ out.neg.cpid = r.cpid
        /\ out.neg.callback = r.callback /\ out.neg.self = r.self
    BY <1>1 DEF Calls, SameButAgreement
  <1>3. /\ RowRouted(s, out.neg) /\ out.neg.role = s /\ out.neg.callback \in Bases
        /\ s = "consumer" => out.neg.cpid # emptyUUID
    BY <1>1, <1>2 DEF RowRouted, CopiesOver, CpidsOver
  <1>4. RowsRouted' /\ (Answerable => Answerable')
    BY <1>1, <1>2, <1>3, RowPutRouted
  <1>5. Answerable
    <2>1. \A j \in DOMAIN table["provider"] : table["provider"][j] \in RowsOver("provider", I)
      BY RowShapes DEF Before, LockOver, Roles
    <2> QED
      BY <2>1 DEF Answerable, RowsRouted, RowRouted, RowsOver, Bases, Roles
  <1>6. s = "provider" => out.neg.callback = "callback"
    BY <1>3 DEF RowRouted, Bases
  <1>7. \A e \in Range(out.entries) : Aimed(s, e)'
    <2>1. ASSUME NEW e \in Range(out.entries)
          PROVE  EntryOf(s, out.neg, e)
      BY <2>1 DEF Calls, Sent, Range
    <2> QED
      BY <1>3, <1>4, <1>5, <1>6, <2>1, EntryMadeRouted
  <1>8. /\ Stored(out).entries = out.entries
        /\ Grows(s, IF out.neg.newAgreement THEN {} ELSE Range(out.entries),
                    IF out.neg.newAgreement THEN {Stored(out)} ELSE {})
    BY DEF Stored, Calls
  <1> QED
    BY <1>4, <1>7, <1>8, FlowsStillRouted

LEMMA AsksRouted ==
  ASSUME NEW I, Before(I), RowsRouted, FlowsRouted, Starts \subseteq {"download"},
         NEW s \in Roles, NEW i, NEW e, Asks(s, i, e)
  PROVE  RowsRouted' /\ FlowsRouted'
  <1> DEFINE r == table[s][i]
             n == FromModel(r, i)
  <1>1. i \in DOMAIN table[s] /\ EntryOf(s, n, e) /\ e.msg.type = "termination" /\ Grows(s, {e}, {})
    BY DEF Asks
  <1>2. r \in RowsOver(s, I)
    BY <1>1, RowShapes DEF Before, LockOver
  <1>3. RowRouted(s, n) /\ n.role = s /\ n.callback \in Bases /\ (s = "consumer" => n.cpid # emptyUUID)
    BY <1>1, <1>2 DEF RowsRouted, RowRouted, FromModel, RowsOver, CpidsOver
  <1> HIDE DEF n
  <1>4. RowsRouted' /\ (Answerable => Answerable')
    BY SameRowsRouted DEF Asks
  <1>5. Answerable
    <2>1. \A j \in DOMAIN table["provider"] : table["provider"][j] \in RowsOver("provider", I)
      BY RowShapes DEF Before, LockOver, Roles
    <2> QED
      BY <2>1 DEF Answerable, RowsRouted, RowRouted, RowsOver, Bases, Roles
  <1>6. Aimed(s, e)'
    BY <1>1, <1>3, <1>4, <1>5, EntryMadeRouted
  <1> QED
    BY <1>1, <1>4, <1>6, FlowsStillRouted

\* Nothing is under way before the first call.
LEMMA BeginsRouted ==
  ASSUME NEW I, LockInv, Before(I), RowsRouted, FlowsRouted, "request" \notin Starts,
         NEW s \in Roles, NEW n, NEW r, NEW entries, Begins(s, I, n, r, entries)
  PROVE  RowsRouted' /\ FlowsRouted'
  <1>1. /\ FirstOf(s, n) /\ FirstAddress(s, n) /\ SameColumns(n, r) /\ n \in CopiesOver(s, I)
        /\ \A x \in Roles : DOMAIN table[x] = {}
        /\ table' = [table EXCEPT ![s] = <<r>>] /\ Grows(s, Range(entries), {}) /\ uuid = 1
    BY DEF Begins
  <1>2. table'[s] = <<r>> /\ \A x \in Roles : x # s => table'[x] = table[x]
    BY <1>1 DEF Before, LockOver, StoreShape
  <1>3. RowRouted(s, n)
    <2>1. n.role = s /\ n.state = "INITIAL" /\ RemotePID(n) = emptyUUID
      BY <1>1 DEF FirstOf
    <2>2. s = "provider" => n.cpid = emptyUUID
      BY <2>1 DEF RemotePID
    <2> QED
      BY <1>1, <2>1, <2>2 DEF FirstAddress, RowRouted
  <1>4. RowRouted(s, r)
    BY <1>1, <1>3 DEF SameColumns, RowRouted
  <1>5. RowsRouted'
    BY <1>1, <1>2, <1>4 DEF RowsRouted
  <1>6. Answerable' \/ s = "provider"
    BY <1>1, <1>2 DEF Answerable, Roles
  <1>7. ASSUME NEW e, EntryOf(s, n, e), SentAs(n, e), e.target \in {"REQUESTED", "OFFERED", "TERMINATED"}
        PROVE  Aimed(s, e)'
    <2>1. /\ e.target = TargetOf(e.msg) /\ e.msg.type \in TypesFrom(s) /\ e.msg.event \in EventsFrom(s)
      BY <1>7 DEF EntryOf, EntriesOver, MessagesOver
    <2>2. e.msg.type = IF s = "consumer" THEN "request" ELSE "offer"
      BY <1>7, <2>1, TypeOfTarget DEF SentAs, TypesFrom
    <2>3. /\ n.role = s /\ n.callback = "root" /\ (s = "provider" => n.cpid = emptyUUID)
          /\ s = "consumer" => n.cpid # emptyUUID
      BY <1>1 DEF FirstOf, FirstAddress, RemotePID, CopiesOver, CpidsOver, Roles
    <2> QED
      BY <1>3, <1>7, <2>2, <2>3, EntryMadeRouted DEF Bases, Roles
  <1>8. \A e \in Range(entries) : Aimed(s, e)'
    BY <1>7 DEF Begins, Range
  <1>9. ASSUME NEW x \in Roles
        PROVE  /\ \A e \in Held(x) : Aimed(x, e)'
               /\ \A y \in Storing(x) : \A e \in Range(y.entries) : Aimed(x, e)'
               /\ \A q \in Posted(x) : EntryRouted(x, q)'
    <2>1. IDs = {0} /\ LockOver(IDs)
      BY <1>1 DEF LockInv, IDs
    <2>2. \A q : q.msg \in MessagesOver(x, IDs) /\ q.pid \in IDs /\ q.base \in Bases /\ EntryRouted(x, q) =>
            EntryRouted(x, q)'
      BY <2>1 DEF EntryRouted, MessagesOver, emptyUUID, Bases, Roles
    <2>3. \A q : q \in EntriesOver(x, IDs) \/ q \in RequestsOver(Peer(x), IDs) =>
            q.msg \in MessagesOver(x, IDs) /\ q.pid \in IDs /\ q.base \in Bases
      BY DEF EntriesOver, RequestsOver, Peer, Roles
    <2>4. /\ \A e \in Held(x) : e \in EntriesOver(x, IDs)
          /\ \A y \in Storing(x) : \A e \in Range(y.entries) : e \in EntriesOver(x, IDs)
          /\ \A q \in Posted(x) : q \in RequestsOver(Peer(x), IDs)
      BY <2>1, FlowShapes
    <2> QED
      BY <2>2, <2>3, <2>4 DEF FlowsRouted, Aimed
  <1>10. FlowsRouted'
    <2>1. ASSUME NEW x \in Roles
          PROVE  /\ \A e \in Held(x)' : Aimed(x, e)'
                 /\ \A y \in Storing(x)' : \A e \in Range(y.entries) : Aimed(x, e)'
      BY <1>1, <1>8, <1>9 DEF Grows
    <2>2. ASSUME NEW x \in Roles, NEW q \in Posted(x)'
          PROVE  EntryRouted(x, q)'
      <3>1. CASE q \in Posted(x)
        BY <1>9, <3>1
      <3>2. CASE \E e \in Held(x) : q = RequestOf(e)
        BY <1>9, <3>2 DEF Aimed, RequestOf, EntryRouted
      <3> QED
        BY <1>1, <2>2, <3>1, <3>2 DEF Grows
    <2> QED
      BY <2>1, <2>2 DEF FlowsRouted
  <1> QED
    BY <1>5, <1>10

\* Fewer calls were made before a step than after it.
LEMMA RoutableBefore ==
  ASSUME WithinBounds, [Next]_vars, Routable'
  PROVE  Routable
  <1>1. calls' \in {calls, calls + 1} /\ calls \in Nat
    BY NextBounds, BoundsAssumption DEF CountersMove, WithinBounds
  <1> QED
    BY <1>1 DEF Routable

LEMMA StepRouted ==
  ASSUME NEW I, LockInv, Before(I), OneInv, RowsRouted, FlowsRouted, calls \in Nat, Routable',
         Quiet \/ \E s \in Roles : Moves(s, I)
  PROVE  RowsRouted' /\ FlowsRouted'
  <1>1. PICK o \in Roles : StartedBy(o)
    BY DEF OneInv
  <1>2. CASE Quiet
    BY <1>2, SameRowsRouted, FlowsStillRouted DEF Quiet, Flows, Roles
  <1>3. ASSUME NEW s \in Roles, Moves(s, I)
        PROVE  RowsRouted' /\ FlowsRouted'
    <2>1. "request" \notin Starts /\ (calls' # 0 => Starts \subseteq {"download"})
      BY DEF Routable
    <2>2. ASSUME NEW k \in Slots, NEW i, Locked(s, k, i)
          PROVE  RowsRouted' /\ FlowsRouted'
      BY <2>2, SameRowsRouted, FlowsStillRouted DEF Locked, Flows
    <2>3. ASSUME NEW i, Acquired(s, i)
          PROVE  RowsRouted' /\ FlowsRouted'
      BY <2>3, SameRowsRouted, FlowsStillRouted DEF Acquired, Flows
    <2>4. ASSUME NEW i \in DOMAIN table[s], NEW n, NEW out, Calls(s, i, I, n, out)
          PROVE  RowsRouted' /\ FlowsRouted'
      BY <2>1, <2>4, CallsRouted DEF Calls
    <2>5. ASSUME NEW i, NEW e, Asks(s, i, e)
          PROVE  RowsRouted' /\ FlowsRouted'
      BY <2>1, <2>5, AsksRouted DEF Asks
    <2>6. ASSUME NEW n, NEW r, NEW entries, Begins(s, I, n, r, entries)
          PROVE  RowsRouted' /\ FlowsRouted'
      BY <2>1, <2>6, BeginsRouted
    <2> QED
      BY <1>1, <1>3, <2>2, <2>3, <2>4, <2>5, <2>6, CreatedRouted, StoresRouted, AgreesRouted,
         CompletesRouted DEF Moves
  <1> QED
    BY <1>2, <1>3

LEMMA NextRouted ==
  ASSUME WithinBounds, LockInv, OneInv, RouteInv, [Next]_vars
  PROVE  RouteInv'
  <1> SUFFICES ASSUME Routable'
               PROVE  RowsRouted' /\ FlowsRouted'
    BY DEF RouteInv
  <1>1. RowsRouted /\ FlowsRouted
    BY RoutableBefore DEF RouteInv
  <1>2. calls \in Nat
    BY BoundsAssumption DEF WithinBounds
  <1>3. CASE Next
    <2>1. PICK J : J = IDs'
      OBVIOUS
    <2>2. Before(J)
      BY <1>3, <2>1, NextIDs
    <2>3. Quiet \/ \E s \in Roles : Moves(s, J)
      BY <1>3, <2>2, StepMoves
    <2> QED
      BY <1>1, <1>2, <2>2, <2>3, StepRouted
  <1>4. CASE UNCHANGED vars
    <2>1. Quiet
      BY <1>4, StutterQuiet DEF vars
    <2> QED
      BY <1>1, <2>1, SameRowsRouted, FlowsStillRouted DEF Quiet, Flows, Roles
  <1> QED
    BY <1>3, <1>4

LEMMA InitRouted ==
  ASSUME Init
  PROVE  RouteInv
  BY NothingUnderWay DEF RouteInv, RowsRouted, FlowsRouted

LEMMA OneInvariant == Spec => []OneInv
  BY InitOne, NextOne, LockInvariant, PTL DEF Spec

LEMMA RouteInvariant == Spec => []RouteInv
  BY InitRouted, NextRouted, BoundsInvariant, LockInvariant, OneInvariant, PTL DEF Spec

\* Every request reaches a handler: a connector writes to the callback root of
\* its peer only once the peer is known to listen there and by its PID, and
\* before that only with a first offer or a request (makeContractRequestFunction
\* takes the URL from Negotiation.GetCallback, which the messages of the peer
\* set).  It holds for the negotiations that downloads, uploads and
\* ContractOffer start; when operators call as well, for downloads: a provider
\* whose offer is accepted by a call has not learned the address of its
\* consumer, and ContractRequest names an address that is not the consumer's.
THEOREM MessagesAreRouted == Spec => [](Routable => Routed)
  <1>1. LockInv /\ OneInv /\ RouteInv => (Routable => Routed)
    <2> SUFFICES ASSUME LockInv, OneInv, RouteInv, Routable, NEW s \in Roles, NEW k \in Slots,
                        http[s][k].pc = "arrived"
                 PROVE  Route(http[s][k].req.base, http[s][k].req.pid, http[s][k].req.msg.type) # "none"
      BY DEF Routed
    <2> DEFINE q == http[s][k].req
    <2>1. Peer(s) \in Roles /\ Peer(Peer(s)) = s /\ Peer(s) = IF s = "consumer" THEN "provider" ELSE "consumer"
      BY DEF Peer, Roles
    <2>2. q \in Posted(Peer(s))
      BY <2>1 DEF Posted
    <2>3. EntryRouted(Peer(s), q) /\ q \in RequestsOver(s, IDs)
      BY <2>1, <2>2, FlowShapes DEF RouteInv, FlowsRouted, LockInv
    <2>4. q.base \in Bases /\ q.msg.type \in TypesFrom(Peer(s))
      BY <2>3 DEF RequestsOver, MessagesOver
    <2> HIDE DEF q
    <2>5. CASE s = "provider"
      BY <2>1, <2>3, <2>4, <2>5 DEF EntryRouted, TypesFrom, Route, Bases, q
    <2>6. CASE s = "consumer"
      BY <2>1, <2>3, <2>4, <2>6 DEF EntryRouted, TypesFrom, Route, Bases, q
    <2> QED
      BY <2>5, <2>6 DEF q, Roles
  <1> QED
    BY <1>1, LockInvariant, OneInvariant, RouteInvariant, PTL

-----------------------------------------------------------------------------
(* The PIDs of the two halves                                              *)

RemotePIDOf(s, r) == IF s = "consumer" THEN r.ppid ELSE r.cpid

\* Connector s has a negotiation with these PIDs, and keeps them.
Settled(s, ppid, cpid) ==
  \E i \in DOMAIN table[s] :
    table[s][i].ppid = ppid /\ table[s][i].cpid = cpid /\ table[s][i].state # "INITIAL"

\* A row that names a peer names the PIDs its peer has.
RowPaired(o, r) ==
  /\ RemotePIDOf(o, r) # emptyUUID => Settled(Peer(o), r.ppid, r.cpid)
  /\ r.state = "INITIAL" => RemotePIDOf(o, r) = emptyUUID

RowsPaired(o) == \A i \in DOMAIN table[o] : RowPaired(o, table[o][i])

\* What the peer of o sends and answers is about the PIDs it has.
FlowsSettled(p) ==
  /\ \A e \in Held(p) : Settled(p, e.msg.ppid, e.msg.cpid)
  /\ \A x \in Storing(p) : \A e \in Range(x.entries) : Settled(p, e.msg.ppid, e.msg.cpid)
  /\ \A q \in Posted(p) : Settled(p, q.msg.ppid, q.msg.cpid)
  /\ \A a \in Acks(p) : Settled(p, a.ppid, a.cpid)

\* The connector that began the negotiation learns its peer's PID from what the
\* peer has stored.
PairsKnown(o) == FlowsSettled(Peer(o)) /\ RowsPaired(o)

PairInv ==
  calls = 0 => /\ \E o \in Roles : StartedBy(o) /\ PairsKnown(o)
               /\ uuid = 1 => \A o \in Roles : PairsKnown(o)

\* No row is ever deleted.
LEMMA RowsStay ==
  ASSUME NEW I, Before(I), Quiet \/ \E s \in Roles : Moves(s, I), NEW x \in Roles
  PROVE  DOMAIN table[x] \subseteq DOMAIN table'[x]
  <1>1. CASE SameRows
    BY <1>1 DEF SameRows
  <1>2. ASSUME NEW s \in Roles, NEW i, NEW n, Puts(s, i, n)
        PROVE  DOMAIN table[x] \subseteq DOMAIN table'[x]
    BY <1>2 DEF Puts
  <1>3. ASSUME NEW s \in Roles, NEW k \in Slots, NEW n, Created(s, k, I, n)
        PROVE  DOMAIN table[x] \subseteq DOMAIN table'[x]
    <2>1. StoreShape(I) /\ table' = [table EXCEPT ![s] = Append(@, ToModel(n))]
      BY <1>3 DEF Created, Inserted, Before, LockOver
    <2>2. /\ x # s => table'[x] = table[x]
          /\ Len(table[s]) \in Nat /\ DOMAIN table[s] = 1..Len(table[s])
          /\ DOMAIN table'[s] = 1..(Len(table[s]) + 1)
      BY <2>1, RowCreated
    <2> QED
      BY <2>2
  <1>4. ASSUME NEW s \in Roles, NEW n, NEW r, NEW entries, Begins(s, I, n, r, entries)
        PROVE  DOMAIN table[x] \subseteq DOMAIN table'[x]
    BY <1>4 DEF Begins
  <1>5. ASSUME NEW s \in Roles, Moves(s, I)
        PROVE  DOMAIN table[x] \subseteq DOMAIN table'[x]
    <2>1. SameRows \/ (\E i, n : Puts(s, i, n))
            \/ (\E k \in Slots : \E n : Created(s, k, I, n))
            \/ \E n, r, entries : Begins(s, I, n, r, entries)
      <3>1. /\ \A k, i : Locked(s, k, i) => SameRows
            /\ \A i : Acquired(s, i) => SameRows
            /\ \A y : Agrees(s, y) => SameRows
            /\ \A i, e : Asks(s, i, e) => SameRows
        BY DEF Locked, Acquired, Agrees, Asks
      <3>2. /\ \A k, out : Stores(s, k, I, out) => \E i, n : Puts(s, i, n)
            /\ \A i, n : Completes(s, i, n) => Puts(s, i, n)
            /\ \A i, n, out : Calls(s, i, I, n, out) => Puts(s, i, out.neg)
        BY DEF Stores, Completes, Calls
      <3> QED
        BY <1>5, <3>1, <3>2, Zenon DEF Moves
    <2> QED
      BY <1>1, <1>2, <1>3, <1>4, <2>1
  <1> QED
    BY <1>1, <1>5 DEF Quiet

\* The PIDs that both are known stay.
LEMMA SettledStays ==
  ASSUME NEW I, Before(I), NEW o \in Roles, RowsKnow(o), NEW p, p = Peer(o), AllForward,
         DOMAIN table[p] \subseteq DOMAIN table'[p], NEW ppid, NEW cpid, Settled(p, ppid, cpid)
  PROVE  Settled(p, ppid, cpid)'
  <1>1. p \in Roles /\ o = IF p = "consumer" THEN "provider" ELSE "consumer"
    BY DEF Peer, Roles
  <1>2. PICK i \in DOMAIN table[p] :
          table[p][i].ppid = ppid /\ table[p][i].cpid = cpid /\ table[p][i].state # "INITIAL"
    BY DEF Settled
  <1> DEFINE r == table[p][i]
             r1 == table'[p][i]
  <1>3. r \in RowsOver(p, I) /\ r.state \in States
    BY <1>1, RowShapes DEF Before, LockOver
  <1>4. r.ppid # emptyUUID /\ r.cpid # emptyUUID
    BY <1>1, <1>3 DEF RowsKnow, Knows, RowsOver, PpidsOver, CpidsOver, Roles, emptyUUID
  <1>5. ForwardRow(r, r1)
    BY <1>1 DEF AllForward
  <1> HIDE DEF r, r1
  <1>6. r1.ppid = r.ppid /\ r1.cpid = r.cpid
    BY <1>2, <1>4, <1>5 DEF ForwardRow, KeepsPIDs, r
  <1>7. r1.state # "INITIAL"
    BY <1>2, <1>3, <1>5 DEF ForwardRow, validTransitions, States, r
  <1> QED
    BY <1>2, <1>6, <1>7 DEF Settled, r, r1

\* What every step does that creates no first negotiation.
PairsMove(o) ==
  \A ppid, cpid : Settled(Peer(o), ppid, cpid) => Settled(Peer(o), ppid, cpid)'

LEMMA FlowsStillSettled ==
  ASSUME NEW o \in Roles, PairsMove(o), FlowsSettled(Peer(o)), NEW s \in Roles, NEW H, NEW S, NEW A,
         Grows(s, H, S), Acked(s, A),
         s = Peer(o) =>
           /\ \A e \in H : Settled(s, e.msg.ppid, e.msg.cpid)'
           /\ \A x \in S : \A e \in Range(x.entries) : Settled(s, e.msg.ppid, e.msg.cpid)'
           /\ \A a \in A : Settled(s, a.ppid, a.cpid)'
  PROVE  FlowsSettled(Peer(o))'
  <1> DEFINE p == Peer(o)
  <1>1. p \in Roles
    BY DEF Peer, Roles
  <1>2. /\ \A e \in Held(p)' : Settled(p, e.msg.ppid, e.msg.cpid)'
        /\ \A x \in Storing(p)' : \A e \in Range(x.entries) : Settled(p, e.msg.ppid, e.msg.cpid)'
    BY <1>1 DEF FlowsSettled, PairsMove, Grows
  <1>3. \A a \in Acks(p)' : Settled(p, a.ppid, a.cpid)'
    BY <1>1 DEF FlowsSettled, PairsMove, Acked
  <1>4. ASSUME NEW q \in Posted(p)'
        PROVE  Settled(p, q.msg.ppid, q.msg.cpid)'
    <2>1. CASE q \in Posted(p)
      BY <2>1 DEF FlowsSettled, PairsMove
    <2>2. CASE \E e \in Held(p) : q = RequestOf(e)
      <3>1. PICK e \in Held(p) : q = RequestOf(e)
        BY <2>2
      <3>2. q.msg = e.msg
        BY <3>1 DEF RequestOf
      <3> QED
        BY <3>2 DEF FlowsSettled, PairsMove
    <2> QED
      BY <1>1, <1>4, <2>1, <2>2 DEF Grows
  <1> QED
    BY <1>2, <1>3, <1>4 DEF FlowsSettled

LEMMA FlowsSettledOn ==
  ASSUME NEW o \in Roles, PairsMove(o), FlowsSettled(Peer(o)), Flows
  PROVE  FlowsSettled(Peer(o))'
  BY FlowsStillSettled DEF Flows

LEMMA SameRowsPaired ==
  ASSUME NEW o \in Roles, PairsMove(o), RowsPaired(o), SameRows
  PROVE  RowsPaired(o)'
  <1>1. \A i \in DOMAIN table[o] : SameColumns(table[o][i], table'[o][i])
    BY DEF SameRows
  <1>2. \A r, r1 : SameColumns(r, r1) /\ RowPaired(o, r) => RowPaired(o, r1)'
    BY DEF SameColumns, RowPaired, RemotePIDOf, PairsMove
  <1> QED
    BY <1>1, <1>2 DEF SameRows, RowsPaired

LEMMA RowPutPaired ==
  ASSUME NEW o \in Roles, PairsMove(o), RowsPaired(o), NEW s \in Roles, NEW i, NEW n, Puts(s, i, n),
         s = o => RowPaired(o, n)'
  PROVE  RowsPaired(o)'
  <1>1. \A r : RowPaired(o, r) => RowPaired(o, r)'
    BY DEF RowPaired, RemotePIDOf, PairsMove
  <1>2. \A r, r1 : SameColumns(r, r1) /\ RowPaired(o, r)' => RowPaired(o, r1)'
    BY DEF SameColumns, RowPaired, RemotePIDOf, Settled
  <1>3. \A j \in DOMAIN table[o] : o # s \/ j # i => RowPaired(o, table[o][j])'
    BY <1>1 DEF Puts, RowsPaired
  <1>4. s = o => RowPaired(o, table[o][i])'
    BY <1>2 DEF Puts
  <1> QED
    BY <1>3, <1>4 DEF Puts, RowsPaired

\* The row that is made of a message is one of the peer's.
LEMMA CreatedPaired ==
  ASSUME NEW I, Before(I), NEW o \in Roles, StartedBy(o), PairsMove(o), PairsKnown(o),
         NEW s \in Roles, NEW k \in Slots, NEW n, Created(s, k, I, n)
  PROVE  PairsKnown(o)'
  <1> DEFINE q == http[s][k].req
             p == Peer(s)
  <1>1. p \in Roles /\ Peer(p) = s /\ s = IF p = "consumer" THEN "provider" ELSE "consumer"
    BY DEF Peer, Roles
  <1>2. q \in Posted(p) /\ q.pid = emptyUUID
    BY <1>1 DEF Created, Posted
  <1>3. /\ Knows(o, q.msg.ppid, q.msg.cpid)
        /\ emptyUUID = IF p = "consumer" THEN q.msg.ppid ELSE q.msg.cpid
    BY <1>1, <1>2 DEF StartedBy, FlowsKnow, KnownEntry
  <1>4. s # o
    BY <1>1, <1>3 DEF Knows, emptyUUID
  <1>5. table'[o] = table[o]
    <2>1. StoreShape(I) /\ table' = [table EXCEPT ![s] = Append(@, ToModel(n))]
      BY DEF Created, Inserted, Before, LockOver
    <2> QED
      BY <1>4, <2>1, RowCreated
  <1>6. \A r : RowPaired(o, r) => RowPaired(o, r)'
    BY DEF RowPaired, RemotePIDOf, PairsMove
  <1>7. RowsPaired(o)'
    BY <1>5, <1>6 DEF PairsKnown, RowsPaired
  <1>8. FlowsSettled(Peer(o))'
    BY FlowsSettledOn DEF Created, PairsKnown
  <1> QED
    BY <1>7, <1>8 DEF PairsKnown

\* A handler answers with the PIDs of the row it has stored, and stores those
\* that its peer named.
LEMMA StoresPaired ==
  ASSUME NEW I, Before(I), NEW o \in Roles, PairsMove(o), PairsKnown(o),
         NEW s \in Roles, NEW k \in Slots, NEW out, Stores(s, k, I, out)
  PROVE  PairsKnown(o)'
  <1> DEFINE n == http[s][k].neg
             m == http[s][k].req.msg
             row == table[s][n.id]
  <1>1. /\ n.id \in DOMAIN table[s] /\ n.state = row.state /\ n.ppid = row.ppid /\ n.cpid = row.cpid
        /\ http[s][k].req \in Posted(Peer(s)) /\ n.state \in States
    BY StoreData
  <1>2. PICK r \in CopiesOver(s, I \cup {uuid}) :
          /\ Received(s, I \cup {uuid}, n, m, r) /\ RecvAs(n, m, r)
          /\ IF n.state = "INITIAL"
               THEN r.cpid = n.cpid /\ r.ppid = IF s = "provider" THEN uuid ELSE n.ppid
               ELSE KeepsPIDs(n, r)
          /\ SameButAgreement(r, out.neg) /\ Sent(s, r, uuid, out)
    BY StoreData
  <1>3. /\ out.neg.state # "INITIAL" /\ out.neg.ppid = r.ppid /\ out.neg.cpid = r.cpid
        /\ n.state # "INITIAL" => m.ppid = r.ppid /\ m.cpid = r.cpid
    BY <1>2 DEF Received, RecvAs, ReceivedBy, SameButAgreement
  <1>4. Puts(s, n.id, out.neg)
    BY DEF Stores
  <1> HIDE DEF m, n
  <1>5. s = o => RowPaired(o, out.neg)'
    <2> SUFFICES ASSUME s = o, RemotePIDOf(o, out.neg) # emptyUUID
                 PROVE  Settled(Peer(o), out.neg.ppid, out.neg.cpid)
      BY <1>3 DEF RowPaired, RemotePIDOf, PairsMove
    <2>1. n.state # "INITIAL"
      <3> SUFFICES ASSUME n.state = "INITIAL"
                   PROVE  FALSE
        OBVIOUS
      <3>1. RemotePIDOf(o, row) = emptyUUID
        BY <1>1 DEF PairsKnown, RowsPaired, RowPaired
      <3> QED
        BY <1>1, <1>2, <1>3, <3>1 DEF RemotePIDOf, Roles
    <2>2. Settled(Peer(o), m.ppid, m.cpid)
      BY <1>1 DEF PairsKnown, FlowsSettled, m
    <2> QED
      BY <1>3, <2>1, <2>2
  <1>6. Settled(s, out.neg.ppid, out.neg.cpid)'
    <2>1. n.id \in DOMAIN table'[s] /\ SameColumns(out.neg, table'[s][n.id])
      BY <1>4 DEF Puts
    <2> QED
      BY <1>3, <2>1 DEF Settled, SameColumns
  <1>7. \A e \in Range(out.entries) : e.msg.ppid = out.neg.ppid /\ e.msg.cpid = out.neg.cpid
    BY <1>2 DEF Sent, EntryOf, Range
  <1>8. FlowsSettled(Peer(o))'
    <2> DEFINE H == IF out.neg.newAgreement THEN {} ELSE Range(out.entries)
               S == IF out.neg.newAgreement THEN {Stored(out)} ELSE {}
    <2>1. Grows(s, H, S) /\ Acked(s, {AckOf(out.neg)})
      BY DEF Stores
    <2>2. \A e \in Range(out.entries) : Settled(s, e.msg.ppid, e.msg.cpid)'
      BY <1>6, <1>7
    <2>3. /\ \A e \in H : Settled(s, e.msg.ppid, e.msg.cpid)'
          /\ \A x \in S : \A e \in Range(x.entries) : Settled(s, e.msg.ppid, e.msg.cpid)'
          /\ \A a \in {AckOf(out.neg)} : Settled(s, a.ppid, a.cpid)'
      BY <1>6, <2>2 DEF Stored, AckOf
    <2> HIDE DEF H, S
    <2> QED
      BY <2>1, <2>3, FlowsStillSettled DEF PairsKnown
  <1>9. RowsPaired(o)'
    BY <1>5, RowPutPaired DEF Stores, PairsKnown
  <1> QED
    BY <1>8, <1>9 DEF PairsKnown

\* A response brings the missing PID, if it names the other one.
LEMMA PIDLearned ==
  ASSUME NEW s, NEW I, NEW n \in CopiesOver(s, I), NEW ack
  PROVE  LET r == ApplyResponse(n, ack) IN
         \/ r.ppid = n.ppid /\ r.cpid = n.cpid
         \/ n.ppid = emptyUUID /\ ack.cpid = n.cpid /\ r.ppid = ack.ppid /\ r.cpid = n.cpid
         \/ n.cpid = emptyUUID /\ ack.ppid = n.ppid /\ r.cpid = ack.cpid /\ r.ppid = n.ppid
  BY DEF ApplyResponse, CopiesOver

\* The worker learns the PID that its peer has answered with.
LEMMA CompletesPaired ==
  ASSUME NEW I, Before(I), NEW o \in Roles, PairsMove(o), PairsKnown(o), AllForward,
         NEW s \in Roles, NEW i, NEW n, Completes(s, i, n)
  PROVE  PairsKnown(o)'
  <1> DEFINE r == table[s][i]
             w == worker[s]
  <1>1. Puts(s, i, n) /\ i \in DOMAIN table[s] /\ Flows /\ n.state = w.op.entry.target
    BY DEF Completes, Puts
  <1>2. r \in RowsOver(s, I) /\ r.state \in States
    BY <1>1, RowShapes DEF Before, LockOver
  <1>3. s = o => RowPaired(o, r)
    BY <1>1 DEF PairsKnown, RowsPaired
  <1>4. CASE w.pc = "answered" /\ i = w.neg.id /\ n = ApplyResponse(w.neg, w.ack)
    <2>1. /\ n.state \in validTransitions[r.state]
          /\ w.neg.ppid = r.ppid /\ w.neg.cpid = r.cpid
      BY <1>1, <1>4, BusyWorker DEF Before, Busy
    <2>2. n.state # "INITIAL"
      BY <1>2, <2>1 DEF validTransitions, States
    <2>3. \/ n.ppid = r.ppid /\ n.cpid = r.cpid
          \/ r.ppid = emptyUUID /\ w.ack.cpid = r.cpid /\ n.ppid = w.ack.ppid /\ n.cpid = r.cpid
          \/ r.cpid = emptyUUID /\ w.ack.ppid = r.ppid /\ n.cpid = w.ack.cpid /\ n.ppid = r.ppid
      <3>1. w.neg \in CopiesOver(s, I)
        BY <1>4, BusyWorker DEF Before, Busy
      <3> QED
        BY <1>4, <2>1, <3>1, PIDLearned
    <2>4. s = o => Settled(Peer(o), w.ack.ppid, w.ack.cpid)
      <3> SUFFICES ASSUME s = o
                   PROVE  Settled(Peer(o), w.ack.ppid, w.ack.cpid)
        OBVIOUS
      <3>1. Peer(Peer(o)) = o
        BY DEF Peer, Roles
      <3>2. w.ack \in Acks(Peer(o))
        BY <1>4, <3>1 DEF Acks
      <3> QED
        BY <3>2 DEF PairsKnown, FlowsSettled
    <2> HIDE DEF w
    <2>5. s = o => RowPaired(o, n)'
      <3> SUFFICES ASSUME s = o, RemotePIDOf(o, n) # emptyUUID
                   PROVE  Settled(Peer(o), n.ppid, n.cpid)
        BY <2>2 DEF RowPaired, RemotePIDOf, PairsMove
      <3>1. CASE n.ppid = r.ppid /\ n.cpid = r.cpid
        BY <1>3, <3>1 DEF RowPaired, RemotePIDOf
      <3>2. CASE n.ppid = w.ack.ppid /\ n.cpid = w.ack.cpid
        BY <2>4, <3>2
      <3> QED
        BY <2>3, <3>1, <3>2
    <2> QED
      BY <1>1, <2>5, FlowsSettledOn, RowPutPaired, SMTT(30) DEF PairsKnown
  <1>5. CASE n.ppid = r.ppid /\ n.cpid = r.cpid
    <2>1. n.state = "INITIAL" => r.state = "INITIAL"
      <3>1. ForwardRow(r, table'[s][i]) /\ table'[s][i].state = n.state
        BY <1>1 DEF AllForward, Puts, SameColumns
      <3> QED
        BY <1>2, <3>1 DEF ForwardRow, validTransitions, States
    <2>2. s = o => RowPaired(o, n)'
      BY <1>3, <1>5, <2>1 DEF RowPaired, RemotePIDOf, PairsMove
    <2> QED
      BY <1>1, <2>2, FlowsSettledOn, RowPutPaired DEF PairsKnown
  <1> QED
    BY <1>4, <1>5 DEF Completes

\* The first negotiation knows no peer, and nobody has sent anything yet.
LEMMA BeginsPaired ==
  ASSUME NEW I, Before(I), NEW s \in Roles, PairsKnown(s),
         NEW n, NEW r, NEW entries, Begins(s, I, n, r, entries)
  PROVE  PairsKnown(s)'
  <1>1. /\ FirstOf(s, n) /\ SameColumns(n, r) /\ \A x \in Roles : DOMAIN table[x] = {}
        /\ table' = [table EXCEPT ![s] = <<r>>]
    BY DEF Begins
  <1>2. PairsMove(s)
    BY <1>1 DEF PairsMove, Settled, Peer, Roles
  <1>3. table'[s] = <<r>>
    BY <1>1 DEF Before, LockOver, StoreShape
  <1>4. RowPaired(s, r)'
    BY <1>1 DEF FirstOf, SameColumns, RowPaired, RemotePIDOf, RemotePID, Roles
  <1>5. RowsPaired(s)'
    BY <1>3, <1>4 DEF RowsPaired
  <1>6. s # Peer(s)
    BY DEF Peer, Roles
  <1>7. FlowsSettled(Peer(s))'
    BY <1>2, <1>6, FlowsStillSettled DEF Begins, PairsKnown
  <1> QED
    BY <1>5, <1>7 DEF PairsKnown

LEMMA StepPaired ==
  ASSUME NEW I, Before(I), NEW o \in Roles, StartedBy(o), PairsKnown(o), AllForward,
         calls \in Nat, calls' = 0, Quiet \/ \E s \in Roles : Moves(s, I)
  PROVE  PairsKnown(o)' \/ \E s \in Roles : \E n, r, entries : Begins(s, I, n, r, entries)
  <1>1. PairsMove(o)
    <2>1. Peer(o) \in Roles
      BY DEF Peer, Roles
    <2>2. DOMAIN table[Peer(o)] \subseteq DOMAIN table'[Peer(o)]
      BY <2>1, RowsStay
    <2> QED
      BY <2>2, SettledStays DEF PairsMove, StartedBy
  <1>2. SameRows /\ Flows => PairsKnown(o)'
    BY <1>1, SameRowsPaired, FlowsSettledOn DEF PairsKnown
  <1>3. CASE Quiet
    BY <1>2, <1>3 DEF Quiet
  <1>4. ASSUME NEW s \in Roles, Moves(s, I)
        PROVE  PairsKnown(o)' \/ \E n, r, entries : Begins(s, I, n, r, entries)
    <2>1. ASSUME NEW x, Agrees(s, x)
          PROVE  PairsKnown(o)'
      <3>1. Grows(s, Range(x.entries), {}) /\ Acked(s, {}) /\ SameRows /\ x \in Storing(s)
        BY <2>1 DEF Agrees
      <3>2. s = Peer(o) => \A e \in Range(x.entries) : Settled(s, e.msg.ppid, e.msg.cpid)'
        BY <1>1, <3>1 DEF PairsKnown, FlowsSettled, PairsMove
      <3> QED
        BY <1>1, <3>1, <3>2, SameRowsPaired, FlowsStillSettled DEF PairsKnown
    <2>2. \A i : Acquired(s, i) => PairsKnown(o)'
      BY <1>2 DEF Acquired
    <2>3. \A k, i : Locked(s, k, i) => PairsKnown(o)'
      BY <1>2 DEF Locked
    <2>4. \A k \in Slots : \A n : Created(s, k, I, n) => PairsKnown(o)'
      BY <1>1, CreatedPaired
    <2>5. \A k \in Slots : \A out : Stores(s, k, I, out) => PairsKnown(o)'
      BY <1>1, StoresPaired
    <2>6. \A i, n : Completes(s, i, n) => PairsKnown(o)'
      BY <1>1, CompletesPaired
    <2>7. /\ \A i, n, out : ~Calls(s, i, I, n, out)
          /\ \A i, e : ~Asks(s, i, e)
      BY DEF Calls, Asks
    <2> QED
      BY <1>4, <2>1, <2>2, <2>3, <2>4, <2>5, <2>6, <2>7 DEF Moves
  <1> QED
    BY <1>3, <1>4

LEMMA NextPaired ==
  ASSUME WithinBounds, LockInv, OneInv, PairInv, [Next]_vars
  PROVE  PairInv'
  <1> SUFFICES ASSUME calls' = 0
               PROVE  /\ (\E o \in Roles : StartedBy(o) /\ PairsKnown(o))'
                      /\ uuid' = 1 => \A o \in Roles : PairsKnown(o)'
    BY DEF PairInv
  <1>1. calls' \in {calls, calls + 1} /\ calls \in Nat
    BY NextBounds, BoundsAssumption DEF CountersMove, WithinBounds
  <1>2. /\ \E o \in Roles : StartedBy(o) /\ PairsKnown(o)
        /\ uuid = 1 => \A o \in Roles : PairsKnown(o) /\ StartedBy(o)
    BY <1>1 DEF PairInv, OneInv
  <1>3. AllForward
    BY NextLock
  <1>4. CASE Next
    <2>1. PICK J : J = IDs'
      OBVIOUS
    <2>2. Before(J) /\ uuid' \in {uuid, uuid + 1} /\ uuid \in Nat \ {0}
      BY <1>4, <2>1, NextIDs, UuidMoves DEF LockInv
    <2>3. Quiet \/ \E s \in Roles : Moves(s, J)
      BY <1>4, <2>2, StepMoves
    <2>4. ASSUME NEW s \in Roles, NEW n, NEW r, NEW entries, Begins(s, J, n, r, entries)
          PROVE  (StartedBy(s) /\ PairsKnown(s))' /\ uuid' = 2
      <3>1. uuid = 1 /\ uuid' = 2
        BY <2>4 DEF Begins
      <3> QED
        BY <1>2, <2>2, <2>4, <3>1, BegunKnown, BeginsPaired
    <2>5. ASSUME ~\E s \in Roles : \E n, r, entries : Begins(s, J, n, r, entries)
          PROVE  \A o \in Roles : StartedBy(o) /\ PairsKnown(o) => (StartedBy(o) /\ PairsKnown(o))'
      BY <1>1, <1>3, <2>2, <2>3, <2>5, StartedStays, StepPaired
    <2>6. uuid' = 1 => uuid = 1
      BY <2>2
    <2> QED
      BY <1>2, <2>4, <2>5, <2>6
  <1>5. CASE UNCHANGED vars
    <2>1. SameRows /\ Flows /\ UNCHANGED <<table, uuid>>
      BY <1>5, StutterQuiet DEF vars, Quiet
    <2>2. ASSUME NEW o \in Roles, PairsKnown(o)
          PROVE  PairsKnown(o)'
      <3>1. PairsMove(o)
        BY <2>1 DEF PairsMove, Settled
      <3> QED
        BY <2>1, <2>2, <3>1, SameRowsPaired, FlowsSettledOn DEF PairsKnown
    <2>3. ASSUME NEW o \in Roles, StartedBy(o)
          PROVE  StartedBy(o)'
      BY <2>1, <2>3, RowsSameKnow, FlowsStillKnow DEF StartedBy, Flows, Roles
    <2> QED
      BY <1>2, <2>1, <2>2, <2>3
  <1> QED
    BY <1>4, <1>5

LEMMA NobodyAnswered ==
  ASSUME Init, NEW s \in Roles
  PROVE  Acks(s) = {}
  <1>1. Peer(s) \in Roles
    BY DEF Peer, Roles
  <1>2. worker[Peer(s)].pc = "idle" /\ \A k \in Slots : http[s][k].pc = "idle"
    BY <1>1 DEF Init, Idle
  <1> QED
    BY <1>2 DEF Acks

LEMMA InitPaired ==
  ASSUME Init
  PROVE  PairInv
  <1>1. OneInv /\ uuid = 1
    BY InitOne DEF Init
  <1>2. ASSUME NEW o \in Roles
        PROVE  PairsKnown(o)
    <2>1. Peer(o) \in Roles
      BY DEF Peer, Roles
    <2> QED
      BY <2>1, NothingUnderWay, NobodyAnswered DEF PairsKnown, FlowsSettled, RowsPaired
  <1> QED
    BY <1>1, <1>2 DEF PairInv, OneInv

LEMMA PairInvariant == Spec => []PairInv
  BY InitPaired, NextPaired, BoundsInvariant, LockInvariant, OneInvariant, PTL DEF Spec

-----------------------------------------------------------------------------
(* The offer that brings the provider to OFFERED                           *)

\* The copy that a worker has is of the row that its entry is about.
WorkerNames ==
  \A s \in Roles :
    worker[s].pc \in Busy => OwnPID(s, worker[s].neg) = worker[s].op.entry.entityID

LEMMA NextNames ==
  ASSUME LockInv, WorkerNames, [Next]_vars
  PROVE  WorkerNames'
  <1>1. ASSUME NEW s \in Roles, WorkerGoesOn(s), worker'[s].pc \in Busy
        PROVE  OwnPID(s, worker'[s].neg) = worker'[s].op.entry.entityID
    BY <1>1 DEF WorkerNames, WorkerGoesOn
  <1>2. CASE Next
    <2>1. PICK J : J = IDs'
      OBVIOUS
    <2>2. Before(J)
      BY <1>2, <2>1, NextIDs
    <2>3. Quiet \/ \E s \in Roles : Moves(s, J)
      BY <1>2, <2>2, StepMoves
    <2>4. GoesOn => WorkerNames'
      BY <1>1 DEF GoesOn, WorkerNames
    <2>5. ASSUME NEW s \in Roles, NEW i, Acquired(s, i)
          PROVE  WorkerNames'
      BY <1>1, <2>5 DEF Acquired, WorkerNames
    <2>6. ASSUME NEW s \in Roles, NEW k, NEW i, Locked(s, k, i)
          PROVE  WorkerNames'
      BY <1>1, <2>6 DEF Locked, WorkerNames
    <2>7. ASSUME NEW s \in Roles
          PROVE  /\ \A k, n : Created(s, k, J, n) => GoesOn
                 /\ \A k, out : Stores(s, k, J, out) => GoesOn
                 /\ \A x : Agrees(s, x) => GoesOn
                 /\ \A i, n : Completes(s, i, n) => GoesOn
                 /\ \A i, n, out : Calls(s, i, J, n, out) => GoesOn
                 /\ \A i, e : Asks(s, i, e) => GoesOn
                 /\ \A n, r, entries : Begins(s, J, n, r, entries) => GoesOn
      BY DEF Created, Stores, Agrees, Completes, Calls, Asks, Begins
    <2>8. ASSUME NEW s \in Roles, Moves(s, J)
          PROVE  WorkerNames'
      BY <2>4, <2>5, <2>6, <2>7, <2>8, Zenon DEF Moves
    <2> QED
      BY <2>3, <2>4, <2>8 DEF Quiet
  <1>3. CASE UNCHANGED vars
    BY <1>3 DEF vars, WorkerNames
  <1> QED
    BY <1>2, <1>3

LEMMA NamesInvariant == Spec => []WorkerNames
  <1>1. Init => WorkerNames
    BY DEF Init, WorkerNames, Idle, Busy
  <1> QED
    BY <1>1, NextNames, LockInvariant, PTL DEF Spec

\* The provider has agreed to a, which its only row says.
IsAgreed(a) == \E i \in DOMAIN table["provider"] : table["provider"][i].agreement = a

AgreedAs(e) == e.msg.type = "agreement" => IsAgreed(e.msg.agreement)

\* Before the provider sends an agreement it has none, and an offer that is
\* still to bring it to OFFERED has not been overtaken by one.
Unagreed(r) == r.state \in {"INITIAL", "OFFERED"} => r.agreement = emptyUUID

OfferDue(r) ==
  \A e \in Held("provider") :
    Offers(e, r.ppid) =>
      r.agreement = emptyUUID /\ r.state \in {"INITIAL", "REQUESTED", "TERMINATED"}

ProviderRows ==
  \A i \in DOMAIN table["provider"] : Unagreed(table["provider"][i]) /\ OfferDue(table["provider"][i])

ProviderFlows ==
  /\ \A pid : OneOffer(pid)
  /\ \A e \in Held("provider") : AgreedAs(e)
  /\ \A x \in Storing("provider") :
       \A e \in Range(x.entries) : e.msg.type = "agreement" /\ e.target = "AGREED" /\ AgreedAs(e)
  /\ \A q \in Posted("provider") : AgreedAs(q)

\* The consumer has the agreement that the provider has.
ConsumerRow(r) ==
  r.agreement # emptyUUID => IsAgreed(r.agreement) /\ r.agreement \in agreements["provider"]

ConsumerRows == \A j \in DOMAIN table["consumer"] : ConsumerRow(table["consumer"][j])

OffersRight == ProviderRows /\ ProviderFlows /\ ConsumerRows

OfferInv == calls = 0 => OffersRight

\* The provider keeps the agreement that it has sent.
AgreementStands ==
  \A i \in DOMAIN table["provider"] :
    /\ i \in DOMAIN table'["provider"]
    /\ table["provider"][i].agreement # emptyUUID =>
         table'["provider"][i].agreement = table["provider"][i].agreement

LEMMA IsAgreedStays ==
  ASSUME AgreementStands, NEW a, a # emptyUUID, IsAgreed(a)
  PROVE  IsAgreed(a)'
  BY DEF AgreementStands, IsAgreed

\* The consumer's rows that are not written.
LEMMA ConsumerRowStays ==
  ASSUME AgreementStands, AgreementsKept, NEW r, ConsumerRow(r)
  PROVE  ConsumerRow(r)'
  BY IsAgreedStays DEF ConsumerRow, AgreementsKept, Roles

\* An agreement that is to be sent is the one the provider has.
LEMMA AgreedAsStays ==
  ASSUME AgreementStands, NEW e, AgreedAs(e), e.msg.type = "agreement" => e.msg.agreement # emptyUUID
  PROVE  AgreedAs(e)'
  BY IsAgreedStays DEF AgreedAs

LEMMA ProviderFlowsStay ==
  ASSUME AgreedInv, AgreementStands, ProviderFlows, NEW s \in Roles, NEW H, NEW S, Grows(s, H, S),
         \A pid : OneOffer(pid)',
         s = "provider" =>
           /\ \A e \in H : AgreedAs(e)'
           /\ \A x \in S : \A e \in Range(x.entries) :
                e.msg.type = "agreement" /\ e.target = "AGREED" /\ AgreedAs(e)'
  PROVE  ProviderFlows'
  <1>1. "provider" \in Roles
    BY DEF Roles
  <1>2. \A e \in Held("provider") \cup Posted("provider") : AgreedAs(e)'
    BY <1>1, AgreedAsStays DEF ProviderFlows, AgreedInv, FlowsAgreed, KnownAgreement
  <1>3. \A x \in Storing("provider") : \A e \in Range(x.entries) : AgreedAs(e)'
    BY <1>1, AgreedAsStays DEF ProviderFlows, AgreedInv, FlowsAgreed, ToStoreAgreed
  <1>4. \A e \in Held("provider")' : AgreedAs(e)'
    BY <1>1, <1>2 DEF Grows
  <1>5. \A x \in Storing("provider")' : \A e \in Range(x.entries) :
          e.msg.type = "agreement" /\ e.target = "AGREED" /\ AgreedAs(e)'
    BY <1>1, <1>3 DEF Grows, ProviderFlows
  <1>6. ASSUME NEW q \in Posted("provider")'
        PROVE  AgreedAs(q)'
    <2>1. CASE q \in Posted("provider")
      BY <1>2, <2>1
    <2>2. CASE \E e \in Held("provider") : q = RequestOf(e)
      <3>1. PICK e \in Held("provider") : q = RequestOf(e)
        BY <2>2
      <3>2. q.msg = e.msg
        BY <3>1 DEF RequestOf
      <3> QED
        BY <1>2, <3>2 DEF AgreedAs
    <2> QED
      BY <1>1, <1>6, <2>1, <2>2 DEF Grows
  <1> QED
    BY <1>4, <1>5, <1>6 DEF ProviderFlows

\* A step that leaves the rows alone and adds nothing.
LEMMA SameRowsStand ==
  ASSUME SameRows
  PROVE  AgreementStands
  BY DEF SameRows, SameColumns, AgreementStands, Roles

LEMMA SameRowsOffered ==
  ASSUME SameRows, ProviderRows, NEW H,
         Held("provider")' \subseteq Held("provider") \cup H, \A e \in H : e.target # "OFFERED"
  PROVE  ProviderRows'
  <1>1. \A i \in DOMAIN table["provider"] : SameColumns(table["provider"][i], table'["provider"][i])
    BY DEF SameRows, Roles
  <1>2. \A r, r1 : SameColumns(r, r1) /\ Unagreed(r) /\ OfferDue(r) => Unagreed(r1) /\ OfferDue(r1)'
    BY DEF SameColumns, Unagreed, OfferDue, Offers
  <1>3. DOMAIN table'["provider"] = DOMAIN table["provider"]
    BY DEF SameRows, Roles
  <1> QED
    BY <1>1, <1>2, <1>3 DEF ProviderRows

LEMMA SameRowsHeld ==
  ASSUME SameRows, AgreementsKept, ConsumerRows
  PROVE  ConsumerRows'
  <1>1. \A i \in DOMAIN table["consumer"] : SameColumns(table["consumer"][i], table'["consumer"][i])
    BY DEF SameRows, Roles
  <1>2. \A r, r1 : SameColumns(r, r1) /\ ConsumerRow(r) => ConsumerRow(r1)'
    <2>1. \A r : ConsumerRow(r) => ConsumerRow(r)'
      BY SameRowsStand, ConsumerRowStays
    <2> QED
      BY <2>1 DEF SameColumns, ConsumerRow
  <1>3. DOMAIN table'["consumer"] = DOMAIN table["consumer"]
    BY DEF SameRows, Roles
  <1> QED
    BY <1>1, <1>2, <1>3 DEF ConsumerRows

LEMMA QuietlyOffered ==
  ASSUME AgreedInv, OffersRight, SameRows, AgreementsKept, Flows
  PROVE  OffersRight'
  <1>1. ProviderRows'
    BY SameRowsOffered DEF OffersRight, Flows, Grows, Roles
  <1>2. ProviderFlows'
    BY SameRowsStand, ProviderFlowsStay DEF OffersRight, Flows, OffersStay, ProviderFlows, Roles
  <1>3. ConsumerRows'
    BY SameRowsHeld DEF OffersRight
  <1> QED
    BY <1>1, <1>2, <1>3 DEF OffersRight

\* Row i of connector s is written as n.
LEMMA RowPutStands ==
  ASSUME NEW s \in Roles, NEW i, NEW n, Puts(s, i, n),
         s = "provider" /\ table[s][i].agreement # emptyUUID => n.agreement = table[s][i].agreement
  PROVE  AgreementStands
  <1>1. \A x \in Roles : DOMAIN table'[x] = DOMAIN table[x]
    BY DEF Puts
  <1>2. ASSUME NEW j \in DOMAIN table["provider"], table["provider"][j].agreement # emptyUUID
        PROVE  table'["provider"][j].agreement = table["provider"][j].agreement
    <2>1. CASE s = "provider" /\ j = i
      BY <1>2, <2>1 DEF Puts, SameColumns
    <2>2. CASE s # "provider" \/ j # i
      BY <1>2, <2>2 DEF Puts, Roles
    <2> QED
      BY <2>1, <2>2
  <1> QED
    BY <1>1, <1>2 DEF AgreementStands, Roles

LEMMA RowPutHeld ==
  ASSUME AgreementStands, AgreementsKept, ConsumerRows, NEW s \in Roles, NEW i, NEW n, Puts(s, i, n),
         s = "consumer" => ConsumerRow(n)'
  PROVE  ConsumerRows'
  <1>1. \A r : ConsumerRow(r) => ConsumerRow(r)'
    BY ConsumerRowStays
  <1>2. \A r, r1 : SameColumns(r, r1) /\ ConsumerRow(r)' => ConsumerRow(r1)'
    BY DEF SameColumns, ConsumerRow, IsAgreed
  <1>3. ASSUME NEW j \in DOMAIN table["consumer"]
        PROVE  ConsumerRow(table["consumer"][j])'
    <2>1. CASE s = "consumer" /\ j = i
      BY <1>2, <2>1 DEF Puts
    <2>2. CASE s # "consumer" \/ j # i
      BY <1>1, <1>3, <2>2 DEF Puts, Roles, ConsumerRows
    <2> QED
      BY <2>1, <2>2
  <1>4. DOMAIN table'["consumer"] = DOMAIN table["consumer"]
    BY DEF Puts, Roles
  <1> QED
    BY <1>3, <1>4 DEF ConsumerRows

LEMMA RowPutOffered ==
  ASSUME NEW o \in Roles, StartedBy(o), ProviderRows, NEW s \in Roles, NEW i, NEW n, Puts(s, i, n),
         IF s = "provider" THEN Unagreed(n) /\ OfferDue(n)' ELSE Held("provider")' \subseteq Held("provider")
  PROVE  ProviderRows'
  <1>1. DOMAIN table'["provider"] = DOMAIN table["provider"] /\ DOMAIN table["provider"] \subseteq {1}
    BY DEF Puts, Roles, StartedBy
  <1>2. CASE s = "provider"
    <2>1. i \in DOMAIN table["provider"] /\ \A j \in DOMAIN table["provider"] : j = i
      BY <1>1, <1>2 DEF Puts
    <2>2. SameColumns(n, table'["provider"][i]) /\ Unagreed(n) /\ OfferDue(n)'
      BY <1>2 DEF Puts
    <2>3. Unagreed(table'["provider"][i]) /\ OfferDue(table["provider"][i])'
      BY <2>2 DEF SameColumns, Unagreed, OfferDue, Offers
    <2> QED
      BY <1>1, <2>1, <2>3 DEF ProviderRows
  <1>3. CASE s # "provider"
    <2>1. \A j \in DOMAIN table["provider"] : table'["provider"][j] = table["provider"][j]
      BY <1>3 DEF Puts, Roles
    <2> QED
      BY <1>1, <1>3, <2>1 DEF ProviderRows, OfferDue
  <1> QED
    BY <1>2, <1>3

\* No entry is held for the next UUID.
LEMMA NoOfferYet ==
  ASSUME LockInv
  PROVE  NoOffer(uuid)
  <1>1. \A e \in Held("provider") : e.entityID # uuid
    BY UuidIsFresh DEF Roles
  <1>2. ~WorkerOffers(uuid)
    BY <1>1 DEF WorkerOffers, Offers, Held, AtWorker
  <1>3. \A i : ~QueueOffers(uuid, i)
    BY <1>1 DEF QueueOffers, Offers, Held, InQueue
  <1>4. \A k \in Slots : ~SlotOffers(uuid, k)
    BY <1>1 DEF SlotOffers, Offers, Held, ToApply
  <1> QED
    BY <1>2, <1>3, <1>4 DEF NoOffer

LEMMA NoneIsHeld ==
  ASSUME NEW pid, NoOffer(pid)
  PROVE  \A e \in Held("provider") : ~Offers(e, pid)
  BY DEF NoOffer, WorkerOffers, QueueOffers, SlotOffers, Held, InQueue, AtWorker, ToApply

\* The row that is made of a message has no agreement, and its PID is new.
LEMMA CreatedOffered ==
  ASSUME NEW I, LockInv, Before(I), AgreedInv, OffersRight, AgreementsKept,
         NEW s \in Roles, NEW k \in Slots, NEW n, Created(s, k, I, n)
  PROVE  OffersRight'
  <1> DEFINE l == Len(table[s])
  <1>1. /\ StoreShape(I) /\ table' = [table EXCEPT ![s] = Append(@, ToModel(n))]
        /\ n.agreement = emptyUUID /\ LocalPID(n) = uuid /\ n.role = s /\ Flows
    BY DEF Created, Inserted, Before, LockOver
  <1>2. /\ \A x \in Roles : x # s => table'[x] = table[x]
        /\ l \in Nat /\ DOMAIN table[s] = 1..l /\ DOMAIN table'[s] = 1..(l + 1)
        /\ \A i \in DOMAIN table[s] : table'[s][i] = table[s][i]
        /\ table'[s][l + 1] = ToModel(n)
    BY <1>1, RowCreated
  <1>3. \A i \in DOMAIN table'[s] : i = l + 1 \/ i \in DOMAIN table[s]
    BY <1>2
  <1>4. \A x \in Roles : \A i \in DOMAIN table[x] : i \in DOMAIN table'[x] /\ table'[x][i] = table[x][i]
    BY <1>2
  <1> HIDE DEF l
  <1>5. AgreementStands
    BY <1>4 DEF AgreementStands, Roles
  <1>6. ToModel(n).agreement = emptyUUID
    BY <1>1 DEF ToModel
  <1>7. ProviderFlows'
    BY <1>1, <1>5, ProviderFlowsStay DEF OffersRight, Flows, OffersStay, ProviderFlows, Roles
  <1>8. Held("provider")' \subseteq Held("provider")
    BY <1>1 DEF Flows, Grows, Roles
  <1>9. ProviderRows'
    <2>1. \A r : Unagreed(r) /\ OfferDue(r) => Unagreed(r) /\ OfferDue(r)'
      BY <1>8 DEF OfferDue
    <2>2. ASSUME s = "provider"
          PROVE  Unagreed(ToModel(n)) /\ OfferDue(ToModel(n))'
      <3>1. ToModel(n).ppid = uuid
        BY <1>1, <2>2 DEF ToModel, LocalPID
      <3>2. \A e \in Held("provider") : ~Offers(e, uuid)
        BY NoOfferYet, NoneIsHeld
      <3> QED
        BY <1>6, <1>8, <3>1, <3>2 DEF Unagreed, OfferDue
    <2> QED
      BY <1>2, <1>3, <1>4, <2>1, <2>2 DEF ProviderRows, OffersRight, Roles
  <1>10. ConsumerRows'
    <2>1. \A r : ConsumerRow(r) => ConsumerRow(r)'
      BY <1>5, ConsumerRowStays
    <2>2. ConsumerRow(ToModel(n))'
      BY <1>6 DEF ConsumerRow
    <2> QED
      BY <1>2, <1>3, <1>4, <2>1, <2>2 DEF ConsumerRows, OffersRight, Roles
  <1> QED
    BY <1>7, <1>9, <1>10 DEF OffersRight

\* An agreement is stored: the entry that follows is no offer.
LEMMA AgreesOffered ==
  ASSUME AgreedInv, OffersRight, AgreementsKept, NEW s \in Roles, NEW x, Agrees(s, x)
  PROVE  OffersRight'
  <1>1. /\ x \in Storing(s) /\ Grows(s, Range(x.entries), {}) /\ SameRows
        /\ (s = "provider" => \A e \in Range(x.entries) : e.target # "OFFERED") => OffersStay
    BY DEF Agrees
  <1>2. s = "provider" => \A e \in Range(x.entries) : AgreedAs(e) /\ e.target # "OFFERED"
    BY <1>1 DEF OffersRight, ProviderFlows
  <1>3. AgreementStands
    BY <1>1, SameRowsStand
  <1>4. s = "provider" => \A e \in Range(x.entries) : AgreedAs(e)'
    <2>1. s = "provider" => \A e \in Range(x.entries) :
            e.msg.type = "agreement" => e.msg.agreement # emptyUUID
      BY <1>1 DEF AgreedInv, FlowsAgreed, ToStoreAgreed
    <2> QED
      BY <1>2, <1>3, <2>1, AgreedAsStays
  <1>5. ProviderFlows'
    BY <1>1, <1>2, <1>3, <1>4, ProviderFlowsStay DEF OffersRight, OffersStay, ProviderFlows
  <1>6. ProviderRows'
    <2> DEFINE H == IF s = "provider" THEN Range(x.entries) ELSE {}
    <2>1. Held("provider")' \subseteq Held("provider") \cup H
      BY <1>1 DEF Grows, Roles
    <2>2. \A e \in H : e.target # "OFFERED"
      BY <1>2
    <2> HIDE DEF H
    <2> QED
      BY <1>1, <2>1, <2>2, SameRowsOffered DEF OffersRight
  <1>7. ConsumerRows'
    BY <1>1, SameRowsHeld DEF OffersRight
  <1> QED
    BY <1>5, <1>6, <1>7 DEF OffersRight

\* The provider's worker completes an entry of its row: an offer only in a row
\* that has no agreement yet, and then no offer is left.
LEMMA CompletesOffer ==
  ASSUME NEW I, Before(I), OffersRight, AgreedInv, WorkerNames, AllForward,
         NEW i, NEW n, Completes("provider", i, n)
  PROVE  Unagreed(n) /\ OfferDue(n)'
  <1> DEFINE r == table["provider"][i]
             w == worker["provider"]
             e == w.op.entry
  <1>1. /\ Puts("provider", i, n) /\ i \in DOMAIN table["provider"] /\ Flows
        /\ n.state = e.target /\ n.agreement = r.agreement
        /\ w.pc \in {"answered", "terminate"}
    BY DEF Completes, Puts
  <1>2. r \in RowsOver("provider", I) /\ r.state \in States
    BY <1>1, RowShapes DEF Before, LockOver, Roles
  <1>3. e \in Held("provider")
    BY <1>1 DEF Held, AtWorker
  <1>4. r.ppid = e.entityID /\ n.ppid = r.ppid
    <2>1. CASE w.pc = "answered" /\ i = w.neg.id /\ n = ApplyResponse(w.neg, w.ack)
      <3>1. w.neg.ppid = r.ppid /\ w.neg \in CopiesOver("provider", I)
        BY <2>1, BusyWorker DEF Before, Busy, Roles
      <3>2. w.neg.ppid = e.entityID
        BY <2>1 DEF WorkerNames, OwnPID, Busy, Roles
      <3>3. n.ppid = w.neg.ppid
        <4>1. w.neg.ppid # emptyUUID
          BY <3>1 DEF CopiesOver, PpidsOver
        <4> QED
          BY <2>1, <3>1, <4>1, PIDLearned
      <3> QED
        BY <3>1, <3>2, <3>3
    <2>2. CASE i \in EntryRows("provider", e) /\ n.ppid = r.ppid
      BY <2>2 DEF EntryRows, Lookup, Matches
    <2> QED
      BY <2>1, <2>2 DEF Completes
  <1>5. Unagreed(r) /\ OfferDue(r)
    BY <1>1 DEF OffersRight, ProviderRows
  <1>6. n.state \in {r.state} \cup validTransitions[r.state]
    <2>1. ForwardRow(r, table'["provider"][i]) /\ table'["provider"][i].state = n.state
      BY <1>1 DEF AllForward, Puts, SameColumns, Roles
    <2> QED
      BY <2>1 DEF ForwardRow
  <1>7. n.state = "OFFERED" => Offers(e, r.ppid)
    BY <1>1, <1>4 DEF Offers
  <1>8. n.state \in Bound => r.agreement # emptyUUID
    <2>1. AgreedWhereDue("provider", e)
      BY <1>3 DEF AgreedInv, FlowsAgreed, Roles
    <2> QED
      BY <1>1, <1>4, <2>1 DEF AgreedWhereDue, OwnPID
  <1>9. ASSUME NEW pid, pid = r.ppid, n.state = "OFFERED"
        PROVE  NoOffer(pid)'
    <2>1. OneOffer(pid) /\ Offers(e, pid)
      BY <1>7, <1>9 DEF OffersRight, ProviderFlows
    <2> QED
      BY <2>1 DEF Completes
  <1>10. Held("provider")' \subseteq Held("provider")
    BY <1>1 DEF Flows, Grows, Roles
  <1> HIDE DEF r, e
  <1>11. Unagreed(n)
    <2>1. n.state = "INITIAL" => r.state = "INITIAL"
      BY <1>2, <1>6 DEF validTransitions, States
    <2> QED
      BY <1>1, <1>3, <1>5, <1>7, <2>1 DEF Unagreed, OfferDue
  <1>12. ASSUME NEW d \in Held("provider")', Offers(d, n.ppid)
         PROVE  n.agreement = emptyUUID /\ n.state \in {"INITIAL", "REQUESTED", "TERMINATED"}
    <2>1. r.agreement = emptyUUID /\ r.state \in {"INITIAL", "REQUESTED", "TERMINATED"}
      BY <1>4, <1>5, <1>10, <1>12 DEF OfferDue
    <2>2. n.state # "OFFERED"
      <3> SUFFICES ASSUME n.state = "OFFERED"
                   PROVE  FALSE
        OBVIOUS
      <3>1. PICK pid : pid = r.ppid
        OBVIOUS
      <3>2. NoOffer(pid)'
        BY <1>9, <3>1
      <3>3. \A b \in Held("provider")' : ~Offers(b, pid)
        BY <3>2 DEF NoOffer, WorkerOffers, QueueOffers, SlotOffers, Held, InQueue, AtWorker, ToApply
      <3> QED
        BY <1>4, <1>12, <3>1, <3>3
    <2>3. n.state \notin Bound
      BY <1>8, <2>1
    <2> QED
      BY <1>1, <1>6, <2>1, <2>2, <2>3 DEF Bound, validTransitions
  <1> QED
    BY <1>11, <1>12 DEF OfferDue

LEMMA CompletesOffered ==
  ASSUME NEW I, Before(I), NEW o \in Roles, StartedBy(o), OffersRight, AgreedInv, AgreementsKept,
         WorkerNames, AllForward, NEW s \in Roles, NEW i, NEW n, Completes(s, i, n)
  PROVE  OffersRight'
  <1>1. /\ Puts(s, i, n) /\ i \in DOMAIN table[s] /\ Flows /\ n.agreement = table[s][i].agreement
    BY DEF Completes, Puts
  <1>2. AgreementStands
    BY <1>1, RowPutStands
  <1>3. ProviderFlows'
    BY <1>1, <1>2, ProviderFlowsStay DEF OffersRight, Flows, OffersStay, ProviderFlows, Roles
  <1>4. ProviderRows'
    <2>1. Held("provider")' \subseteq Held("provider")
      BY <1>1 DEF Flows, Grows, Roles
    <2>2. s = "provider" => Unagreed(n) /\ OfferDue(n)'
      BY CompletesOffer
    <2> QED
      BY <1>1, <2>1, <2>2, RowPutOffered DEF OffersRight
  <1>5. ConsumerRows'
    <2>1. s = "consumer" => ConsumerRow(n)
      BY <1>1 DEF OffersRight, ConsumerRows, ConsumerRow
    <2>2. s = "consumer" => ConsumerRow(n)'
      BY <1>2, <2>1, ConsumerRowStays
    <2> QED
      BY <1>1, <1>2, <2>2, RowPutHeld DEF OffersRight
  <1> QED
    BY <1>3, <1>4, <1>5 DEF OffersRight

\* The provider's handler receives before it has an agreement, sends an offer
\* only for a negotiation that the message has made, and an agreement only
\* when there is none.
LEMMA ProviderReceives ==
  ASSUME NEW I, Before(I), OffersRight, NEW k \in Slots, NEW out, Stores("provider", k, I, out)
  PROVE  LET n == http["provider"][k].neg IN
         /\ n.id \in DOMAIN table["provider"] /\ n.ppid = table["provider"][n.id].ppid
         /\ n.agreement = table["provider"][n.id].agreement
         /\ out.neg.ppid = IF n.state = "INITIAL" THEN uuid ELSE n.ppid
         /\ out.neg.state \in {"REQUESTED", "ACCEPTED", "VERIFIED", "TERMINATED"}
         /\ n.state = "INITIAL" => out.neg.state = "REQUESTED" /\ n.agreement = emptyUUID
         /\ n.state \in {"REQUESTED", "TERMINATED"} => out.neg.state = "TERMINATED"
         /\ n.agreement # emptyUUID => out.neg.agreement = n.agreement
         /\ \/ out.entries = <<>> /\ ~out.neg.newAgreement /\ out.neg.agreement = n.agreement
            \/ \E e : /\ out.entries = <<e>> /\ EntryOf("provider", out.neg, e)
                      /\ out.neg.state # "TERMINATED"
                      /\ e.target = "OFFERED" => n.state = "INITIAL"
                      /\ IF out.neg.newAgreement
                           THEN e.msg.type = "agreement" /\ e.target = "AGREED"
                           ELSE e.msg.type # "agreement" /\ out.neg.agreement = n.agreement
  <1> DEFINE n == http["provider"][k].neg
             m == http["provider"][k].req.msg
             row == table["provider"][n.id]
  <1>1. "provider" \in Roles /\ Peer("provider") = "consumer" /\ "consumer" \in Roles
    BY SMTT(30) DEF Peer, Roles
  <1>2. /\ n.id \in DOMAIN table["provider"] /\ n.state = row.state /\ n.ppid = row.ppid
        /\ n.agreement = row.agreement /\ n.state \in States /\ n = FromModel(row, n.id)
        /\ m \in MessagesOver("consumer", I) /\ n \in CopiesOver("provider", I)
    BY <1>1, StoreData
  <1>3. PICK r \in CopiesOver("provider", I \cup {uuid}) :
          /\ Received("provider", I \cup {uuid}, n, m, r) /\ RecvAs(n, m, r)
          /\ IF n.state = "INITIAL"
               THEN m.type = "request" /\ r.initial /\ r.ppid = uuid
               ELSE KeepsPIDs(n, r) /\ ~r.initial
          /\ SameButAgreement(r, out.neg) /\ Sent("provider", r, uuid, out)
    BY <1>1, StoreData
  <1>4. ~n.newAgreement /\ n.ppid # emptyUUID
    <2>1. LET c == FromModel(row, n.id) IN ~c.newAgreement
      BY DEF FromModel
    <2> QED
      BY <1>2, <2>1 DEF CopiesOver, PpidsOver
  <1>5. Unagreed(row)
    BY <1>2 DEF OffersRight, ProviderRows
  <1>6. n.state \in {"INITIAL", "OFFERED"} => n.agreement = emptyUUID
    BY <1>2, <1>5 DEF Unagreed
  <1> HIDE DEF n, m, row
  <1>7. m.type \in TypesFrom("consumer") /\ m.event \in EventsFrom("consumer")
    BY <1>2 DEF MessagesOver
  <1>8. /\ r.state = TargetOf(m) /\ r.state \in validTransitions[n.state]
        /\ r.state \in ReceivedBy("provider") /\ r.agreement = n.agreement /\ ~r.newAgreement
        /\ r.ppid = IF n.state = "INITIAL" THEN uuid ELSE n.ppid
        /\ r.state \in States
    <2>1. m.type # "agreement"
      BY <1>7 DEF TypesFrom
    <2> QED
      BY <1>3, <1>4, <2>1 DEF Received, RecvAs, AgreementReceived, SameAgreement, KeepsPIDs, CopiesOver
  <1>9. /\ r.state \in {"REQUESTED", "ACCEPTED", "VERIFIED", "TERMINATED"}
        /\ r.state = "REQUESTED" => n.state \in {"INITIAL", "OFFERED"}
        /\ r.state = "ACCEPTED" => n.state = "OFFERED"
        /\ r.state = "VERIFIED" => n.state = "AGREED"
    BY <1>1, <1>2, <1>8, ReceivesFrom DEF ReceivedBy
  <1>10. n.state = "INITIAL" => r.state = "REQUESTED"
    BY <1>1, <1>3, <1>7, <1>8, TypeOfTarget
  <1>11. /\ out.neg.ppid = r.ppid /\ out.neg.state = r.state
    BY <1>3 DEF SameButAgreement
  <1>12. out.neg = r => ~out.neg.newAgreement /\ out.neg.agreement = n.agreement
    BY <1>8
  <1>13. ASSUME NEW e, out.entries = <<e>>, EntryOf("provider", out.neg, e),
                e.target \in validTransitions[r.state], SentAs(r, e),
                out.neg.agreement = IF e.msg.type = "agreement" THEN uuid ELSE r.agreement,
                out.neg.newAgreement = (r.newAgreement \/ e.msg.type = "agreement")
         PROVE  /\ n.agreement # emptyUUID => out.neg.agreement = n.agreement
                /\ r.state # "TERMINATED" /\ (e.target = "OFFERED" => n.state = "INITIAL")
                /\ IF out.neg.newAgreement
                     THEN e.msg.type = "agreement" /\ e.target = "AGREED"
                     ELSE e.msg.type # "agreement" /\ out.neg.agreement = n.agreement
    <2>1. /\ e.target = TargetOf(e.msg)
          /\ e.msg.type \in TypesFrom("provider") /\ e.msg.event \in EventsFrom("provider")
      BY <1>13 DEF EntryOf, EntriesOver, MessagesOver
    <2>2. /\ e.target = "OFFERED" => r.state \in {"INITIAL", "REQUESTED"}
          /\ e.target = "AGREED" => r.state \in {"REQUESTED", "ACCEPTED"}
          /\ r.state = "REQUESTED" => e.target = IF r.initial THEN "OFFERED" ELSE "AGREED"
      BY <1>1, <1>8, <1>13, <2>1, SendsTo
    <2>3. e.target = "AGREED" <=> e.msg.type = "agreement"
      BY <1>1, <2>1, TypeOfTarget
    <2>4. r.state # "TERMINATED"
      BY <1>13 DEF validTransitions
    <2>5. e.target = "OFFERED" => n.state = "INITIAL"
      BY <1>3, <1>9, <2>2
    <2>6. e.msg.type = "agreement" => n.agreement = emptyUUID
      BY <1>6, <1>9, <2>2, <2>3
    <2>7. out.neg.newAgreement <=> e.msg.type = "agreement"
      BY <1>8, <1>13
    <2> QED
      BY <1>8, <1>13, <2>3, <2>4, <2>5, <2>6, <2>7
  <1>14. \/ out.neg = r /\ out.entries = <<>>
         \/ \E e : /\ out.entries = <<e>> /\ EntryOf("provider", out.neg, e)
                   /\ e.target \in validTransitions[r.state] /\ SentAs(r, e)
                   /\ out.neg.agreement = IF e.msg.type = "agreement" THEN uuid ELSE r.agreement
                   /\ out.neg.newAgreement = (r.newAgreement \/ e.msg.type = "agreement")
    BY <1>3 DEF Sent
  <1>15. ASSUME NEW e, out.entries = <<e>>, EntryOf("provider", out.neg, e),
                e.target \in validTransitions[r.state], SentAs(r, e),
                out.neg.agreement = IF e.msg.type = "agreement" THEN uuid ELSE r.agreement,
                out.neg.newAgreement = (r.newAgreement \/ e.msg.type = "agreement")
         PROVE  /\ n.agreement # emptyUUID => out.neg.agreement = n.agreement
                /\ \E d : /\ out.entries = <<d>> /\ EntryOf("provider", out.neg, d)
                          /\ out.neg.state # "TERMINATED"
                          /\ d.target = "OFFERED" => n.state = "INITIAL"
                          /\ IF out.neg.newAgreement
                               THEN d.msg.type = "agreement" /\ d.target = "AGREED"
                               ELSE d.msg.type # "agreement" /\ out.neg.agreement = n.agreement
    BY <1>11, <1>13, <1>15
  <1>16. /\ n.id \in DOMAIN table["provider"] /\ n.ppid = row.ppid /\ n.agreement = row.agreement
         /\ out.neg.ppid = IF n.state = "INITIAL" THEN uuid ELSE n.ppid
         /\ out.neg.state \in {"REQUESTED", "ACCEPTED", "VERIFIED", "TERMINATED"}
         /\ n.state = "INITIAL" => out.neg.state = "REQUESTED" /\ n.agreement = emptyUUID
         /\ n.state \in {"REQUESTED", "TERMINATED"} => out.neg.state = "TERMINATED"
    BY <1>2, <1>6, <1>8, <1>9, <1>10, <1>11
  <1>17. n.agreement # emptyUUID => out.neg.agreement = n.agreement
    BY <1>12, <1>14, <1>15
  <1>18. \/ out.entries = <<>> /\ ~out.neg.newAgreement /\ out.neg.agreement = n.agreement
         \/ \E e : /\ out.entries = <<e>> /\ EntryOf("provider", out.neg, e)
                   /\ out.neg.state # "TERMINATED"
                   /\ e.target = "OFFERED" => n.state = "INITIAL"
                   /\ IF out.neg.newAgreement
                        THEN e.msg.type = "agreement" /\ e.target = "AGREED"
                        ELSE e.msg.type # "agreement" /\ out.neg.agreement = n.agreement
    BY <1>12, <1>14, <1>15
  <1> QED
    BY <1>16, <1>17, <1>18, Zenon DEF n, row

LEMMA ProviderStoresOffered ==
  ASSUME NEW I, LockInv, Before(I), NEW o \in Roles, StartedBy(o), AgreedInv, AgreementsKept,
         OffersRight, NEW k \in Slots, NEW out, Stores("provider", k, I, out)
  PROVE  OffersRight'
  <1> DEFINE n == http["provider"][k].neg
             row == table["provider"][n.id]
             H == IF out.neg.newAgreement THEN {} ELSE Range(out.entries)
             S == IF out.neg.newAgreement THEN {Stored(out)} ELSE {}
  <1>1. "provider" \in Roles
    BY DEF Roles
  <1>2. /\ Puts("provider", n.id, out.neg) /\ Grows("provider", H, S) /\ out.neg.role = "provider"
        /\ \A pid : OneOffer(pid) /\ ((\E e \in Range(out.entries) : Offers(e, pid)) => NoOffer(pid)) =>
                      OneOffer(pid)'
    BY DEF Stores, StoredBy, CopiesOver
  <1>3. /\ n.id \in DOMAIN table["provider"] /\ n.ppid = row.ppid /\ n.agreement = row.agreement
        /\ n.state = row.state
    BY <1>1, StoreData
  <1>4. /\ out.neg.ppid = IF n.state = "INITIAL" THEN uuid ELSE n.ppid
        /\ out.neg.state \in {"REQUESTED", "ACCEPTED", "VERIFIED", "TERMINATED"}
        /\ n.state = "INITIAL" => out.neg.state = "REQUESTED" /\ n.agreement = emptyUUID
        /\ n.state \in {"REQUESTED", "TERMINATED"} => out.neg.state = "TERMINATED"
        /\ n.agreement # emptyUUID => out.neg.agreement = n.agreement
    BY ProviderReceives
  <1>5. \/ out.entries = <<>> /\ ~out.neg.newAgreement /\ out.neg.agreement = n.agreement
        \/ \E e : /\ out.entries = <<e>> /\ EntryOf("provider", out.neg, e)
                  /\ out.neg.state # "TERMINATED"
                  /\ e.target = "OFFERED" => n.state = "INITIAL"
                  /\ IF out.neg.newAgreement
                       THEN e.msg.type = "agreement" /\ e.target = "AGREED"
                       ELSE e.msg.type # "agreement" /\ out.neg.agreement = n.agreement
    BY ProviderReceives
  <1>6. OfferDue(row)
    BY <1>3 DEF OffersRight, ProviderRows
  <1> HIDE DEF n, row, H, S
  <1>7. /\ \A e \in Range(out.entries) :
             /\ EntryOf("provider", out.neg, e) /\ out.neg.state # "TERMINATED"
             /\ e.target = "OFFERED" => n.state = "INITIAL"
             /\ IF out.neg.newAgreement
                  THEN e.msg.type = "agreement" /\ e.target = "AGREED"
                  ELSE e.msg.type # "agreement"
        /\ ~out.neg.newAgreement => out.neg.agreement = n.agreement
    <2>1. CASE out.entries = <<>> /\ ~out.neg.newAgreement /\ out.neg.agreement = n.agreement
      BY <2>1 DEF Range
    <2>2. ASSUME NEW e, out.entries = <<e>>
          PROVE  Range(out.entries) = {e}
      BY <2>2 DEF Range
    <2> QED
      BY <1>5, <2>1, <2>2
  <1>8. AgreementStands
    BY <1>1, <1>2, <1>3, <1>4, RowPutStands DEF row
  <1>9. \A pid : OneOffer(pid)'
    <2>1. ASSUME NEW pid, NEW e \in Range(out.entries), Offers(e, pid)
          PROVE  NoOffer(pid)
      <3>1. pid = uuid
        BY <1>2, <1>4, <1>7, <2>1 DEF Offers, EntryOf, LocalPID
      <3> QED
        BY <3>1, NoOfferYet
    <2> QED
      BY <1>2, <2>1 DEF OffersRight, ProviderFlows
  <1>10. IsAgreed(out.neg.agreement)'
    <2>1. n.id \in DOMAIN table'["provider"] /\ table'["provider"][n.id].agreement = out.neg.agreement
      BY <1>1, <1>2 DEF Puts, SameColumns
    <2> QED
      BY <2>1 DEF IsAgreed
  <1>11. \A e \in Range(out.entries) : AgreedAs(e)'
    BY <1>7, <1>10 DEF AgreedAs, EntryOf
  <1>12. ProviderFlows'
    <2>1. /\ \A e \in H : AgreedAs(e)'
          /\ \A x \in S : \A e \in Range(x.entries) :
               e.msg.type = "agreement" /\ e.target = "AGREED" /\ AgreedAs(e)'
      BY <1>7, <1>11 DEF H, S, Stored
    <2> QED
      BY <1>1, <1>2, <1>8, <1>9, <2>1, ProviderFlowsStay DEF OffersRight
  <1>13. OfferDue(out.neg)'
    <2> SUFFICES ASSUME NEW d \in Held("provider")', Offers(d, out.neg.ppid)
                 PROVE  out.neg.agreement = emptyUUID /\ out.neg.state \in {"REQUESTED", "TERMINATED"}
      BY DEF OfferDue, Offers
    <2>1. CASE d \in Held("provider")
      <3>1. n.state # "INITIAL"
        BY <1>4, <2>1, NoOfferYet, NoneIsHeld
      <3>2. row.agreement = emptyUUID /\ row.state \in {"INITIAL", "REQUESTED", "TERMINATED"}
        BY <1>3, <1>4, <1>6, <2>1, <3>1 DEF OfferDue
      <3>3. out.neg.state = "TERMINATED"
        BY <1>3, <1>4, <3>1, <3>2
      <3> QED
        BY <1>3, <1>5, <3>2, <3>3
    <2>2. CASE d \in H
      <3>1. d \in Range(out.entries) /\ ~out.neg.newAgreement /\ d.target = "OFFERED"
        BY <2>2 DEF H, Offers
      <3> QED
        BY <1>4, <1>7, <3>1
    <2> QED
      BY <1>1, <1>2, <2>1, <2>2 DEF Grows
  <1>14. ProviderRows'
    <2>1. Unagreed(out.neg)
      BY <1>4 DEF Unagreed
    <2> QED
      BY <1>1, <1>2, <1>13, <2>1, RowPutOffered DEF OffersRight
  <1>15. ConsumerRows'
    BY <1>1, <1>2, <1>8, RowPutHeld DEF OffersRight
  <1> QED
    BY <1>12, <1>14, <1>15 DEF OffersRight

\* The consumer's handler takes over the agreement that it is sent, and no
\* other.
LEMMA ConsumerStoresOffered ==
  ASSUME NEW I, Before(I), NEW o \in Roles, StartedBy(o), AgreedInv, AgreementsKept, OffersRight,
         NEW k \in Slots, NEW out, Stores("consumer", k, I, out)
  PROVE  OffersRight'
  <1> DEFINE n == http["consumer"][k].neg
             q == http["consumer"][k].req
             m == q.msg
             row == table["consumer"][n.id]
             H == IF out.neg.newAgreement THEN {} ELSE Range(out.entries)
             S == IF out.neg.newAgreement THEN {Stored(out)} ELSE {}
  <1>1. /\ "consumer" \in Roles /\ "provider" \in Roles /\ Peer("consumer") = "provider"
        /\ "consumer" # "provider"
    BY DEF Peer, Roles
  <1>2. /\ Puts("consumer", n.id, out.neg) /\ Grows("consumer", H, S)
        /\ \A pid : OneOffer(pid) => OneOffer(pid)'
    BY DEF Stores
  <1>3. n.id \in DOMAIN table["consumer"] /\ n.agreement = row.agreement /\ q \in Posted("provider")
    BY <1>1, StoreData
  <1>4. PICK r : AgreementReceived(n, m, r) /\ Sent("consumer", r, uuid, out)
    BY <1>1, StoreData DEF Received
  <1>5. ConsumerRow(row) /\ AgreedAs(q) /\ KnownAgreement(q)
    BY <1>1, <1>3 DEF OffersRight, ConsumerRows, ProviderFlows, AgreedInv, FlowsAgreed
  <1> HIDE DEF n, q, row, H, S
  <1>6. r.agreement # emptyUUID => IsAgreed(r.agreement) /\ r.agreement \in agreements["provider"]
    BY <1>3, <1>4, <1>5 DEF AgreementReceived, SameAgreement, ConsumerRow, AgreedAs, KnownAgreement
  <1>7. out.neg.agreement = r.agreement
    <2>1. ASSUME NEW e, EntryOf("consumer", out.neg, e)
          PROVE  e.msg.type # "agreement"
      BY <2>1 DEF EntryOf, EntriesOver, MessagesOver, TypesFrom
    <2> QED
      BY <1>4, <2>1 DEF Sent
  <1>8. AgreementStands
    BY <1>1, <1>2, RowPutStands
  <1>9. ConsumerRow(out.neg)'
    BY <1>6, <1>7, <1>8, ConsumerRowStays DEF ConsumerRow
  <1>10. ConsumerRows'
    BY <1>1, <1>2, <1>8, <1>9, RowPutHeld DEF OffersRight
  <1>11. ProviderFlows'
    <2>1. \A pid : OneOffer(pid)'
      BY <1>2 DEF OffersRight, ProviderFlows
    <2> QED
      BY <1>1, <1>2, <1>8, <2>1, ProviderFlowsStay DEF OffersRight
  <1>12. ProviderRows'
    <2>1. Held("provider")' \subseteq Held("provider")
      BY <1>1, <1>2 DEF Grows
    <2> QED
      BY <1>1, <1>2, <2>1, RowPutOffered DEF OffersRight
  <1> QED
    BY <1>10, <1>11, <1>12 DEF OffersRight

\* The first negotiation has no agreement, and there is no other.
LEMMA BeginsOffered ==
  ASSUME NEW I, LockInv, Before(I), AgreedInv, AgreementsKept, OffersRight, NEW s \in Roles,
         PairsKnown("consumer"), NEW n, NEW r, NEW entries, Begins(s, I, n, r, entries)
  PROVE  OffersRight'
  <1>1. /\ FirstOf(s, n) /\ SameColumns(n, r) /\ table' = [table EXCEPT ![s] = <<r>>]
        /\ \A x \in Roles : DOMAIN table[x] = {}
        /\ Grows(s, Range(entries), {}) /\ DOMAIN table = Roles
        /\ \A pid : NoOffer(pid) => OneOffer(pid)'
    BY DEF Begins, Before, LockOver, StoreShape
  <1>2. /\ table'[s] = <<r>> /\ \A x \in Roles : x # s => table'[x] = table[x]
        /\ "provider" \in Roles /\ "consumer" \in Roles /\ Peer("consumer") = "provider"
    BY <1>1 DEF Roles, Peer
  <1>3. DOMAIN table'[s] = {1} /\ table'[s][1] = r /\ \A x \in Roles : x # s => DOMAIN table'[x] = {}
    BY <1>1, <1>2
  <1>4. r.state = "INITIAL" /\ r.agreement = emptyUUID
    BY <1>1 DEF FirstOf, SameColumns
  <1>5. /\ Held("provider") = {} /\ Posted("provider") = {}
        /\ \A x \in Storing("provider") : Range(x.entries) = {}
    <2>1. \A ppid, cpid : ~Settled("provider", ppid, cpid)
      BY <1>1, <1>2 DEF Settled
    <2> QED
      BY <1>2, <2>1 DEF PairsKnown, FlowsSettled
  <1>6. \A e \in Range(entries) : e.msg.type # "agreement"
    <2>1. CASE entries = <<>>
      BY <2>1 DEF Range
    <2>2. ASSUME NEW e, entries = <<e>>, EntryOf(s, n, e),
                 e.target \in {"REQUESTED", "OFFERED", "TERMINATED"}
          PROVE  \A d \in Range(entries) : d.msg.type # "agreement"
      <3>1. Range(entries) = {e}
        BY <2>2 DEF Range
      <3>2. e.msg.type # "agreement"
        BY <2>2 DEF EntryOf, TargetOf
      <3> QED
        BY <3>1, <3>2
    <2> QED
      BY <2>1, <2>2 DEF Begins
  <1>7. ProviderFlows'
    <2>1. \A pid : NoOffer(pid)
      <3>1. \A e : e \notin Held("provider")
        BY <1>5
      <3> QED
        BY <3>1 DEF NoOffer, WorkerOffers, QueueOffers, SlotOffers, Held, InQueue, AtWorker, ToApply
    <2>2. \A pid : OneOffer(pid)'
      BY <1>1, <2>1
    <2>3. \A e \in Range(entries) : AgreedAs(e)'
      BY <1>6 DEF AgreedAs
    <2>4. AgreementStands
      BY <1>1, <1>2 DEF AgreementStands
    <2> QED
      BY <1>1, <2>2, <2>3, <2>4, ProviderFlowsStay DEF OffersRight
  <1>8. ProviderRows'
    <2>1. Unagreed(r) /\ OfferDue(r)'
      BY <1>4 DEF Unagreed, OfferDue
    <2> QED
      BY <1>2, <1>3, <2>1 DEF ProviderRows
  <1>9. ConsumerRows'
    <2>1. ConsumerRow(r)'
      BY <1>4 DEF ConsumerRow
    <2> QED
      BY <1>2, <1>3, <2>1 DEF ConsumerRows
  <1> QED
    BY <1>7, <1>8, <1>9 DEF OffersRight

LEMMA StepOffered ==
  ASSUME NEW I, LockInv, Before(I), NEW o \in Roles, StartedBy(o), uuid = 1 => PairsKnown("consumer"),
         AgreedInv, AgreementsKept, OffersRight, WorkerNames, AllForward,
         calls \in Nat, calls' = 0, Quiet \/ \E s \in Roles : Moves(s, I)
  PROVE  OffersRight'
  <1>1. SameRows /\ Flows => OffersRight'
    BY QuietlyOffered
  <1>2. ASSUME NEW s \in Roles, Moves(s, I)
        PROVE  OffersRight'
    <2>1. \A k \in Slots : \A n : Created(s, k, I, n) => OffersRight'
      BY CreatedOffered
    <2>2. \A k, i : Locked(s, k, i) => OffersRight'
      BY <1>1 DEF Locked
    <2>3. \A i : Acquired(s, i) => OffersRight'
      BY <1>1 DEF Acquired
    <2>4. \A k \in Slots : \A out : Stores(s, k, I, out) => OffersRight'
      BY ProviderStoresOffered, ConsumerStoresOffered DEF Roles
    <2>5. \A x : Agrees(s, x) => OffersRight'
      BY AgreesOffered
    <2>6. \A i, n : Completes(s, i, n) => OffersRight'
      BY CompletesOffered
    <2>7. \A n, r, entries : Begins(s, I, n, r, entries) => OffersRight'
      <3>1. \A n, r, entries : Begins(s, I, n, r, entries) => uuid = 1
        BY DEF Begins
      <3> QED
        BY <3>1, BeginsOffered
    <2>8. /\ \A i, n, out : ~Calls(s, i, I, n, out)
          /\ \A i, e : ~Asks(s, i, e)
      BY DEF Calls, Asks
    <2> QED
      BY <1>2, <2>1, <2>2, <2>3, <2>4, <2>5, <2>6, <2>7, <2>8 DEF Moves
  <1> QED
    BY <1>1, <1>2 DEF Quiet

LEMMA NextOffered ==
  ASSUME WithinBounds, LockInv, OneInv, AgreedInv, WorkerNames, PairInv, OfferInv, [Next]_vars
  PROVE  OfferInv'
  <1> SUFFICES ASSUME calls' = 0
               PROVE  OffersRight'
    BY DEF OfferInv
  <1>1. calls \in Nat /\ calls = 0
    BY NextBounds, BoundsAssumption DEF CountersMove, WithinBounds
  <1>2. /\ OffersRight /\ \E o \in Roles : StartedBy(o)
        /\ uuid = 1 => PairsKnown("consumer")
    BY <1>1 DEF OfferInv, PairInv, OneInv, Roles
  <1>3. AllForward /\ AgreementsKept
    BY NextLock, NextAgreed
  <1>4. CASE Next
    <2>1. PICK J : J = IDs'
      OBVIOUS
    <2>2. Before(J)
      BY <1>4, <2>1, NextIDs
    <2>3. Quiet \/ \E s \in Roles : Moves(s, J)
      BY <1>4, <2>2, StepMoves
    <2> QED
      BY <1>1, <1>2, <1>3, <2>2, <2>3, StepOffered
  <1>5. CASE UNCHANGED vars
    <2>1. SameRows /\ Flows
      BY <1>5, StutterQuiet DEF vars, Quiet
    <2> QED
      BY <1>2, <1>3, <2>1, QuietlyOffered
  <1> QED
    BY <1>4, <1>5

LEMMA InitOffered ==
  ASSUME Init
  PROVE  OfferInv
  <1>1. \A s \in Roles : Held(s) = {} /\ Storing(s) = {} /\ Posted(s) = {} /\ DOMAIN table[s] = {}
    BY NothingUnderWay
  <1>2. ProviderRows /\ ConsumerRows
    BY <1>1 DEF ProviderRows, ConsumerRows, Roles
  <1>3. \A pid : OneOffer(pid)
    <2>1. \A e : e \notin Held("provider")
      BY <1>1 DEF Roles
    <2> QED
      BY <2>1 DEF OneOffer, WorkerOffers, QueueOffers, SlotOffers, Held, InQueue, AtWorker, ToApply
  <1>4. ProviderFlows
    BY <1>1, <1>3 DEF ProviderFlows, Roles
  <1> QED
    BY <1>2, <1>4 DEF OfferInv, OffersRight

LEMMA OfferInvariant == Spec => []OfferInv
  BY InitOffered, NextOffered, BoundsInvariant, LockInvariant, OneInvariant, AgreedInvariant,
     NamesInvariant, PairInvariant, PTL DEF Spec

-----------------------------------------------------------------------------
(* The halves agree                                                        *)

LEMMA RightHalves ==
  ASSUME LockInv, AgreedInv, PairInv, OfferInv
  PROVE  HalvesAgree
  <1> SUFFICES ASSUME calls = 0, NEW h \in Halves
               PROVE  /\ h[1].ppid \in {emptyUUID, h[2].ppid}
                      /\ h[1].agreement # emptyUUID =>
                           h[1].agreement = h[2].agreement /\ h[2].agreement \in agreements["provider"]
    BY DEF HalvesAgree
  <1>1. PICK j \in DOMAIN table["consumer"], i \in DOMAIN table["provider"] :
          h[1] = table["consumer"][j] /\ h[2] = table["provider"][i] /\ h[1].cpid = h[2].cpid
    BY DEF Halves, Range
  <1>2. PICK o \in Roles : StartedBy(o) /\ PairsKnown(o)
    BY DEF PairInv
  <1>3. \A l \in DOMAIN table["provider"] : l = i
    BY <1>1, <1>2 DEF StartedBy
  <1>4. h[1].cpid # emptyUUID
    <2>1. table["consumer"][j] \in RowsOver("consumer", IDs)
      BY <1>1, RowShapes DEF LockInv, LockOver, Roles
    <2> QED
      BY <1>1, <2>1 DEF RowsOver, CpidsOver
  <1>5. h[1].ppid \in {emptyUUID, h[2].ppid}
    <2>1. CASE o = "consumer"
      <3>1. RowPaired("consumer", h[1])
        BY <1>1, <1>2, <2>1 DEF PairsKnown, RowsPaired
      <3>2. h[1].ppid # emptyUUID => Settled("provider", h[1].ppid, h[1].cpid)
        BY <3>1 DEF RowPaired, RemotePIDOf, Peer
      <3> QED
        BY <1>1, <1>3, <3>2 DEF Settled
    <2>2. CASE o = "provider"
      <3>1. RowPaired("provider", h[2])
        BY <1>1, <1>2, <2>2 DEF PairsKnown, RowsPaired
      <3>2. Settled("consumer", h[2].ppid, h[2].cpid)
        BY <1>1, <1>4, <3>1 DEF RowPaired, RemotePIDOf, Peer
      <3>3. PICK l \in DOMAIN table["consumer"] :
              table["consumer"][l].ppid = h[2].ppid /\ table["consumer"][l].cpid = h[2].cpid
        BY <3>2 DEF Settled
      <3>4. l = j
        BY <1>1, <3>3 DEF AgreedInv, RowsApart, OwnPID, Roles
      <3> QED
        BY <1>1, <3>3, <3>4
    <2> QED
      BY <2>1, <2>2 DEF Roles
  <1>6. ASSUME h[1].agreement # emptyUUID
        PROVE  h[1].agreement = h[2].agreement /\ h[2].agreement \in agreements["provider"]
    <2>1. ConsumerRow(h[1])
      BY <1>1 DEF OfferInv, OffersRight, ConsumerRows
    <2> QED
      BY <1>1, <1>3, <1>6, <2>1 DEF ConsumerRow, IsAgreed
  <1> QED
    BY <1>5, <1>6

\* As long as operators make no further calls, a consumer that names a provider
\* PID names its peer's, and the agreement it has is the one its provider has
\* and has stored (ApplyResponse, verifyAndTransform, sendContractAgreement,
\* storeNegotiation): whichever requests cross, are lost or time out.
THEOREM HalvesDoAgree == Spec => []HalvesAgree
  BY RightHalves, LockInvariant, AgreedInvariant, PairInvariant, OfferInvariant, PTL

-----------------------------------------------------------------------------
(* How slots, workers and deques go on                                     *)

\* A request stays what it is, and HandlerStore is what stores it.
SlotSteps(s, k) ==
  LET h == http[s][k]
      h1 == http'[s][k]
  IN  /\ h.pc # "idle" /\ h1.pc # "idle" => h1.req = h.req
      /\ h1.pc \in {"stored", "apply"} =>
           h.pc # "idle" /\ (h.pc \in {"stored", "apply"} \/ HandlerStore(s, k))

\* The worker of s goes on to send its entry, is answered by a handler that
\* applies what it has stored, or has failed to get the row.
WorkerSteps(s) ==
  LET w == worker[s]
      w1 == worker'[s]
      slots == http[Peer(s)]
      slots1 == http'[Peer(s)]
  IN  /\ w1.pc = "wait" =>
           /\ w1.op.entry = w.op.entry /\ w1.slot \in Slots
           /\ \/ w.pc = "wait" /\ w1.slot = w.slot
              \/ /\ w.pc = "send" /\ slots1[w1.slot].pc = "arrived"
                 /\ slots1[w1.slot].req = RequestOf(w.op.entry)
      /\ w1.pc = "answered" =>
           /\ w1.op.entry = w.op.entry
           /\ w.pc = "answered" \/ (w.pc = "wait" /\ slots[w.slot].pc = "apply")
      /\ w1.pc \in {"failed", "terminate"} =>
           /\ w1.op.entry = w.op.entry
           /\ w.pc \in {"failed", "terminate"} \/ AcquireFails(s)
      /\ w.pc = "idle" => w1.pc = "idle" \/ \E i \in DOMAIN queue[s] : Take(s, i)

QueueSteps(s) ==
  \/ queue'[s] \in {queue[s], <<>>}
  \/ \E i \in DOMAIN queue[s] : Take(s, i)
  \/ Requeue(s)
  \/ \E k \in Slots : HandlerApply(s, k)
  \/ Begin \/ control[s].pc # "idle" \/ calls' # calls

\* A lock that was left behind is never freed.
LeaksStay ==
  \A s \in Roles : \A i \in DOMAIN table[s] :
    table[s][i].lock = "leaked" => table'[s][i].lock = "leaked"

ProcessSteps == \A s \in Roles : WorkerSteps(s) /\ \A k \in Slots : SlotSteps(s, k)

StepsOn == ProcessSteps /\ LeaksStay /\ \A s \in Roles : QueueSteps(s)

LEMMA ProcessesRest ==
  ASSUME UNCHANGED <<http, worker>>, NEW I, LockOver(I)
  PROVE  ProcessSteps
  <1>1. \A s \in Roles : worker[s].pc = "wait" => worker[s].slot \in Slots
    BY WorkerShapes DEF LockOver
  <1>2. \A s \in Roles : WorkerSteps(s)
    BY <1>1 DEF WorkerSteps
  <1>3. \A s \in Roles, k \in Slots : SlotSteps(s, k)
    BY DEF SlotSteps
  <1> QED
    BY <1>2, <1>3 DEF ProcessSteps

LEMMA SlotStep ==
  ASSUME NEW I, LockOver(I), NEW s \in Roles, NEW k \in Slots, http[s][k].pc # "idle",
         NEW n \in HandlersOver(s, I), SlotBecomes(s, k, n), n.req = http[s][k].req, worker' = worker,
         n.pc \in {"stored", "apply"} => http[s][k].pc \in {"stored", "apply"} \/ HandlerStore(s, k)
  PROVE  ProcessSteps
  <1>1. http'[s][k] = n /\ \A x \in Roles, y \in Slots : x # s \/ y # k => http'[x][y] = http[x][y]
    BY SlotWritten DEF LockOver
  <1>2. ASSUME NEW x \in Roles, NEW y \in Slots
        PROVE  SlotSteps(x, y)
    BY <1>1 DEF SlotSteps
  <1>3. \A x \in Roles : worker[x].pc = "wait" => worker[x].slot \in Slots
    BY WorkerShapes DEF LockOver
  <1>4. \A x \in Roles : WorkerSteps(x)
    BY <1>3 DEF WorkerSteps
  <1> QED
    BY <1>2, <1>4 DEF ProcessSteps

LEMMA WorkerStep ==
  ASSUME NEW I, LockOver(I), NEW s \in Roles, NEW n \in WorkersOver(s, I), WorkerBecomes(s, n),
         http' = http, n.pc \notin {"wait", "answered"},
         n.pc \in {"failed", "terminate"} =>
           /\ n.op.entry = worker[s].op.entry
           /\ worker[s].pc \in {"failed", "terminate"} \/ AcquireFails(s),
         worker[s].pc = "idle" => \E i \in DOMAIN queue[s] : Take(s, i)
  PROVE  ProcessSteps
  <1>1. worker'[s] = n /\ \A x \in Roles : x # s => worker'[x] = worker[x]
    BY WorkerWritten DEF LockOver
  <1>2. \A x \in Roles, y \in Slots : SlotSteps(x, y)
    BY DEF SlotSteps
  <1>3. \A x \in Roles : worker[x].pc = "wait" => worker[x].slot \in Slots
    BY WorkerShapes DEF LockOver
  <1>4. \A x \in Roles : x # s => WorkerSteps(x)
    BY <1>1, <1>3 DEF WorkerSteps
  <1>5. WorkerSteps(s)
    BY <1>1 DEF WorkerSteps
  <1> QED
    BY <1>2, <1>4, <1>5 DEF ProcessSteps

LEMMA AnswerStep ==
  ASSUME NEW I, LockOver(I), NEW s \in Roles, NEW k \in Slots, http[s][k].pc # "idle",
         NEW pc \in {"answered", "httpError"}, NEW ack \in AcksOver(I), Answer(s, k, pc, ack),
         pc = "answered" => http[s][k].pc = "apply"
  PROVE  ProcessSteps
  <1> DEFINE p == Peer(s)
  <1>1. /\ http'[s][k] = Idle /\ worker'[s] = worker[s]
        /\ \A x \in Roles, y \in Slots : x # s \/ y # k => http'[x][y] = http[x][y]
        /\ ~http[s][k].live => worker' = worker
        /\ http[s][k].live => /\ worker[p].pc = "wait" /\ worker[p].slot = k
                              /\ worker'[p].op = worker[p].op /\ worker'[p].pc = pc
    BY Answered
  <1>2. http[s][k].live \in BOOLEAN /\ p \in Roles /\ Peer(p) = s /\ \A x \in Roles : x = s \/ x = p
    BY SlotShapes DEF LockOver, Peer, Roles
  <1>3. \A x \in Roles, y \in Slots : SlotSteps(x, y)
    BY <1>1 DEF SlotSteps, Idle
  <1>4. \A x \in Roles : worker[x].pc = "wait" => worker[x].slot \in Slots
    BY WorkerShapes DEF LockOver
  <1>5. \A x \in Roles : worker'[x] = worker[x] => WorkerSteps(x)
    BY <1>4 DEF WorkerSteps
  <1>6. http[s][k].live => WorkerSteps(p)
    BY <1>1, <1>2 DEF WorkerSteps
  <1> QED
    BY <1>1, <1>2, <1>3, <1>5, <1>6 DEF ProcessSteps

\* A process dies: its handlers and its worker are gone, and its peer's worker
\* does not wait for an answer any more.
LEMMA DieStep ==
  ASSUME NEW I, LockOver(I), NEW s \in Roles, NEW released, Die(s, released)
  PROVE  ProcessSteps
  <1> DEFINE p == Peer(s)
  <1>1. p \in Roles /\ Peer(p) = s /\ \A x \in Roles : x = s \/ x = p
    BY DEF Peer, Roles
  <1>2. /\ \A k \in Slots : http'[s][k] = Idle
        /\ \A k \in Slots : http[p][k] = Idle => http'[p][k] = Idle
        /\ \A k \in Slots : http[p][k] # Idle => http'[p][k] = [http[p][k] EXCEPT !.live = FALSE]
    BY HandlersAfterDeath
  <1>3. /\ worker'[s] = Idle
        /\ IF worker[p].pc = "wait"
             THEN worker'[p] = [pc |-> "httpError", op |-> worker[p].op,
                                neg |-> worker[p].neg, ack |-> NoAck]
             ELSE worker'[p] = worker[p]
    BY WorkersAfterDeath
  <1>4. ASSUME NEW k \in Slots
        PROVE  SlotSteps(s, k) /\ SlotSteps(p, k)
    <2>1. SlotSteps(s, k)
      BY <1>2 DEF SlotSteps, Idle
    <2>2. CASE http[p][k] = Idle
      BY <1>2, <2>1, <2>2 DEF SlotSteps, Idle
    <2>3. CASE http[p][k] # Idle
      <3>1. http[p][k] \in HandlersOver(p, I) /\ http[p][k].pc # "idle"
        BY <1>1, <2>3, SlotShapes DEF LockOver
      <3>2. http'[p][k].pc = http[p][k].pc /\ http'[p][k].req = http[p][k].req
        BY <1>2, <2>3, <3>1 DEF HandlersOver, Idle
      <3> QED
        BY <2>1, <3>1, <3>2 DEF SlotSteps
    <2> QED
      BY <2>2, <2>3
  <1>5. WorkerSteps(s)
    BY <1>3 DEF WorkerSteps, Idle
  <1>6. worker[p].pc = "wait" => worker[p].slot \in Slots
    BY <1>1, WorkerShapes DEF LockOver
  <1>7. WorkerSteps(p)
    BY <1>3, <1>6 DEF WorkerSteps
  <1> QED
    BY <1>1, <1>4, <1>5, <1>7 DEF ProcessSteps

LEMMA SendHTTPRequestStep ==
  ASSUME NEW I, Before(I), NEW s \in Roles, NEW k \in Slots, SendHTTPRequest(s, k)
  PROVE  ProcessSteps
  <1> DEFINE p == Peer(s)
             w == worker[s]
             h == [pc |-> "arrived", live |-> TRUE, req |-> RequestOf(w.op.entry)]
             n == [pc |-> "wait", op |-> w.op, neg |-> w.neg, slot |-> k]
  <1>1. /\ LockOver(I) /\ w.pc = "send" /\ http[p][k].pc = "idle"
        /\ http' = [http EXCEPT ![p][k] = h] /\ WorkerBecomes(s, n)
    BY DEF SendHTTPRequest, Before, WorkerBecomes, RequestOf
  <1>2. p \in Roles /\ p # s /\ Peer(p) = s /\ \A x \in Roles : x = s \/ x = p
    BY DEF Peer, Roles
  <1>3. w.pc \in Busy /\ w.op \in OperationsOver(s, I) /\ w.neg \in CopiesOver(s, I)
    BY <1>1, BusyWorker DEF Busy
  <1>4. n \in WorkersOver(s, I) /\ n.op = w.op /\ n.pc = "wait" /\ n.slot = k
    BY <1>3 DEF WorkersOver
  <1>5. h.pc = "arrived" /\ h.req = RequestOf(w.op.entry)
    OBVIOUS
  <1> HIDE DEF h, n
  <1>6. http'[p][k] = h /\ \A x \in Roles, y \in Slots : x # p \/ y # k => http'[x][y] = http[x][y]
    BY <1>1, <1>2 DEF LockOver, HandlersShape
  <1>7. worker'[s] = n /\ \A x \in Roles : x # s => worker'[x] = worker[x]
    BY <1>1, <1>4, WorkerWritten DEF LockOver
  <1>8. \A x \in Roles, y \in Slots : SlotSteps(x, y)
    BY <1>1, <1>5, <1>6 DEF SlotSteps
  <1>9. WorkerSteps(s)
    BY <1>1, <1>4, <1>5, <1>6, <1>7 DEF WorkerSteps
  <1>10. worker[p].pc = "wait" => worker[p].slot \in Slots
    BY <1>1, <1>2, WorkerShapes DEF LockOver
  <1>11. WorkerSteps(p)
    BY <1>2, <1>7, <1>10 DEF WorkerSteps
  <1> QED
    BY <1>2, <1>8, <1>9, <1>11 DEF ProcessSteps

LEMMA ConnectionLostStep ==
  ASSUME NEW I, Before(I), NEW s \in Roles, ConnectionLost(s)
  PROVE  ProcessSteps
  <1> DEFINE p == Peer(s)
             w == worker[s]
             k == w.slot
             h == [http[p][k] EXCEPT !.live = FALSE]
             n == [pc |-> "httpError", op |-> w.op, neg |-> w.neg, ack |-> NoAck]
  <1>1. /\ LockOver(I) /\ w.pc = "wait" /\ w.pc \in Busy
        /\ http' = [http EXCEPT ![p][k].live = FALSE] /\ WorkerBecomes(s, n)
    BY DEF ConnectionLost, Before, WorkerBecomes, Busy
  <1>2. p \in Roles /\ Peer(p) = s /\ \A x \in Roles : x = s \/ x = p
    BY DEF Peer, Roles
  <1>3. k \in Slots /\ http[p][k] # Idle
    BY <1>1, WorkerShapes DEF LockOver, Waiting
  <1>4. http[p][k] \in HandlersOver(p, I) /\ http[p][k].pc # "idle"
    BY <1>1, <1>2, <1>3, SlotShapes DEF LockOver
  <1>5. h.pc = http[p][k].pc /\ h.req = http[p][k].req
    BY <1>4 DEF HandlersOver, Idle
  <1>6. n \in WorkersOver(s, I) /\ n.pc = "httpError"
    BY <1>1, FailedWorker
  <1>7. http'[p][k] = h /\ \A x \in Roles, y \in Slots : x # p \/ y # k => http'[x][y] = http[x][y]
    BY <1>1, <1>2, <1>3 DEF LockOver, HandlersShape
  <1> HIDE DEF h, n
  <1>8. worker'[s] = n /\ \A x \in Roles : x # s => worker'[x] = worker[x]
    BY <1>1, <1>6, WorkerWritten DEF LockOver
  <1>9. \A x \in Roles, y \in Slots : SlotSteps(x, y)
    BY <1>4, <1>5, <1>7 DEF SlotSteps
  <1>10. \A x \in Roles : worker[x].pc = "wait" => worker[x].slot \in Slots
    BY <1>1, WorkerShapes DEF LockOver
  <1>11. WorkerSteps(s)
    BY <1>1, <1>6, <1>8 DEF WorkerSteps
  <1>12. \A x \in Roles : x # s => WorkerSteps(x)
    BY <1>8, <1>10 DEF WorkerSteps
  <1> QED
    BY <1>9, <1>11, <1>12 DEF ProcessSteps

\* A row is written by whoever has its lock, which is not left behind then.
LEMMA LeaksRest ==
  ASSUME NEW s \in Roles, NEW i, NEW o, RowChange(s, i, o), o # "leaked"
  PROVE  LeaksStay
  BY DEF RowChange, LeaksStay

LEMMA LockLeaks ==
  ASSUME NEW I, LockOver(I), NEW s \in Roles, NEW i \in DOMAIN table[s], NEW o \in Locks,
         SetLock(s, i, o), table[s][i].lock # "leaked", agreements' = agreements
  PROVE  LeaksStay
  BY LockWritten, LeaksRest DEF LockOver

LEMMA DieLeaks ==
  ASSUME NEW I, LockOver(I), NEW s \in Roles, NEW released, Die(s, released),
         \A i \in DOMAIN table[s] : i \in released => table[s][i].lock # "leaked"
  PROVE  LeaksStay
  <1>1. \A x \in Roles : x # s => table'[x] = table[x]
    BY TableAfterDeath DEF LockOver
  <1>2. table[s] \in Seq(RowsOver(s, I)) /\ DOMAIN table = Roles
    BY DEF LockOver, StoreShape
  <1>3. \A i \in DOMAIN table[s] : table[s][i] \in RowsOver(s, I)
    BY <1>2
  <1>4. ASSUME NEW i \in DOMAIN table[s], table[s][i].lock = "leaked"
        PROVE  table'[s][i].lock = "leaked"
    <2>1. table'[s][i] = [table[s][i] EXCEPT !.lock = "leaked"]
      BY <1>2, <1>4 DEF Die
    <2> QED
      BY <1>3, <2>1 DEF RowsOver
  <1> QED
    BY <1>1, <1>4 DEF LeaksStay

LEMMA RowsRest ==
  ASSUME table' = table
  PROVE  LeaksStay
  BY DEF LeaksStay

\* A handler refuses.
LEMMA RefuseStep ==
  ASSUME NEW I, LockOver(I), NEW s \in Roles, NEW k \in Slots, http[s][k].pc # "idle", Refuse(s, k)
  PROVE  ProcessSteps
  BY NoAckShape, AnswerStep DEF Refuse

LEMMA RefusingStep ==
  ASSUME NEW I, Before(I), NEW s \in Roles, NEW k \in Slots,
         HandlerNotFound(s, k) \/ HandlerReject(s, k) \/ HandlerNotifyFails(s, k)
           \/ HandlerCancelled(s, k)
  PROVE  ProcessSteps /\ LeaksStay /\ queue' = queue
  <1>1. LockOver(I) /\ {"free", "leaked"} \subseteq Locks /\ k # "leaked"
    BY SlotsAssumption DEF Before, Locks
  <1>2. Refuse(s, k) /\ http[s][k].pc # "idle" /\ queue' = queue
    BY DEF HandlerNotFound, HandlerReject, HandlerNotifyFails, HandlerCancelled, store
  <1>3. ProcessSteps
    BY <1>1, <1>2, RefuseStep
  <1>4. CASE HandlerNotFound(s, k)
    <2>1. /\ agreements' = agreements
          /\ \/ table' = table
             \/ \E i \in DOMAIN table[s] : table[s][i].lock = "free" /\ SetLock(s, i, "leaked")
      BY <1>4 DEF HandlerNotFound, Wanted, Lookup
    <2> QED
      BY <1>1, <1>2, <1>3, <2>1, RowsRest, LockLeaks
  <1>5. http[s][k].pc = "locked" =>
          http[s][k].neg.id \in DOMAIN table[s] /\ table[s][http[s][k].neg.id].lock = k
    BY <1>1, LockedHandler
  <1>6. CASE HandlerReject(s, k)
    <2>1. agreements' = agreements /\ http[s][k].pc = "locked" /\ SetLock(s, http[s][k].neg.id, "free")
      BY <1>6 DEF HandlerReject
    <2> QED
      BY <1>1, <1>2, <1>3, <1>5, <2>1, LockLeaks
  <1>7. CASE HandlerNotifyFails(s, k)
    BY <1>2, <1>3, <1>7, RowsRest DEF HandlerNotifyFails, store
  <1>8. CASE HandlerCancelled(s, k)
    <2>1. /\ agreements' = agreements
          /\ IF http[s][k].pc = "locked" THEN SetLock(s, http[s][k].neg.id, "leaked")
                                         ELSE table' = table
      BY <1>8 DEF HandlerCancelled
    <2> QED
      BY <1>1, <1>2, <1>3, <1>5, <2>1, RowsRest, LockLeaks
  <1> QED
    BY <1>4, <1>6, <1>7, <1>8

LEMMA RouteRequestStep ==
  ASSUME NEW I, Before(I), NEW s \in Roles, NEW k \in Slots, RouteRequest(s, k)
  PROVE  ProcessSteps /\ LeaksStay /\ queue' = queue
  <1> DEFINE h == http[s][k]
             route == Route(h.req.base, h.req.pid, h.req.msg.type)
  <1>1. /\ LockOver(I) /\ h.pc = "arrived" /\ route \notin {"newRequest", "newOffer"}
        /\ UNCHANGED <<table, queue>>
    BY DEF RouteRequest, Before, store
  <1>2. h.live \in BOOLEAN /\ h.req \in RequestsOver(s, I)
    BY <1>1, SlotShapes DEF LockOver
  <1>3. CASE route = "none"
    <2>1. Refuse(s, k)
      BY <1>3 DEF RouteRequest
    <2> QED
      BY <1>1, <2>1, RefuseStep, RowsRest
  <1>4. CASE route # "none"
    <2>1. route \in {"any", "provider", "consumer"}
      BY <1>1, <1>2, <1>4, CreatingRoutes
    <2> DEFINE n == [pc |-> "lock", req |-> h.req, live |-> h.live,
                     route |-> route, pid |-> h.req.pid]
    <2>2. SlotBecomes(s, k, n) /\ worker' = worker
      BY <1>4 DEF RouteRequest, SlotBecomes
    <2>3. h.req.pid \in I
      BY <1>2 DEF RequestsOver
    <2>4. n \in HandlersOver(s, I) /\ n.pc = "lock" /\ n.req = h.req
      BY <1>2, <2>1, <2>3 DEF HandlersOver
    <2> HIDE DEF n
    <2> QED
      BY <1>1, <2>2, <2>4, SlotStep, RowsRest
  <1> QED
    BY <1>3, <1>4

LEMMA CreateNegotiationStep ==
  ASSUME NEW I, Before(I), NEW s \in Roles, NEW k \in Slots, CreateNegotiation(s, k)
  PROVE  ProcessSteps /\ LeaksStay /\ queue' = queue
  <1> DEFINE h == http[s][k]
  <1>1. /\ h.pc = "arrived" /\ h.req \in RequestsOver(s, I)
        /\ UNCHANGED <<agreements, queue>> /\ LockOver(I)
    BY CreateEffect DEF Before
  <1>2. CASE Refuse(s, k) /\ UNCHANGED <<table, uuid>>
    BY <1>1, <1>2, RefuseStep, RowsRest
  <1>3. CASE \E n : Inserted(s, k, I, n)
    <2> PICK n : Inserted(s, k, I, n)
      BY <1>3
    <2>1. /\ n \in CopiesOver(s, I) /\ uuid \in I
          /\ table' = [table EXCEPT ![s] = Append(@, ToModel(n))]
          /\ SlotBecomes(s, k, [pc |-> "lock", req |-> h.req, live |-> h.live,
                                route |-> s, pid |-> uuid])
          /\ worker' = worker
      BY DEF Inserted
    <2>2. RowChange(s, Len(table[s]) + 1, "free")
      BY <1>1, <2>1, ModelShapes, RowAdded DEF LockOver
    <2> DEFINE x == [pc |-> "lock", req |-> h.req, live |-> h.live, route |-> s, pid |-> uuid]
    <2>3. h.live \in BOOLEAN /\ s \in {"consumer", "provider"}
      BY <1>1, SlotShapes DEF LockOver, Roles
    <2>4. x \in HandlersOver(s, I) /\ x.pc = "lock" /\ x.req = h.req
      BY <1>1, <2>1, <2>3 DEF HandlersOver
    <2>5. SlotBecomes(s, k, x)
      BY <2>1
    <2> HIDE DEF x
    <2> QED
      BY <1>1, <2>1, <2>2, <2>4, <2>5, SlotStep, LeaksRest
  <1> QED
    BY <1>2, <1>3, CreateEffect

LEMMA HandlerLockStep ==
  ASSUME NEW I, Before(I), NEW s \in Roles, NEW k \in Slots, HandlerLock(s, k)
  PROVE  ProcessSteps /\ LeaksStay /\ queue' = queue
  <1> DEFINE h == http[s][k]
  <1>1. LockOver(I) /\ UNCHANGED <<agreements, queue, worker>>
    BY DEF HandlerLock, Before
  <1>2. PICK i \in Wanted(s, k) :
          /\ Free(s, i) /\ SetLock(s, i, k)
          /\ http' = [http EXCEPT ![s][k] = [pc |-> "locked", req |-> h.req, live |-> h.live,
                                             neg |-> FromModel(table[s][i], i)]]
    BY DEF HandlerLock
  <1>3. i \in DOMAIN table[s] /\ h.pc = "lock" /\ table[s][i].lock = "free" /\ k \in Locks
    BY <1>2 DEF Wanted, Lookup, Free, Locks
  <1>4. h.live \in BOOLEAN /\ h.req \in RequestsOver(s, I) /\ FromModel(table[s][i], i) \in CopiesOver(s, I)
    BY <1>1, <1>3, SlotShapes, RowShapes DEF LockOver
  <1> DEFINE x == [pc |-> "locked", req |-> h.req, live |-> h.live, neg |-> FromModel(table[s][i], i)]
  <1>5. x \in HandlersOver(s, I) /\ x.pc = "locked" /\ x.req = h.req
    BY <1>4 DEF HandlersOver
  <1>6. SlotBecomes(s, k, x)
    BY <1>2 DEF SlotBecomes
  <1> HIDE DEF x
  <1> QED
    BY <1>1, <1>2, <1>3, <1>5, <1>6, SlotStep, LockLeaks

LEMMA HandlerStoreStep ==
  ASSUME NEW I, Before(I), NEW s \in Roles, NEW k \in Slots, HandlerStore(s, k)
  PROVE  ProcessSteps /\ LeaksStay /\ queue' = queue
  <1> DEFINE h == http[s][k]
  <1>1. h.pc = "locked" /\ LockOver(I) /\ UNCHANGED <<agreements, queue, worker>>
    BY DEF HandlerStore, Before
  <1>2. PICK out : StoredBy(s, k, I, out)
    BY StoreEffect
  <1>3. h.neg.id \in DOMAIN table[s] /\ table[s][h.neg.id].lock = k
        /\ h.live \in BOOLEAN /\ h.req \in RequestsOver(s, I)
    BY <1>1, LockedHandler
  <1>4. RowChange(s, h.neg.id, k) /\ k # "leaked"
    BY <1>1, <1>2, <1>3, CopyWritten, SlotsAssumption DEF LockOver, StoredBy
  <1> DEFINE x == [pc |-> IF out.neg.newAgreement THEN "stored" ELSE "apply",
                   req |-> h.req, live |-> h.live, neg |-> out.neg, entries |-> out.entries]
  <1>5. x.req = h.req /\ x \in HandlersOver(s, I) /\ SlotBecomes(s, k, x)
    BY <1>2, <1>3 DEF HandlersOver, StoredBy
  <1> HIDE DEF x
  <1> QED
    BY <1>1, <1>4, <1>5, SlotStep, LeaksRest

LEMMA HandlerPutAgreementStep ==
  ASSUME NEW I, Before(I), NEW s \in Roles, NEW k \in Slots, HandlerPutAgreement(s, k)
  PROVE  ProcessSteps /\ LeaksStay /\ queue' = queue
  <1> DEFINE h == http[s][k]
             x == [h EXCEPT !.pc = "apply"]
  <1>1. /\ LockOver(I) /\ UNCHANGED <<table, queue, worker>> /\ h.pc = "stored"
        /\ SlotBecomes(s, k, x)
    BY DEF HandlerPutAgreement, Before, SlotBecomes
  <1>2. h \in HandlersOver(s, I)
    BY <1>1, SlotShapes DEF LockOver
  <1>3. h \in [pc: {"stored", "apply"}, live: BOOLEAN, req: RequestsOver(s, I),
               neg: CopiesOver(s, I), entries: Seq(EntriesOver(s, I))]
    BY <1>1, <1>2 DEF HandlersOver, Idle
  <1>4. /\ x \in [pc: {"stored", "apply"}, live: BOOLEAN, req: RequestsOver(s, I),
                  neg: CopiesOver(s, I), entries: Seq(EntriesOver(s, I))]
        /\ x.req = h.req
    BY <1>3
  <1>5. x \in HandlersOver(s, I)
    BY <1>4 DEF HandlersOver
  <1> HIDE DEF x
  <1> QED
    BY <1>1, <1>4, <1>5, SlotStep, RowsRest

LEMMA HandlerApplyStep ==
  ASSUME NEW I, Before(I), NEW s \in Roles, NEW k \in Slots, HandlerApply(s, k)
  PROVE  ProcessSteps /\ LeaksStay
  <1> DEFINE h == http[s][k]
             ack == [ppid |-> h.neg.ppid, cpid |-> h.neg.cpid]
  <1>1. LockOver(I) /\ table' = table /\ h.pc = "apply" /\ Answer(s, k, "answered", ack)
    BY DEF HandlerApply, Before, store
  <1>2. h.neg \in CopiesOver(s, I)
    BY <1>1, SlotShapes DEF LockOver
  <1>3. ack \in AcksOver(I)
    BY <1>2 DEF CopiesOver, PpidsOver, CpidsOver, AcksOver
  <1> HIDE DEF ack
  <1> QED
    BY <1>1, <1>3, AnswerStep, RowsRest

LEMMA HandlersStep ==
  ASSUME NEW I, Before(I), NEW s \in Roles, NEW k \in Slots,
         Handle(s, k) \/ HandlerNotifyFails(s, k) \/ HandlerCancelled(s, k)
  PROVE  StepsOn
  <1>1. queue' = queue => \A x \in Roles : QueueSteps(x)
    BY DEF QueueSteps
  <1>2. CASE HandlerApply(s, k)
    <2>1. DOMAIN queue = Roles /\ queue' = [queue EXCEPT ![s] = @ \o Operations(http[s][k].entries)]
      BY <1>2 DEF HandlerApply, Before, LockOver, QueuesShape
    <2>2. \A x \in Roles : QueueSteps(x)
      BY <1>2, <2>1 DEF QueueSteps
    <2> QED
      BY <1>2, <2>2, HandlerApplyStep DEF StepsOn
  <1> QED
    BY <1>1, <1>2, RefusingStep, RouteRequestStep, CreateNegotiationStep, HandlerLockStep,
       HandlerStoreStep, HandlerPutAgreementStep DEF Handle, StepsOn

LEMMA QueuesRest ==
  ASSUME queue' = queue
  PROVE  \A s \in Roles : QueueSteps(s)
  BY DEF QueueSteps

\* The reconcilers.
LEMMA TakeStep ==
  ASSUME NEW I, Before(I), NEW s \in Roles, NEW i \in DOMAIN queue[s], Take(s, i)
  PROVE  StepsOn
  <1>1. /\ LockOver(I) /\ UNCHANGED <<table, http>> /\ worker[s].pc = "idle"
        /\ queue' = [queue EXCEPT ![s] = SubSeq(@, 1, i - 1) \o SubSeq(@, i + 1, Len(@))]
    BY DEF Take, Before, store
  <1>2. queue[s] \in Seq(QueuedOver(s, I)) /\ DOMAIN queue = Roles
    BY <1>1 DEF LockOver, QueuesShape
  <1>3. queue[s][i] \in QueuedOver(s, I)
    BY <1>2, LenProperties, ElementOfSeq
  <1>4. PICK op \in OperationsOver(s, I) : op = [queue[s][i] EXCEPT !.attempts = @ + 1]
    <2>1. 0..(MaxAttempts - 1) \subseteq Nat /\ \A a \in 0..(MaxAttempts - 1) : a + 1 \in 0..MaxAttempts
      BY BoundsAssumption
    <2> QED
      BY <1>3, <2>1 DEF QueuedOver, OperationsOver
  <1> DEFINE n == [pc |-> "acquire", op |-> op]
  <1>5. n \in WorkersOver(s, I) /\ n.pc = "acquire"
    BY LooseWorkers
  <1>6. WorkerBecomes(s, n)
    BY <1>4 DEF Take, WorkerBecomes
  <1> HIDE DEF n
  <1>7. ProcessSteps
    BY <1>1, <1>5, <1>6, WorkerStep
  <1>8. \A x \in Roles : QueueSteps(x)
    BY <1>1, <1>2 DEF QueueSteps
  <1> QED
    BY <1>1, <1>7, <1>8, RowsRest DEF StepsOn

LEMMA AcquireStep ==
  ASSUME NEW I, Before(I), NEW s \in Roles, Acquire(s)
  PROVE  StepsOn
  <1> DEFINE op == worker[s].op
  <1>1. /\ LockOver(I) /\ UNCHANGED <<agreements, queue, http>> /\ worker[s].pc = "acquire"
    BY DEF Acquire, Before
  <1>2. PICK i \in EntryRows(s, op.entry) :
          /\ CanUpdate(s, i, op.entry) /\ SetLock(s, i, "worker")
          /\ worker' = [worker EXCEPT ![s] =
               [pc |-> "send", op |-> op,
                neg |-> SetState(FromModel(table[s][i], i), op.entry.target)]]
    BY DEF Acquire
  <1>3. op \in OperationsOver(s, I) /\ op.entry.target \in States
    BY <1>1, WorkerIsUp DEF OperationsOver, EntriesOver
  <1>4. i \in DOMAIN table[s] /\ table[s][i].lock = "free" /\ "worker" \in Locks
    BY <1>2 DEF EntryRows, Lookup, CanUpdate, Free, Locks
  <1>5. FromModel(table[s][i], i) \in CopiesOver(s, I) /\ i \in Nat
    BY <1>1, <1>4, RowShapes DEF LockOver
  <1> DEFINE neg == SetState(FromModel(table[s][i], i), op.entry.target)
             n == [pc |-> "send", op |-> op, neg |-> neg]
  <1>6. neg \in CopiesOver(s, I)
    BY <1>3, <1>5 DEF SetState, CopiesOver
  <1> HIDE DEF neg, op
  <1>7. n \in WorkersOver(s, I) /\ n.pc = "send"
    BY <1>3, <1>6 DEF WorkersOver
  <1>8. WorkerBecomes(s, n)
    BY <1>2 DEF WorkerBecomes, neg, op
  <1> HIDE DEF n
  <1>9. ProcessSteps
    BY <1>1, <1>7, <1>8, WorkerStep
  <1> QED
    BY <1>1, <1>2, <1>4, <1>9, LockLeaks, QueuesRest DEF StepsOn

LEMMA AcquireFailsStep ==
  ASSUME NEW I, Before(I), NEW s \in Roles, AcquireFails(s)
  PROVE  StepsOn
  <1> DEFINE op == worker[s].op
             n == [pc |-> "failed", op |-> op]
  <1>1. /\ LockOver(I) /\ UNCHANGED <<agreements, queue, http>>
        /\ worker[s].pc = "acquire" /\ WorkerBecomes(s, n)
    BY DEF AcquireFails, Before, WorkerBecomes
  <1>2. op \in OperationsOver(s, I)
    BY <1>1, WorkerIsUp
  <1>3. n \in WorkersOver(s, I) /\ n.pc = "failed" /\ n.op.entry = worker[s].op.entry
    BY <1>2, LooseWorkers
  <1> HIDE DEF n
  <1>4. ProcessSteps
    BY <1>1, <1>3, WorkerStep
  <1>5. table' = table \/ \E i \in DOMAIN table[s] : table[s][i].lock = "free" /\ SetLock(s, i, "leaked")
    BY DEF AcquireFails, EntryRows, Lookup
  <1>6. LeaksStay
    BY <1>1, <1>5, RowsRest, LockLeaks DEF Locks
  <1> QED
    BY <1>1, <1>4, <1>6, QueuesRest DEF StepsOn

LEMMA SendFailsEarlyStep ==
  ASSUME NEW I, Before(I), NEW s \in Roles, SendFailsEarly(s)
  PROVE  StepsOn
  <1> DEFINE n == [pc |-> "httpError", op |-> worker[s].op, neg |-> worker[s].neg, ack |-> NoAck]
  <1>1. /\ LockOver(I) /\ UNCHANGED <<table, queue, http>>
        /\ worker[s].pc = "send" /\ worker[s].pc \in Busy /\ WorkerBecomes(s, n)
    BY DEF SendFailsEarly, Before, store, WorkerBecomes, Busy
  <1>2. n \in WorkersOver(s, I) /\ n.pc = "httpError"
    BY <1>1, FailedWorker
  <1> HIDE DEF n
  <1>3. ProcessSteps
    BY <1>1, <1>2, WorkerStep
  <1> QED
    BY <1>1, <1>3, RowsRest, QueuesRest DEF StepsOn

LEMMA CommitStep ==
  ASSUME NEW I, Before(I), NEW s \in Roles, Commit(s)
  PROVE  StepsOn
  <1> DEFINE n == ApplyResponse(worker[s].neg, worker[s].ack)
  <1>1. /\ worker[s].pc = "answered" /\ WorkerBecomes(s, Idle)
        /\ UNCHANGED <<agreements, queue, http>>
        /\ n \in CopiesOver(s, I) /\ n.id \in DOMAIN table[s] /\ table[s][n.id].lock = "worker"
        /\ ForwardRow(table[s][n.id], n) /\ Put(s, n)
    BY CommitEffect
  <1> HIDE DEF n
  <1>2. LockOver(I)
    BY DEF Before
  <1>3. LeaksStay
    BY <1>1, <1>2, CopyWritten, LeaksRest DEF LockOver
  <1>4. Idle \in WorkersOver(s, I) /\ Idle.pc = "idle"
    BY IdleWorker DEF Idle
  <1>5. ProcessSteps
    BY <1>1, <1>2, <1>4, WorkerStep
  <1> QED
    BY <1>1, <1>3, <1>5, QueuesRest DEF StepsOn

LEMMA RequeueStep ==
  ASSUME NEW I, Before(I), NEW s \in Roles, Requeue(s)
  PROVE  StepsOn
  <1> DEFINE w == worker[s]
  <1>1. /\ LockOver(I) /\ UNCHANGED <<agreements, http>>
        /\ w.pc \in {"failed", "httpError"}
        /\ queue' = [queue EXCEPT ![s] = Append(@, w.op)] /\ WorkerBecomes(s, Idle)
    BY DEF Requeue, Before, WorkerBecomes
  <1>2. Idle \in WorkersOver(s, I) /\ Idle.pc = "idle"
    BY IdleWorker DEF Idle
  <1>3. ProcessSteps
    BY <1>1, <1>2, WorkerStep
  <1>4. DOMAIN queue = Roles
    BY <1>1 DEF LockOver, QueuesShape
  <1>5. \A x \in Roles : QueueSteps(x)
    BY <1>1, <1>4 DEF QueueSteps
  <1>6. CASE w.pc = "httpError"
    <2>1. w.pc \in Busy /\ SetLock(s, w.neg.id, "free")
      BY <1>6 DEF Busy, Requeue
    <2>2. w.neg.id \in DOMAIN table[s] /\ table[s][w.neg.id].lock = "worker" /\ "free" \in Locks
      BY <1>1, <2>1, BusyWorker DEF Locks
    <2> QED
      BY <1>1, <1>3, <1>5, <2>1, <2>2, LockLeaks DEF StepsOn
  <1>7. CASE w.pc # "httpError"
    <2>1. table' = table
      BY <1>7 DEF Requeue
    <2> QED
      BY <1>3, <1>5, <2>1, RowsRest DEF StepsOn
  <1> QED
    BY <1>6, <1>7

LEMMA GiveUpStep ==
  ASSUME NEW I, Before(I), NEW s \in Roles, GiveUp(s)
  PROVE  StepsOn
  <1> DEFINE n == [worker[s] EXCEPT !.pc = "terminate"]
  <1>1. /\ LockOver(I) /\ UNCHANGED <<table, queue, http>>
        /\ worker[s].pc = "failed" /\ WorkerBecomes(s, n)
    BY DEF GiveUp, Before, WorkerBecomes, store
  <1>2. worker[s] \in WorkersOver(s, I)
    BY <1>1 DEF LockOver, WorkersShape
  <1>3. n \in WorkersOver(s, I) /\ n.pc = "terminate" /\ n.op.entry = worker[s].op.entry
    BY <1>1, <1>2 DEF WorkersOver, Idle
  <1> HIDE DEF n
  <1>4. ProcessSteps
    BY <1>1, <1>3, WorkerStep
  <1> QED
    BY <1>1, <1>4, RowsRest, QueuesRest DEF StepsOn

LEMMA TerminateStep ==
  ASSUME NEW I, Before(I), NEW s \in Roles, Terminate(s)
  PROVE  StepsOn
  <1> DEFINE target == worker[s].op.entry.target
  <1>1. /\ worker[s].pc = "terminate" /\ WorkerBecomes(s, Idle) /\ LockOver(I)
        /\ UNCHANGED <<agreements, queue, http>>
    BY TerminateEffect DEF Before
  <1>2. PICK i \in DOMAIN table[s] :
          Free(s, i) /\ target \in States /\ RowBecomes(s, i, [table[s][i] EXCEPT !.state = target])
    BY TerminateEffect
  <1> DEFINE r == [table[s][i] EXCEPT !.state = target]
  <1>3. table[s][i] \in RowsOver(s, I) /\ table[s][i].lock = "free"
    BY <1>1, <1>2, RowShapes DEF LockOver, Free
  <1>4. r \in RowsOver(s, I)
    BY <1>2, <1>3 DEF RowsOver
  <1>5. RowBecomes(s, i, r)
    BY <1>2
  <1> HIDE DEF r
  <1>6. RowChange(s, i, "free")
    BY <1>1, <1>3, <1>4, <1>5, RowWritten DEF LockOver
  <1>7. Idle \in WorkersOver(s, I) /\ Idle.pc = "idle"
    BY IdleWorker DEF Idle
  <1>8. ProcessSteps
    BY <1>1, <1>7, WorkerStep
  <1> QED
    BY <1>1, <1>6, <1>8, LeaksRest, QueuesRest DEF StepsOn

LEMMA CrashStep ==
  ASSUME NEW I, Before(I), NEW s \in Roles, PanicHolding(s) \/ PanicTerminating(s) \/ Crash(s)
  PROVE  StepsOn
  <1>1. LockOver(I) /\ DOMAIN queue = Roles
    BY DEF Before, LockOver, QueuesShape
  <1>2. ASSUME NEW released, Die(s, released)
        PROVE  ProcessSteps /\ \A x \in Roles : QueueSteps(x)
    <2>1. queue' = [queue EXCEPT ![s] = <<>>]
      BY <1>2 DEF Die
    <2> QED
      BY <1>1, <1>2, <2>1, DieStep DEF QueueSteps
  <1>3. CASE PanicHolding(s)
    <2>1. Die(s, {worker[s].neg.id}) /\ worker[s].pc \in Busy
      BY <1>3 DEF PanicHolding, Busy
    <2>2. \A i \in DOMAIN table[s] : i \in {worker[s].neg.id} => table[s][i].lock # "leaked"
      BY <1>1, <2>1, BusyWorker
    <2> QED
      BY <1>1, <1>2, <2>1, <2>2, DieLeaks DEF StepsOn
  <1>4. CASE PanicTerminating(s) \/ Crash(s)
    <2>1. Die(s, {})
      BY <1>4 DEF PanicTerminating, Crash
    <2> QED
      BY <1>1, <1>2, <2>1, DieLeaks DEF StepsOn
  <1> QED
    BY <1>3, <1>4

\* The control plane.
LEMMA BeginStep ==
  ASSUME NEW I, LockInv, Before(I), Begin
  PROVE  StepsOn
  <1>1. PICK s \in Roles, o \in {"free", "leaked"} : \E n, entries : Begun(s, I, n, o, entries)
    BY BeginEffect
  <1>2. UNCHANGED <<http, worker>> /\ uuid = 1 /\ LockOver(I)
    BY <1>1 DEF Begun, Before
  <1>3. \A x \in Roles : DOMAIN table[x] = {}
    BY <1>2, NothingYet
  <1> QED
    BY <1>2, <1>3, ProcessesRest DEF StepsOn, QueueSteps, LeaksStay

LEMMA CallPutAgreementStep ==
  ASSUME NEW I, Before(I), NEW s \in Roles, CallPutAgreement(s)
  PROVE  StepsOn
  <1>1. /\ LockOver(I) /\ UNCHANGED <<table, worker, http>> /\ control[s].pc # "idle"
        /\ queue' = [queue EXCEPT ![s] = @ \o Operations(control[s].entries)]
    BY DEF CallPutAgreement, Before
  <1>2. \A x \in Roles : x # s => queue'[x] = queue[x]
    BY <1>1 DEF LockOver, QueuesShape
  <1>3. \A x \in Roles : QueueSteps(x)
    BY <1>1, <1>2 DEF QueueSteps
  <1> QED
    BY <1>1, <1>3, ProcessesRest, RowsRest DEF StepsOn

LEMMA OperateStep ==
  ASSUME NEW I, Before(I), calls \in Nat, NEW s \in Roles, Operate(s)
  PROVE  StepsOn
  <1>1. PICK i \in DOMAIN table[s] :
          \/ \E c \in ControlCalls :
               CallRefused(s, i, c) \/ \E auto \in CallAuto : Call(s, i, c, auto)
          \/ ContractTerminate(s, i)
    BY DEF Operate
  <1>2. LockOver(I) /\ UNCHANGED <<worker, http>> /\ calls' = calls + 1
    BY <1>1 DEF Before, CallRefused, Call, CallBegins, ContractTerminate
  <1>3. calls' # calls
    BY <1>2
  <1>4. ProcessSteps /\ \A x \in Roles : QueueSteps(x)
    BY <1>2, <1>3, ProcessesRest DEF QueueSteps
  <1>5. ASSUME NEW c \in ControlCalls, CallRefused(s, i, c)
        PROVE  LeaksStay
    <2>1. SetLock(s, i, "leaked") /\ agreements' = agreements /\ table[s][i].lock = "free"
      BY <1>5 DEF CallRefused, CallBegins, Free
    <2> QED
      BY <1>2, <2>1, LockLeaks DEF Locks
  <1>6. ASSUME NEW c \in ControlCalls, NEW auto \in CallAuto, Call(s, i, c, auto)
        PROVE  LeaksStay
    <2> DEFINE out == CallResult(s, i, c, auto)
    <2>1. IF out.neg.modified THEN Put(s, out.neg) ELSE UNCHANGED table
      BY <1>6 DEF Call, CallResult
    <2>2. /\ table[s][i].lock = "free" /\ out.neg \in CopiesOver(s, I)
          /\ out.neg.id = i /\ ForwardRow(table[s][i], out.neg)
      BY <1>6, CallEffect DEF Free
    <2>3. agreements' = agreements
      BY <1>6 DEF Call
    <2> HIDE DEF out
    <2>4. CASE out.neg.modified
      BY <1>2, <2>1, <2>2, <2>3, <2>4, CopyWritten, LeaksRest DEF LockOver
    <2>5. CASE ~out.neg.modified
      BY <2>1, <2>5, RowsRest
    <2> QED
      BY <2>4, <2>5
  <1>7. ContractTerminate(s, i) => LeaksStay
    BY RowsRest DEF ContractTerminate, store
  <1> QED
    BY <1>1, <1>4, <1>5, <1>6, <1>7 DEF StepsOn

LEMMA NextStepsOn ==
  ASSUME NEW I, LockInv, Before(I), calls \in Nat, Next
  PROVE  StepsOn
  <1>1. LockOver(I)
    BY DEF Before
  <1>2. UNCHANGED <<table, queue, http, worker>> => StepsOn
    BY <1>1, ProcessesRest, RowsRest, QueuesRest DEF StepsOn
  <1>3. ASSUME NEW s \in Roles, Reconcile(s)
        PROVE  StepsOn
    <2>1. CASE \E k \in Slots : SendHTTPRequest(s, k)
      <3>1. UNCHANGED <<table, queue>>
        BY <2>1 DEF SendHTTPRequest, store
      <3> QED
        BY <2>1, <3>1, SendHTTPRequestStep, RowsRest, QueuesRest DEF StepsOn
    <2> QED
      BY <1>3, <2>1, TakeStep, AcquireStep, AcquireFailsStep, SendFailsEarlyStep, CommitStep,
         RequeueStep, GiveUpStep, TerminateStep, CrashStep DEF Reconcile
  <1>4. ASSUME NEW s \in Roles, Poll(s) \/ Restart(s)
        PROVE  StepsOn
    BY <1>2, <1>4 DEF Poll, Restart, store
  <1>5. ASSUME NEW s \in Roles, ConnectionLost(s)
        PROVE  StepsOn
    <2>1. UNCHANGED <<table, queue>>
      BY <1>5 DEF ConnectionLost, store
    <2> QED
      BY <1>5, <2>1, ConnectionLostStep, RowsRest, QueuesRest DEF StepsOn
  <1> QED
    BY <1>3, <1>4, <1>5, BeginStep, CallPutAgreementStep, HandlersStep, OperateStep, CrashStep
       DEF Next, Progress

\* The request that a worker waits for is the one of its entry.
Asked ==
  \A s \in Roles :
    worker[s].pc = "wait" => http[Peer(s)][worker[s].slot].req = RequestOf(worker[s].op.entry)

LEMMA NextAsked ==
  ASSUME WithinBounds, LockInv, Asked, [Next]_vars
  PROVE  Asked'
  <1>1. CASE Next
    <2>1. PICK J : J = IDs'
      OBVIOUS
    <2>2. Before(J) /\ LockInv' /\ calls \in Nat
      BY <1>1, <2>1, NextIDs, NextLock, BoundsAssumption DEF WithinBounds
    <2>3. ProcessSteps
      BY <1>1, <2>2, NextStepsOn DEF StepsOn
    <2>4. ASSUME NEW s \in Roles, worker'[s].pc = "wait"
          PROVE  http'[Peer(s)][worker'[s].slot].req = RequestOf(worker'[s].op.entry)
      <3> DEFINE p == Peer(s)
                 k == worker'[s].slot
      <3>1. p \in Roles
        BY DEF Peer, Roles
      <3>2. worker'[s].op.entry = worker[s].op.entry /\ k \in Slots
        BY <2>3, <2>4 DEF ProcessSteps, WorkerSteps
      <3>3. http'[p][k].pc # "idle"
        <4>1. http'[p][k] # Idle
          BY <2>2, <2>4 DEF LockInv, LockOver, Waiting
        <4>2. HandlersShape(IDs)'
          BY <2>2 DEF LockInv, LockOver
        <4> QED
          BY <3>1, <3>2, <4>1, <4>2 DEF HandlersShape, HandlersOver
      <3>4. CASE worker[s].pc = "wait" /\ worker[s].slot = k
        <4>1. http[p][k] # Idle /\ HandlersShape(IDs)
          BY <3>4 DEF LockInv, LockOver, Waiting
        <4>2. http[p][k].pc # "idle"
          BY <3>1, <3>2, <4>1, SlotShapes
        <4>3. http'[p][k].req = http[p][k].req
          BY <2>3, <3>1, <3>2, <3>3, <4>2 DEF ProcessSteps, SlotSteps
        <4> QED
          BY <3>2, <3>4, <4>3 DEF Asked
      <3>5. CASE http'[p][k].req = RequestOf(worker[s].op.entry)
        BY <3>2, <3>5
      <3> QED
        BY <2>3, <2>4, <3>4, <3>5 DEF ProcessSteps, WorkerSteps
    <2> QED
      BY <2>4 DEF Asked
  <1>2. CASE UNCHANGED vars
    BY <1>2 DEF vars, Asked
  <1> QED
    BY <1>1, <1>2

LEMMA InitAsked ==
  ASSUME Init
  PROVE  Asked
  BY DEF Init, Asked, Idle

LEMMA AskedInvariant == Spec => []Asked
  BY InitAsked, NextAsked, BoundsInvariant, LockInvariant, PTL DEF Spec

-----------------------------------------------------------------------------
(* Who is bound first                                                      *)

\* The states that connector s stores when its peer has acknowledged them.
Leads(s) == IF s = "consumer" THEN {"ACCEPTED", "VERIFIED"} ELSE {"AGREED", "FINALIZED"}

\* The states that a negotiation can be in which has been in the given one.
Since ==
  [ ACCEPTED  |-> {"ACCEPTED", "AGREED", "VERIFIED", "FINALIZED", "TERMINATED"},
    AGREED    |-> {"AGREED", "VERIFIED", "FINALIZED", "TERMINATED"},
    VERIFIED  |-> {"VERIFIED", "FINALIZED", "TERMINATED"},
    FINALIZED |-> {"FINALIZED"} ]

\* The peer of connector s has reached the state t.  A provider's peer is the
\* row with the consumer's PID, as a consumer can have several.
Reached(s, t, cpid) ==
  LET p == Peer(s) IN
  \E j \in DOMAIN table[p] :
    table[p][j].state \in Since[t] /\ (s = "provider" => table[p][j].cpid = cpid)

RowsLed ==
  \A s \in Roles : \A i \in DOMAIN table[s] :
    LET r == table[s][i] IN r.state \in Leads(s) => Reached(s, r.state, r.cpid)

\* Whoever answers a message has stored the state that it names.
SlotReached(s, k) ==
  LET h == http[Peer(s)][k]
      t == TargetOf(h.req.msg)
  IN  h.pc \in {"stored", "apply"} /\ t \in Leads(s) => Reached(s, t, h.req.msg.cpid)

WorkerReached(s) ==
  LET e == worker[s].op.entry IN
  worker[s].pc = "answered" /\ e.target \in Leads(s) => Reached(s, e.target, e.msg.cpid)

AnswersReached == \A s \in Roles : WorkerReached(s) /\ \A k \in Slots : SlotReached(s, k)

\* The states that an entry which could not be delivered must not bring about.
Guarded(o, s) == Leads(s) \cup IF o = "consumer" /\ s = "consumer" THEN {"REQUESTED"} ELSE {}

\* Nobody moves row i of s to the target of the entry any more.
Spent(s, i, e) ==
  \/ table[s][i].lock = "leaked"
  \/ e.target \in Leads(s) /\ table[s][i].state \in Since[e.target] \cup {"TERMINATED"}

WorkerSpent(o, s) ==
  LET e == worker[s].op.entry IN
  worker[s].pc \in {"failed", "terminate"} /\ e.target \in Guarded(o, s) =>
    \A i \in EntryRows(s, e) : Spent(s, i, e)

WorkersSpent(o) == \A s \in Roles : WorkerSpent(o, s)

\* The rows that an entry of connector s finds.
ProviderDue(o, e) ==
  /\ o = "provider" /\ e.target = "OFFERED" => e.msg.cpid = emptyUUID
  /\ \A i \in DOMAIN table["provider"] :
       LET r == table["provider"][i] IN
       /\ e.msg.cpid \in {emptyUUID, r.cpid}
       /\ e.target = "FINALIZED" => r.state \in Since["VERIFIED"]

ConsumerDue(o, e) ==
  /\ e.target = "ACCEPTED" => o = "consumer"
  /\ o = "consumer" /\ e.target = "REQUESTED" => e.msg.ppid = emptyUUID
  /\ \A i \in DOMAIN table["consumer"] :
       LET r == table["consumer"][i] IN
       /\ e.target = "VERIFIED" /\ r.cpid = e.entityID => r.state \in Since["AGREED"]
       /\ e.target = "ACCEPTED" => r.state \in {"OFFERED"} \cup Since["ACCEPTED"] /\ r.ppid # emptyUUID
       /\ o = "consumer" /\ e.target = "REQUESTED" =>
            r.state \in {"INITIAL", "OFFERED"} /\ r.ppid = emptyUUID

Due(o, s, e) ==
  /\ e.target = TargetOf(e.msg) /\ e.target # "TERMINATED"
  /\ s = "provider" => ProviderDue(o, e)
  /\ s = "consumer" => ConsumerDue(o, e)

\* Nobody asks for a termination; a provider that began the negotiation offers
\* before it knows its consumer's PID.
FirstMessage(o, s, m) ==
  /\ m.type # "termination"
  /\ o = "provider" /\ s = "provider" /\ m.type = "offer" => m.cpid = emptyUUID

FlowsDue(o) ==
  \A s \in Roles :
    /\ \A e \in Held(s) : Due(o, s, e)
    /\ \A x \in Storing(s) : \A e \in Range(x.entries) : Due(o, s, e)
    /\ \A q \in Posted(s) : FirstMessage(o, s, q.msg)

ProviderMoved == \E i \in DOMAIN table["provider"] : table["provider"][i].state # "INITIAL"

\* While the consumer's row is INITIAL its first request is all it has under
\* way; afterwards that request is not acknowledged any more.
FirstRequest(o) ==
  o = "consumer" =>
    \A i \in DOMAIN table["consumer"] :
      IF table["consumer"][i].state = "INITIAL"
        THEN /\ queue["consumer"] = <<>> \/ (Len(queue["consumer"]) = 1 /\ worker["consumer"].pc = "idle")
             /\ \A k \in Slots : http["consumer"][k].pc \notin {"stored", "apply"}
        ELSE /\ ProviderMoved
             /\ LET w == worker["consumer"] IN
                w.pc # "idle" /\ w.op.entry.target = "REQUESTED" =>
                  /\ w.pc # "answered"
                  /\ w.pc = "wait" => http["provider"][w.slot].pc \notin {"stored", "apply"}

NoControl == \A s \in Roles : control[s].pc = "idle"

FirstBy(o) ==
  /\ NoControl /\ RowsLed /\ AnswersReached /\ WorkersSpent(o) /\ FlowsDue(o) /\ FirstRequest(o)

FirstInv ==
  calls = 0 /\ timeouts = 0 =>
    /\ \E o \in Roles : StartedBy(o) /\ PairsKnown(o) /\ FirstBy(o)
    /\ uuid = 1 => \A o \in Roles : FirstBy(o)

LEMMA SinceStays ==
  ASSUME NEW t \in {"ACCEPTED", "AGREED", "VERIFIED", "FINALIZED"}, NEW t0 \in Since[t], NEW t1,
         t1 \in {t0} \cup validTransitions[t0]
  PROVE  t1 \in Since[t]
  BY DEF Since, validTransitions

\* What has been led to, or is over, is not led to again.
LEMMA NotAgain ==
  ASSUME NEW t \in {"ACCEPTED", "AGREED", "VERIFIED", "FINALIZED"},
         NEW t0 \in Since[t] \cup {"TERMINATED"}
  PROVE  /\ t \notin validTransitions[t0] /\ t \in Since[t]
         /\ \A t1 : t1 \in {t0} \cup validTransitions[t0] => t1 \in Since[t] \cup {"TERMINATED"}
         /\ "INITIAL" \notin Since[t] /\ Since[t] \subseteq States
  BY DEF Since, validTransitions, States

LEMMA LeadsAre ==
  ASSUME NEW s \in Roles
  PROVE  /\ Leads(s) \subseteq {"ACCEPTED", "AGREED", "VERIFIED", "FINALIZED"}
         /\ Leads(s) \cap ReceivedBy(s) = {} /\ "INITIAL" \notin Leads(s)
  BY DEF Leads, ReceivedBy, Roles

\* No row goes back to INITIAL.
LEMMA NeverInitial ==
  ASSUME NEW t \in States
  PROVE  "INITIAL" \notin validTransitions[t]
  BY DEF States, validTransitions

\* A state that the peer has reached stays behind it.
LEMMA ReachedStays ==
  ASSUME NEW I, Before(I), Quiet \/ \E x \in Roles : Moves(x, I), AllForward,
         NEW s \in Roles, NEW t \in {"ACCEPTED", "AGREED", "VERIFIED", "FINALIZED"}, NEW cpid,
         Reached(s, t, cpid)
  PROVE  Reached(s, t, cpid)'
  <1> DEFINE p == Peer(s)
  <1>1. p \in Roles /\ (s = "provider" => p = "consumer") /\ DOMAIN table[p] \subseteq DOMAIN table'[p]
    <2>1. p \in Roles /\ (s = "provider" => p = "consumer")
      BY DEF Peer, Roles
    <2> QED
      BY <2>1, RowsStay
  <1>2. PICK j \in DOMAIN table[p] :
          table[p][j].state \in Since[t] /\ (s = "provider" => table[p][j].cpid = cpid)
    BY DEF Reached
  <1>3. ForwardRow(table[p][j], table'[p][j])
    BY <1>1 DEF AllForward
  <1>4. table'[p][j].state \in Since[t] /\ table[p][j].state # "INITIAL"
    BY <1>2, <1>3, SinceStays, NotAgain DEF ForwardRow
  <1>5. s = "provider" => table'[p][j].cpid = cpid
    <2>1. table[p][j] \in RowsOver(p, I)
      BY <1>1, RowShapes DEF Before, LockOver
    <2>2. p = "consumer" => table[p][j].cpid # emptyUUID
      BY <2>1 DEF RowsOver, CpidsOver
    <2> QED
      BY <1>1, <1>2, <1>3, <1>4, <2>2 DEF ForwardRow, KeepsPIDs
  <1> QED
    BY <1>1, <1>4, <1>5 DEF Reached

\* A step that neither begins the negotiation nor counts as a call or as a lock
\* timeout, with what is known of the state.
Beginning(I) == \E s \in Roles : \E n, r, entries : Begins(s, I, n, r, entries)
OnStep(I, o) ==
  /\ LockInv /\ Before(I) /\ AllForward /\ StepsOn /\ ~Beginning(I)
  /\ Quiet \/ \E s \in Roles : Moves(s, I)
  /\ StartedBy(o) /\ StartedBy(o)' /\ PairsKnown(o)
  /\ AgreedInv /\ RowsApart' /\ OffersRight /\ Asked
  /\ timeouts \in Nat /\ timeouts' = timeouts /\ calls \in Nat /\ calls' = calls

\* What a step can do to the rows.
LEMMA RowSteps ==
  ASSUME NEW I, NEW o \in Roles, OnStep(I, o)
  PROVE  \/ SameRows
         \/ \E s \in Roles : \/ \E k \in Slots : \E n : Created(s, k, I, n)
                             \/ \E k \in Slots : \E out : Stores(s, k, I, out)
                             \/ \E i, n : Completes(s, i, n)
  <1>1. CASE Quiet
    BY <1>1 DEF Quiet
  <1>2. ASSUME NEW s \in Roles, Moves(s, I)
        PROVE  \/ SameRows
               \/ \E k \in Slots : \E n : Created(s, k, I, n)
               \/ \E k \in Slots : \E out : Stores(s, k, I, out)
               \/ \E i, n : Completes(s, i, n)
    <2>1. calls' # calls + 1
      BY DEF OnStep
    <2>2. /\ \A k, i : Locked(s, k, i) => SameRows
          /\ \A i : Acquired(s, i) => SameRows
          /\ \A x : Agrees(s, x) => SameRows
          /\ \A i, e : Asks(s, i, e) => SameRows
      BY DEF Locked, Acquired, Agrees, Asks
    <2>3. \A i \in DOMAIN table[s] : \A n, out : ~Calls(s, i, I, n, out)
      BY <2>1 DEF Calls
    <2>4. \A n, r, entries : ~Begins(s, I, n, r, entries)
      BY DEF OnStep, Beginning
    <2> QED
      BY <1>2, <2>2, <2>3, <2>4, Zenon DEF Moves
  <1>3. Quiet \/ \E s \in Roles : Moves(s, I)
    BY DEF OnStep
  <1> QED
    BY <1>1, <1>2, <1>3

\* Where a row comes from.
RowStays(s, i) == i \in DOMAIN table[s] /\ SameColumns(table[s][i], table'[s][i])
RowIsNew(s, i, I) ==
  /\ i \notin DOMAIN table[s] /\ table'[s][i].state = "INITIAL" /\ OwnPID(s, table'[s][i]) = uuid
  /\ \E k \in Slots : \E n : Created(s, k, I, n)
RowReceives(s, i, I) ==
  /\ i \in DOMAIN table[s]
  /\ \E k \in Slots : \E out : Stores(s, k, I, out) /\ i = http[s][k].neg.id
RowSent(s, i) == i \in DOMAIN table[s] /\ \E n : Completes(s, i, n)

LEMMA RowComesFrom ==
  ASSUME NEW I, NEW o \in Roles, OnStep(I, o), NEW s \in Roles, NEW i \in DOMAIN table'[s]
  PROVE  RowStays(s, i) \/ RowIsNew(s, i, I) \/ RowReceives(s, i, I) \/ RowSent(s, i)
  <1>1. CASE SameRows
    BY <1>1 DEF SameRows, RowStays
  <1>2. ASSUME NEW x \in Roles, NEW k \in Slots, NEW n, Created(x, k, I, n)
        PROVE  RowStays(s, i) \/ RowIsNew(s, i, I)
    <2>1. /\ table' = [table EXCEPT ![x] = Append(@, ToModel(n))]
          /\ LocalPID(n) = uuid /\ n.role = x /\ n.state = "INITIAL"
      BY <1>2 DEF Created, Inserted
    <2>2. StoreShape(I)
      BY DEF OnStep, Before, LockOver
    <2>3. /\ \A y \in Roles : y # x => table'[y] = table[y]
          /\ Len(table[x]) \in Nat /\ DOMAIN table[x] = 1..Len(table[x])
          /\ DOMAIN table'[x] = 1..(Len(table[x]) + 1)
          /\ \A j \in DOMAIN table[x] : table'[x][j] = table[x][j]
          /\ table'[x][Len(table[x]) + 1] = ToModel(n)
      <3>1. table' = [table EXCEPT ![x] = Append(@, ToModel(n))]
        BY <2>1
      <3> HIDE <1>2
      <3> QED
        BY <2>2, <3>1, RowCreated
    <2>4. i \in DOMAIN table[s] => table'[s][i] = table[s][i]
      BY <2>3
    <2>5. i \notin DOMAIN table[s] => s = x /\ i = Len(table[x]) + 1
      BY <2>3
    <2>6. OwnPID(x, ToModel(n)) = uuid /\ ToModel(n).state = "INITIAL"
      BY <2>1 DEF OwnPID, ToModel, LocalPID, Roles
    <2> QED
      BY <1>2, <2>3, <2>4, <2>5, <2>6 DEF RowStays, RowIsNew, SameColumns
  <1>3. ASSUME NEW x \in Roles, NEW j, NEW n, Puts(x, j, n)
        PROVE  RowStays(s, i) \/ (s = x /\ i = j /\ i \in DOMAIN table[s])
    BY <1>3 DEF Puts, RowStays, SameColumns
  <1>4. ASSUME NEW x \in Roles, NEW k \in Slots, NEW out, Stores(x, k, I, out)
        PROVE  RowStays(s, i) \/ RowReceives(s, i, I)
    <2>1. Puts(x, http[x][k].neg.id, out.neg)
      BY <1>4 DEF Stores
    <2> QED
      BY <1>3, <1>4, <2>1 DEF RowReceives
  <1>5. ASSUME NEW x \in Roles, NEW j, NEW n, Completes(x, j, n)
        PROVE  RowStays(s, i) \/ RowSent(s, i)
    <2>1. Puts(x, j, n)
      BY <1>5 DEF Completes
    <2> QED
      BY <1>3, <1>5, <2>1 DEF RowSent
  <1> QED
    BY <1>1, <1>2, <1>4, <1>5, RowSteps

\* The PIDs of a row that was there.
LEMMA PIDsStay ==
  ASSUME NEW I, NEW o \in Roles, OnStep(I, o), NEW s \in Roles, NEW i \in DOMAIN table'[s]
  PROVE  /\ i \in DOMAIN table[s] =>
              /\ table[s][i].ppid # emptyUUID => table'[s][i].ppid # emptyUUID
              /\ table[s][i].cpid # emptyUUID => table'[s][i].cpid = table[s][i].cpid
              /\ ForwardRow(table[s][i], table'[s][i])
         /\ \/ i \in DOMAIN table[s] /\ OwnPID(s, table'[s][i]) = OwnPID(s, table[s][i])
            \/ OwnPID(s, table'[s][i]) = uuid
  <1>1. i \in DOMAIN table[s] => ForwardRow(table[s][i], table'[s][i])
    BY DEF OnStep, AllForward
  <1>2. CASE RowStays(s, i)
    BY <1>1, <1>2 DEF RowStays, SameColumns, OwnPID
  <1>3. CASE RowIsNew(s, i, I)
    BY <1>3 DEF RowIsNew
  <1>4. ASSUME NEW n, Puts(s, i, n)
        PROVE  /\ table[s][i].ppid # emptyUUID => table'[s][i].ppid # emptyUUID
               /\ table[s][i].cpid # emptyUUID => table'[s][i].cpid = table[s][i].cpid
               /\ OwnPID(s, table'[s][i]) \in {OwnPID(s, table[s][i]), uuid}
    BY <1>4 DEF Puts, KeptPIDs, SameColumns, OwnPID
  <1>5. CASE RowReceives(s, i, I)
    BY <1>1, <1>4, <1>5, Zenon DEF RowReceives, Stores
  <1>6. CASE RowSent(s, i)
    BY <1>1, <1>4, <1>6 DEF RowSent, Completes
  <1> QED
    BY <1>2, <1>3, <1>5, <1>6, RowComesFrom

\* The entries that connector s is to send, or sends.
UnderWay(s) == Held(s) \cup UNION {Range(x.entries) : x \in Storing(s)}

LEMMA WayFacts ==
  ASSUME NEW I, NEW o \in Roles, OnStep(I, o), FlowsDue(o), NEW s \in Roles, NEW e \in UnderWay(s)
  PROVE  /\ e \in EntriesOver(s, I) /\ e.entityID # uuid /\ KnownEntry(o, s, e)
         /\ AgreedWhereDue(s, e) /\ Due(o, s, e)
         /\ s = Peer(o) => Settled(s, e.msg.ppid, e.msg.cpid)
         /\ e.msg.type \in TypesFrom(s) /\ e.msg.event \in EventsFrom(s) /\ e.target \in States
  <1>1. LockOver(I) /\ LockInv
    BY DEF OnStep, Before
  <1>2. e \in EntriesOver(s, I)
    BY <1>1, FlowShapes DEF UnderWay
  <1>3. e.entityID # uuid
    BY <1>1, UuidIsFresh DEF UnderWay
  <1>4. KnownEntry(o, s, e)
    BY DEF UnderWay, OnStep, StartedBy, FlowsKnow
  <1>5. AgreedWhereDue(s, e)
    BY DEF UnderWay, OnStep, AgreedInv, FlowsAgreed, ToStoreAgreed
  <1>6. Due(o, s, e)
    BY DEF UnderWay, FlowsDue
  <1>7. s = Peer(o) => Settled(s, e.msg.ppid, e.msg.cpid)
    BY DEF UnderWay, OnStep, PairsKnown, FlowsSettled
  <1>8. e.msg.type \in TypesFrom(s) /\ e.msg.event \in EventsFrom(s) /\ e.target \in States
    BY <1>2 DEF EntriesOver, MessagesOver
  <1> QED
    BY <1>2, <1>3, <1>4, <1>5, <1>6, <1>7, <1>8

\* A worker's entry is under way, and it does not bring about what cannot be.
LEMMA WorkersWay ==
  ASSUME NEW s \in Roles, worker[s].pc # "idle"
  PROVE  worker[s].op.entry \in Held(s) /\ worker[s].op.entry \in UnderWay(s)
  BY DEF UnderWay, Held, AtWorker

\* A worker that completes stores its entry's target, and unanswered only what
\* is not guarded.
LEMMA SentAims ==
  ASSUME NEW I, NEW o \in Roles, OnStep(I, o), FirstBy(o), NEW s \in Roles, NEW i, NEW n,
         Completes(s, i, n)
  PROVE  LET e == worker[s].op.entry IN
         /\ i \in DOMAIN table[s] /\ SameColumns(n, table'[s][i]) /\ e \in UnderWay(s)
         /\ table'[s][i].state = e.target
         /\ e.target \in validTransitions[table[s][i].state]
         /\ worker[s].pc = "answered" \/ e.target \notin Guarded(o, s)
         /\ worker[s].pc \in {"answered", "terminate"}
  <1> DEFINE e == worker[s].op.entry
  <1>1. /\ i \in DOMAIN table[s] /\ SameColumns(n, table'[s][i]) /\ n.state = e.target
        /\ worker[s].pc \in {"answered", "terminate"}
        /\ worker[s].pc = "answered" => i = worker[s].neg.id
        /\ worker[s].pc = "terminate" => i \in EntryRows(s, e) /\ Free(s, i)
    BY DEF Completes, Puts
  <1>2. table'[s][i].state = e.target /\ e \in UnderWay(s)
    BY <1>1, WorkersWay DEF SameColumns
  <1>3. e.target \in validTransitions[table[s][i].state]
    BY <1>1 DEF Completes
  <1>4. ASSUME worker[s].pc = "terminate", e.target \in Guarded(o, s)
        PROVE  FALSE
    <2>1. Spent(s, i, e)
      BY <1>1, <1>4 DEF FirstBy, WorkersSpent, WorkerSpent
    <2>2. table[s][i].lock # "leaked"
      BY <1>1, <1>4 DEF Free
    <2>3. e.target \in Leads(s) /\ table[s][i].state \in Since[e.target] \cup {"TERMINATED"}
      BY <2>1, <2>2 DEF Spent
    <2> QED
      BY <1>3, <2>3, LeadsAre, NotAgain
  <1> QED
    BY <1>1, <1>2, <1>3, <1>4

\* The peer has reached the state after the step.
WillReach(s, t, cpid) ==
  LET p == Peer(s) IN
  \E j \in DOMAIN table'[p] :
    table'[p][j].state \in Since[t] /\ (s = "provider" => table'[p][j].cpid = cpid)

LEMMA ReachedOn ==
  ASSUME NEW I, NEW o \in Roles, OnStep(I, o), NEW s \in Roles, NEW t \in Leads(s), NEW cpid,
         Reached(s, t, cpid)
  PROVE  WillReach(s, t, cpid) /\ (s = "provider" => cpid # emptyUUID)
  <1>1. t \in {"ACCEPTED", "AGREED", "VERIFIED", "FINALIZED"}
    BY LeadsAre
  <1>2. Before(I) /\ (Quiet \/ \E x \in Roles : Moves(x, I)) /\ AllForward
    BY DEF OnStep
  <1>3. WillReach(s, t, cpid)
    <2>1. Reached(s, t, cpid)'
      BY <1>1, <1>2, ReachedStays
    <2> QED
      BY <2>1 DEF Reached, WillReach
  <1>4. ASSUME s = "provider"
        PROVE  cpid # emptyUUID
    <2>1. PICK j \in DOMAIN table["consumer"] : table["consumer"][j].cpid = cpid
      BY <1>4 DEF Reached, Peer
    <2>2. table["consumer"][j] \in RowsOver("consumer", I)
      BY <1>2, <2>1, RowShapes DEF Before, LockOver, Roles
    <2> QED
      BY <2>1, <2>2 DEF RowsOver, CpidsOver
  <1> QED
    BY <1>3, <1>4

\* Nobody leads alone: a worker stores what its peer has stored.
LEMMA RowsLedOn ==
  ASSUME NEW I, NEW o \in Roles, OnStep(I, o), FirstBy(o)
  PROVE  RowsLed'
  <1> SUFFICES ASSUME NEW s \in Roles, NEW i \in DOMAIN table'[s], table'[s][i].state \in Leads(s)
               PROVE  WillReach(s, table'[s][i].state, table'[s][i].cpid)
    BY DEF RowsLed, Reached, WillReach
  <1> DEFINE r == table[s][i]
             r1 == table'[s][i]
             t == r1.state
  <1>1. t \in Leads(s) /\ LockOver(I) /\ Before(I)
    BY DEF OnStep, Before
  <1> HIDE DEF t
  <1>2. ASSUME RowStays(s, i)
        PROVE  WillReach(s, t, r1.cpid)
    <2>1. i \in DOMAIN table[s] /\ r.state = t /\ r1.cpid = r.cpid
      BY <1>2 DEF RowStays, SameColumns, t
    <2>2. Reached(s, t, r.cpid)
      BY <1>1, <2>1 DEF FirstBy, RowsLed
    <2>3. WillReach(s, t, r.cpid)
      BY <1>1, <2>2, ReachedOn
    <2> QED
      BY <2>1, <2>3
  <1>3. ~RowIsNew(s, i, I)
    BY <1>1, LeadsAre DEF RowIsNew, t
  <1>4. ASSUME NEW k \in Slots, NEW out, Stores(s, k, I, out), i = http[s][k].neg.id
        PROVE  FALSE
    <2>1. /\ \E x \in CopiesOver(s, I \cup {uuid}) :
                Received(s, I \cup {uuid}, http[s][k].neg, http[s][k].req.msg, x) /\ SameButAgreement(x, out.neg)
      BY <1>1, <1>4, StoreData
    <2>2. out.neg.state \in ReceivedBy(s)
      BY <2>1 DEF Received, SameButAgreement
    <2>3. t = out.neg.state
      BY <1>4, Zenon DEF Stores, Puts, SameColumns, t
    <2> QED
      BY <1>1, <2>2, <2>3, LeadsAre, SMTT(30)
  <1>5. ASSUME NEW n, Completes(s, i, n)
        PROVE  WillReach(s, t, r1.cpid)
    <2> DEFINE e == worker[s].op.entry
    <2>1. /\ i \in DOMAIN table[s] /\ e \in UnderWay(s) /\ t = e.target
          /\ worker[s].pc = "answered"
      BY <1>1, <1>5, SentAims DEF Guarded, t
    <2>2. Reached(s, t, e.msg.cpid)
      BY <1>1, <2>1 DEF FirstBy, AnswersReached, WorkerReached
    <2>3. WillReach(s, t, e.msg.cpid) /\ (s = "provider" => e.msg.cpid # emptyUUID)
      BY <1>1, <2>2, ReachedOn
    <2>4. s = "provider" => e.msg.cpid = r.cpid
      <3>1. Due(o, s, e)
        BY <2>1, WayFacts DEF FirstBy
      <3> QED
        BY <2>1, <2>3, <3>1 DEF Due, ProviderDue
    <2>5. s = "provider" => r1.cpid = e.msg.cpid
      BY <2>1, <2>3, <2>4, PIDsStay
    <2> QED
      BY <2>3, <2>5 DEF WillReach
  <1> QED
    BY <1>2, <1>3, <1>4, <1>5, RowComesFrom DEF RowReceives, RowSent, t

LEMMA SlotReachedOn ==
  ASSUME NEW I, NEW o \in Roles, OnStep(I, o), FirstBy(o), NEW s \in Roles, NEW k \in Slots
  PROVE  SlotReached(s, k)'
  <1> DEFINE p == Peer(s)
             h == http[p][k]
             h1 == http'[p][k]
             t == TargetOf(h1.req.msg)
  <1>1. p \in Roles /\ s = Peer(p) /\ LockOver(I) /\ Before(I) /\ SlotSteps(p, k)
    BY DEF OnStep, Before, Peer, Roles, StepsOn, ProcessSteps
  <1> SUFFICES ASSUME h1.pc \in {"stored", "apply"}, t \in Leads(s)
               PROVE  WillReach(s, t, h1.req.msg.cpid)
    BY DEF SlotReached, Reached, WillReach
  <1>2. h1.req = h.req /\ h.pc # "idle" /\ (h.pc \in {"stored", "apply"} \/ HandlerStore(p, k))
    BY <1>1 DEF SlotSteps
  <1> DEFINE m == h.req.msg
  <1>3. h1.req.msg = m /\ t = TargetOf(m)
    BY <1>2
  <1> HIDE DEF t, m
  <1>4. CASE h.pc \in {"stored", "apply"}
    <2>1. SlotReached(s, k)
      BY DEF FirstBy, AnswersReached
    <2>2. Reached(s, t, m.cpid)
      BY <1>3, <1>4, <2>1 DEF SlotReached, m
    <2>3. WillReach(s, t, m.cpid)
      BY <2>2, ReachedOn
    <2> QED
      BY <1>3, <2>3
  <1>5. CASE HandlerStore(p, k)
    <2>1. PICK out : Stores(p, k, I, out)
      BY <1>1, <1>5, HandlerStoreMoves
    <2> DEFINE n == h.neg
    <2>2. /\ n.id \in DOMAIN table[p] /\ m \in MessagesOver(s, I)
          /\ \E r \in CopiesOver(p, I \cup {uuid}) :
               /\ RecvAs(n, m, r) /\ SameButAgreement(r, out.neg)
               /\ n.state = "INITIAL" => m.type = IF p = "provider" THEN "request" ELSE "offer"
      BY <1>1, <2>1, StoreData DEF m
    <2>3. PICK r : /\ RecvAs(n, m, r) /\ SameButAgreement(r, out.neg)
                   /\ n.state = "INITIAL" => m.type = IF p = "provider" THEN "request" ELSE "offer"
      BY <2>2
    <2>4. n.state # "INITIAL"
      <3>1. m.type \in TypesFrom(s) /\ m.event \in EventsFrom(s)
        BY <2>2 DEF MessagesOver
      <3>2. n.state = "INITIAL" => t \in {"REQUESTED", "OFFERED"}
        BY <1>3, <2>3, <3>1, TypeOfTarget
      <3> QED
        BY <3>2, LeadsAre
    <2>5. /\ table'[p][n.id].state = t /\ table'[p][n.id].cpid = m.cpid
          /\ n.id \in DOMAIN table'[p]
      <3>1. Puts(p, n.id, out.neg)
        BY <2>1 DEF Stores
      <3> QED
        BY <1>1, <1>3, <2>3, <2>4, <3>1, Zenon DEF Puts, SameColumns, RecvAs, SameButAgreement
    <2>6. t \in Since[t]
      BY LeadsAre, NotAgain DEF Since
    <2> QED
      BY <1>3, <2>5, <2>6 DEF WillReach
  <1> QED
    BY <1>2, <1>4, <1>5

LEMMA AnswersReachedOn ==
  ASSUME NEW I, NEW o \in Roles, OnStep(I, o), FirstBy(o)
  PROVE  AnswersReached'
  <1>1. ASSUME NEW s \in Roles
        PROVE  WorkerReached(s)'
    <2> DEFINE p == Peer(s)
               w == worker[s]
               w1 == worker'[s]
               e == w.op.entry
    <2>1. LockOver(I) /\ WorkerSteps(s) /\ p \in Roles
      BY DEF OnStep, Before, StepsOn, ProcessSteps, Peer, Roles
    <2> SUFFICES ASSUME w1.pc = "answered", w1.op.entry.target \in Leads(s)
                 PROVE  WillReach(s, w1.op.entry.target, w1.op.entry.msg.cpid)
      BY DEF WorkerReached, Reached, WillReach
    <2>2. w1.op.entry = e /\ (w.pc = "answered" \/ (w.pc = "wait" /\ http[p][w.slot].pc = "apply"))
      BY <2>1 DEF WorkerSteps
    <2> HIDE DEF e
    <2>3. Reached(s, e.target, e.msg.cpid)
      <3>1. CASE w.pc = "answered"
        BY <2>2, <3>1 DEF FirstBy, AnswersReached, WorkerReached, e
      <3>2. CASE w.pc = "wait" /\ http[p][w.slot].pc = "apply"
        <4>1. w.slot \in Slots /\ http[p][w.slot].req = RequestOf(e)
          BY <2>1, <3>2, WorkerShapes DEF OnStep, Asked, LockOver, e
        <4>2. e \in UnderWay(s)
          BY <3>2, WorkersWay DEF e
        <4>3. e.target = TargetOf(e.msg)
          BY <4>2, WayFacts DEF FirstBy, Due
        <4>4. SlotReached(s, w.slot)
          BY <4>1 DEF FirstBy, AnswersReached
        <4> QED
          BY <2>2, <3>2, <4>1, <4>3, <4>4 DEF SlotReached, RequestOf
      <3> QED
        BY <2>2, <3>1, <3>2
    <2>4. WillReach(s, e.target, e.msg.cpid)
      BY <2>2, <2>3, ReachedOn
    <2> QED
      BY <2>2, <2>4
  <1> QED
    BY <1>1, SlotReachedOn DEF AnswersReached

LEMMA RowOfEntry ==
  ASSUME NEW s \in Roles, NEW e
  PROVE  EntryRows(s, e) =
           {i \in DOMAIN table[s] : e.entityID # emptyUUID /\ OwnPID(s, table[s][i]) = e.entityID}
  BY DEF EntryRows, Lookup, Matches, OwnPID, Roles

\* A row that an entry cannot be delivered for although it is free has been
\* moved on, and a lock that is never to be had is one that was left behind.
LEMMA FreeIsSpent ==
  ASSUME NEW I, NEW o \in Roles, OnStep(I, o), FirstBy(o), NEW s \in Roles, NEW e \in UnderWay(s),
         e.target \in Guarded(o, s), NEW i \in EntryRows(s, e), ~CanSetState(table[s][i], e.target)
  PROVE  e.target \in Leads(s) /\ table[s][i].state \in Since[e.target] \cup {"TERMINATED"}
  <1> DEFINE r == table[s][i]
             t == e.target
  <1>1. i \in DOMAIN table[s] /\ OwnPID(s, r) = e.entityID
    BY RowOfEntry
  <1>2. r.state \in States /\ t \notin validTransitions[r.state]
    BY <1>1, RowShapes DEF OnStep, Before, LockOver, CanSetState
  <1>3. AgreedWhereDue(s, e) /\ Due(o, s, e)
    BY WayFacts DEF FirstBy
  <1>4. CASE s = "provider"
    <2>1. t \in {"AGREED", "FINALIZED"} /\ t \in Leads(s)
      BY <1>4 DEF Guarded, Leads
    <2>2. CASE t = "AGREED"
      <3>1. r.agreement # emptyUUID
        BY <1>1, <1>3, <2>2 DEF AgreedWhereDue, Bound
      <3>2. r.state \notin {"INITIAL", "OFFERED"}
        BY <1>1, <1>4, <3>1 DEF OnStep, OffersRight, ProviderRows, Unagreed
      <3> QED
        BY <1>2, <2>1, <2>2, <3>2 DEF States, validTransitions, Since
    <2>3. CASE t = "FINALIZED"
      <3>1. r.state \in Since["VERIFIED"]
        BY <1>1, <1>3, <1>4, <2>3 DEF Due, ProviderDue
      <3> QED
        BY <1>2, <2>1, <2>3, <3>1 DEF validTransitions, Since
    <2> QED
      BY <2>1, <2>2, <2>3
  <1>5. CASE s = "consumer"
    <2>1. t \in {"ACCEPTED", "VERIFIED"} \/ (o = "consumer" /\ t = "REQUESTED")
      BY <1>5 DEF Guarded, Leads
    <2>2. CASE t = "VERIFIED"
      <3>1. r.state \in Since["AGREED"]
        BY <1>1, <1>3, <1>5, <2>2 DEF Due, ConsumerDue, OwnPID
      <3> QED
        BY <1>2, <1>5, <2>2, <3>1 DEF validTransitions, Since, Leads
    <2>3. CASE t = "ACCEPTED"
      <3>1. r.state \in {"OFFERED"} \cup Since["ACCEPTED"]
        BY <1>1, <1>3, <1>5, <2>3 DEF Due, ConsumerDue
      <3> QED
        BY <1>2, <1>5, <2>3, <3>1 DEF validTransitions, Since, Leads
    <2>4. CASE o = "consumer" /\ t = "REQUESTED"
      <3>1. r.state \in {"INITIAL", "OFFERED"}
        BY <1>1, <1>3, <1>5, <2>4 DEF Due, ConsumerDue
      <3> QED
        BY <1>2, <2>4, <3>1 DEF validTransitions
    <2> QED
      BY <2>1, <2>2, <2>3, <2>4
  <1> QED
    BY <1>4, <1>5 DEF Roles

LEMMA FailureSpends ==
  ASSUME NEW I, NEW o \in Roles, OnStep(I, o), FirstBy(o), NEW s \in Roles, AcquireFails(s),
         worker[s].op.entry.target \in Guarded(o, s), NEW i \in EntryRows(s, worker[s].op.entry)
  PROVE  LET e == worker[s].op.entry IN
         \/ table'[s][i].lock = "leaked"
         \/ e.target \in Leads(s) /\ table[s][i].state \in Since[e.target] \cup {"TERMINATED"}
  <1> DEFINE e == worker[s].op.entry
             rows == EntryRows(s, e)
  <1>1. worker[s].pc = "acquire" /\ e \in UnderWay(s)
    BY WorkersWay DEF AcquireFails
  <1>2. PICK j \in rows : \/ LockTimeout(s, j)
                          \/ Free(s, j) /\ ~CanUpdate(s, j, e)
                          \/ SetLock(s, j, "leaked")
    BY DEF AcquireFails
  <1>3. i = j /\ i \in DOMAIN table[s]
    BY RowOfEntry DEF OnStep, AgreedInv, RowsApart
  <1>4. CASE LockTimeout(s, i)
    <2>1. Stuck(s, i)
      BY <1>4 DEF LockTimeout, OnStep
    <2>2. WaitsFor(s) = {}
      BY <1>1 DEF WaitsFor
    <2>3. table[s][i].lock = "leaked"
      BY <2>1, <2>2 DEF Stuck
    <2> QED
      BY <1>3, <2>3 DEF OnStep, StepsOn, LeaksStay
  <1>5. CASE Free(s, i) /\ ~CanUpdate(s, i, e)
    BY <1>1, <1>5, FreeIsSpent DEF CanUpdate
  <1>6. CASE SetLock(s, i, "leaked")
    <2>1. StoreShape(I)
      BY DEF OnStep, Before, LockOver
    <2> QED
      BY <1>3, <1>6, <2>1, RowShapes DEF SetLock, StoreShape, RowsOver
  <1> QED
    BY <1>2, <1>3, <1>4, <1>5, <1>6

\* A worker that could not deliver its entry does not find its row free in a
\* state that the entry moves on from.
LEMMA WorkersSpentOn ==
  ASSUME NEW I, NEW o \in Roles, OnStep(I, o), FirstBy(o)
  PROVE  WorkersSpent(o)'
  <1> SUFFICES ASSUME NEW s \in Roles, worker'[s].pc \in {"failed", "terminate"},
                      worker'[s].op.entry.target \in Guarded(o, s),
                      NEW i \in EntryRows(s, worker[s].op.entry)'
               PROVE  Spent(s, i, worker[s].op.entry)'
    BY DEF WorkersSpent, WorkerSpent, Guarded
  <1> DEFINE e == worker[s].op.entry
  <1>1. /\ worker'[s].op.entry = e /\ worker[s].pc # "idle"
        /\ worker[s].pc \in {"failed", "terminate"} \/ AcquireFails(s)
    BY DEF OnStep, StepsOn, ProcessSteps, WorkerSteps, AcquireFails
  <1> DEFINE t == e.target
  <1>2. e \in UnderWay(s) /\ t \in Guarded(o, s)
    BY <1>1, WorkersWay
  <1>3. /\ i \in DOMAIN table'[s] /\ e.entityID # emptyUUID
        /\ OwnPID(s, table'[s][i]) = e.entityID
    BY <1>1 DEF EntryRows, Lookup, Matches, OwnPID, Roles
  <1>4. e.entityID # uuid
    BY <1>2, WayFacts DEF FirstBy
  <1> HIDE DEF t
  <1>5. i \in DOMAIN table[s] /\ i \in EntryRows(s, e) /\ ForwardRow(table[s][i], table'[s][i])
    <2>1. i \in DOMAIN table[s] /\ OwnPID(s, table'[s][i]) = OwnPID(s, table[s][i])
      BY <1>3, <1>4, PIDsStay
    <2> QED
      BY <1>3, <2>1, PIDsStay, RowOfEntry
  <1>6. \/ table'[s][i].lock = "leaked"
        \/ t \in Leads(s) /\ table[s][i].state \in Since[t] \cup {"TERMINATED"}
    <2>1. CASE worker[s].pc \in {"failed", "terminate"}
      <3>1. Spent(s, i, e)
        BY <1>2, <1>5, <2>1 DEF FirstBy, WorkersSpent, WorkerSpent, t
      <3> QED
        BY <1>5, <3>1 DEF Spent, OnStep, StepsOn, LeaksStay, t
    <2>2. CASE AcquireFails(s)
      BY <1>2, <1>5, <2>2, FailureSpends DEF t
    <2> QED
      BY <1>1, <2>1, <2>2
  <1>7. \/ table'[s][i].lock = "leaked"
        \/ t \in Leads(s) /\ table'[s][i].state \in Since[t] \cup {"TERMINATED"}
    BY <1>5, <1>6, LeadsAre, NotAgain DEF ForwardRow
  <1> QED
    BY <1>1, <1>7 DEF Spent, Leads, t

\* A request without a PID comes to the peer of the connector that began.
LEMMA CreatedAtPeer ==
  ASSUME NEW o \in Roles, StartedBy(o), NEW s \in Roles, NEW k \in Slots, NEW n, NEW I, Created(s, k, I, n)
  PROVE  s = Peer(o)
  <1> DEFINE q == http[s][k].req
  <1>1. Peer(s) \in Roles /\ Peer(Peer(s)) = s /\ q.pid = emptyUUID /\ http[s][k].pc # "idle"
    BY DEF Peer, Roles, Created
  <1>2. q \in Posted(Peer(s))
    BY <1>1 DEF Posted
  <1> HIDE DEF q
  <1>3. KnownEntry(o, Peer(s), q)
    BY <1>1, <1>2 DEF StartedBy, FlowsKnow
  <1> QED
    BY <1>1, <1>3 DEF KnownEntry, Knows, emptyUUID, Peer, Roles

LEMMA NoneBegunAnew ==
  ASSUME NEW I, NEW o \in Roles, OnStep(I, o), NEW i \in DOMAIN table'[o]
  PROVE  i \in DOMAIN table[o]
  <1>1. ~RowIsNew(o, i, I)
    BY CreatedAtPeer DEF RowIsNew, OnStep, Peer, Roles
  <1> QED
    BY <1>1, RowComesFrom DEF RowStays, RowReceives, RowSent

\* The provider makes no second negotiation.
LEMMA NoneMadeAnew ==
  ASSUME NEW I, NEW o \in Roles, OnStep(I, o), FlowsDue(o), NEW e \in UnderWay("provider"),
         NEW i \in DOMAIN table'["provider"]
  PROVE  i \in DOMAIN table["provider"]
  <1>1. CASE o = "provider"
    BY <1>1, NoneBegunAnew
  <1>2. CASE o = "consumer"
    <2>1. Settled("provider", e.msg.ppid, e.msg.cpid)
      BY <1>2, WayFacts DEF Peer, Roles
    <2>2. PICK j \in DOMAIN table["provider"] : TRUE
      BY <2>1 DEF Settled
    <2>3. i = 1 /\ j = 1
      BY DEF OnStep, StartedBy
    <2> QED
      BY <2>2, <2>3
  <1> QED
    BY <1>1, <1>2 DEF Roles

LEMMA ProviderDueOn ==
  ASSUME NEW I, NEW o \in Roles, OnStep(I, o), FirstBy(o), NEW e \in UnderWay("provider")
  PROVE  /\ o = "provider" /\ e.target = "OFFERED" => e.msg.cpid = emptyUUID
         /\ \A i \in DOMAIN table'["provider"] :
              /\ e.msg.cpid \in {emptyUUID, table'["provider"][i].cpid}
              /\ e.target = "FINALIZED" => table'["provider"][i].state \in Since["VERIFIED"]
  <1>1. ProviderDue(o, e)
    BY WayFacts DEF FirstBy, Due, Roles
  <1>2. ASSUME NEW i \in DOMAIN table'["provider"]
        PROVE  /\ e.msg.cpid \in {emptyUUID, table'["provider"][i].cpid}
               /\ e.target = "FINALIZED" => table'["provider"][i].state \in Since["VERIFIED"]
    <2> DEFINE r == table["provider"][i]
               r1 == table'["provider"][i]
    <2>1. i \in DOMAIN table["provider"]
      BY NoneMadeAnew DEF FirstBy
    <2>2. e.msg.cpid \in {emptyUUID, r.cpid} /\ (e.target = "FINALIZED" => r.state \in Since["VERIFIED"])
      BY <1>1, <2>1 DEF ProviderDue
    <2>3. r.cpid # emptyUUID => r1.cpid = r.cpid
      BY <2>1, PIDsStay DEF Roles
    <2>4. r1.state \in {r.state} \cup validTransitions[r.state]
      BY <2>1, PIDsStay DEF Roles, ForwardRow
    <2> QED
      BY <2>2, <2>3, <2>4, SinceStays
  <1> QED
    BY <1>1, <1>2 DEF ProviderDue

\* What the consumer's row becomes that waits to be requested.
LEMMA RequestableReceives ==
  ASSUME NEW I, NEW o \in Roles, o = "consumer", OnStep(I, o), FlowsDue(o), NEW k \in Slots, NEW out,
         Stores("consumer", k, I, out), NEW i, i = http["consumer"][k].neg.id,
         table["consumer"][i].state \in {"INITIAL", "OFFERED"}, table["consumer"][i].ppid = emptyUUID
  PROVE  table'["consumer"][i].state = "OFFERED" /\ table'["consumer"][i].ppid = emptyUUID
  <1> DEFINE n == http["consumer"][k].neg
             m == http["consumer"][k].req.msg
  <1>1. LockOver(I) /\ Before(I) /\ "consumer" \in Roles /\ Peer("consumer") = "provider" /\ "provider" \in Roles
    BY DEF OnStep, Before, Peer, Roles
  <1>2. /\ n.state = table["consumer"][i].state /\ n.ppid = emptyUUID
        /\ m \in MessagesOver("provider", I) /\ http["consumer"][k].req \in Posted("provider")
        /\ n.state \in States
        /\ \E r : /\ Received("consumer", I \cup {uuid}, n, m, r) /\ RecvAs(n, m, r)
                  /\ SameButAgreement(r, out.neg)
                  /\ n.state = "INITIAL" => m.type = "offer" /\ r.ppid = n.ppid
    <2>1. /\ n.state = table["consumer"][n.id].state /\ n.ppid = table["consumer"][n.id].ppid
          /\ m \in MessagesOver(Peer("consumer"), I) /\ http["consumer"][k].req \in Posted(Peer("consumer"))
          /\ n.state \in States
      BY <1>1, StoreData, Zenon
    <2>2. \E r \in CopiesOver("consumer", I \cup {uuid}) :
            /\ Received("consumer", I \cup {uuid}, n, m, r) /\ RecvAs(n, m, r)
            /\ SameButAgreement(r, out.neg)
            /\ n.state = "INITIAL" => m.type = "offer" /\ r.ppid = n.ppid
      BY <1>1, StoreData, SMTT(60)
    <2> QED
      BY <1>1, <2>1, <2>2, Zenon
  <1>3. PICK r : /\ Received("consumer", I \cup {uuid}, n, m, r) /\ RecvAs(n, m, r)
                 /\ SameButAgreement(r, out.neg)
                 /\ n.state = "INITIAL" => m.type = "offer" /\ r.ppid = n.ppid
    BY <1>2
  <1>4. Puts("consumer", i, out.neg)
    BY DEF Stores
  <1>5. table'["consumer"][i].state = r.state /\ table'["consumer"][i].ppid = r.ppid
    BY <1>3, <1>4, Zenon DEF Puts, SameColumns, SameButAgreement
  <1>6. FirstMessage(o, "provider", m)
    BY <1>1, <1>2 DEF FlowsDue
  <1>7. m.type \in TypesFrom("provider") /\ m.event \in EventsFrom("provider")
    BY <1>2 DEF MessagesOver
  <1>8. r.state \in validTransitions[n.state] /\ r.state \in ReceivedBy("consumer") /\ r.state = TargetOf(m)
    BY <1>3 DEF Received, RecvAs
  <1> HIDE DEF n, m
  <1>9. n.state = "INITIAL"
    <2>1. n.state = "OFFERED" => r.state = "TERMINATED"
      BY <1>8 DEF validTransitions, ReceivedBy
    <2>2. TargetOf(m) # "TERMINATED"
      BY <1>1, <1>6, <1>7, TypeOfTarget DEF FirstMessage
    <2> QED
      BY <1>2, <1>8, <2>1, <2>2
  <1>10. r.state = "OFFERED"
    BY <1>1, <1>3, <1>7, <1>8, <1>9, TypeOfTarget
  <1> QED
    BY <1>2, <1>3, <1>5, <1>9, <1>10

\* A consumer that began the negotiation has nothing else under way when its
\* first request is acknowledged.
LEMMA RequestableSent ==
  ASSUME NEW I, NEW o \in Roles, o = "consumer", OnStep(I, o), FirstBy(o), NEW i, NEW n,
         Completes("consumer", i, n),
         table["consumer"][i].state \in {"INITIAL", "OFFERED"}, table["consumer"][i].ppid = emptyUUID
  PROVE  UnderWay("consumer")' = {}
  <1> DEFINE w == worker["consumer"]
             e == w.op.entry
             r == table["consumer"][i]
  <1>1. /\ i \in DOMAIN table["consumer"] /\ e \in UnderWay("consumer")
        /\ e.target \in validTransitions[r.state]
        /\ w.pc = "answered" \/ e.target \notin Guarded(o, "consumer")
        /\ w.pc \in {"answered", "terminate"}
    BY SentAims DEF Roles
  <1>2. Due(o, "consumer", e) /\ e.msg.type \in TypesFrom("consumer") /\ e.msg.event \in EventsFrom("consumer")
    BY <1>1, WayFacts DEF FirstBy, Roles
  <1>3. e.target # "ACCEPTED"
    BY <1>1, <1>2 DEF Due, ConsumerDue
  <1>4. e.target = "REQUESTED"
    <2>1. e.target = TargetOf(e.msg) /\ e.target # "TERMINATED"
      BY <1>2 DEF Due
    <2>2. e.target # "OFFERED"
      BY <1>2, <2>1, TypeOfTarget DEF Roles, TypesFrom
    <2> QED
      BY <1>1, <1>3, <2>1, <2>2 DEF validTransitions
  <1>5. w.pc = "answered"
    BY <1>1, <1>4 DEF Guarded
  <1>6. /\ r.state = "INITIAL" /\ queue["consumer"] = <<>>
        /\ \A k \in Slots : http["consumer"][k].pc \notin {"stored", "apply"}
    BY <1>1, <1>4, <1>5 DEF FirstBy, FirstRequest
  <1>7. worker'["consumer"] = Idle /\ UNCHANGED <<queue, http>> /\ Flows
    BY DEF Completes
  <1>8. Held("consumer")' = {}
    <2>1. InQueue("consumer")' = {}
      BY <1>6, <1>7 DEF InQueue
    <2>2. AtWorker("consumer")' = {}
      BY <1>7 DEF AtWorker, Idle
    <2>3. ToApply("consumer")' = {}
      BY <1>6, <1>7 DEF ToApply
    <2> QED
      BY <2>1, <2>2, <2>3 DEF Held
  <1>9. Storing("consumer")' = {}
    <2>1. InStore("consumer") = {}
      BY <1>6 DEF InStore
    <2>2. AtControl("consumer") = {}
      BY DEF AtControl, FirstBy, NoControl, Roles
    <2>3. Storing("consumer")' \subseteq Storing("consumer")
      BY <1>7 DEF Flows, Grows, Roles
    <2> QED
      BY <2>1, <2>2, <2>3 DEF Storing
  <1> QED
    BY <1>8, <1>9 DEF UnderWay

LEMMA ConsumerDueOn ==
  ASSUME NEW I, NEW o \in Roles, OnStep(I, o), FirstBy(o), NEW e \in UnderWay("consumer"),
         UnderWay("consumer")' # {}
  PROVE  /\ e.target = "ACCEPTED" => o = "consumer"
         /\ o = "consumer" /\ e.target = "REQUESTED" => e.msg.ppid = emptyUUID
         /\ \A i \in DOMAIN table'["consumer"] :
              LET r == table'["consumer"][i] IN
              /\ e.target = "VERIFIED" /\ r.cpid = e.entityID => r.state \in Since["AGREED"]
              /\ e.target = "ACCEPTED" => r.state \in {"OFFERED"} \cup Since["ACCEPTED"] /\ r.ppid # emptyUUID
              /\ o = "consumer" /\ e.target = "REQUESTED" =>
                   r.state \in {"INITIAL", "OFFERED"} /\ r.ppid = emptyUUID
  <1>1. ConsumerDue(o, e) /\ e.entityID # uuid
    BY WayFacts DEF FirstBy, Due, Roles
  <1>2. ASSUME NEW i \in DOMAIN table'["consumer"], e.target = "VERIFIED",
               table'["consumer"][i].cpid = e.entityID
        PROVE  table'["consumer"][i].state \in Since["AGREED"]
    <2>1. i \in DOMAIN table["consumer"] /\ table["consumer"][i].cpid = e.entityID
      BY <1>1, <1>2, PIDsStay DEF Roles, OwnPID
    <2>2. table["consumer"][i].state \in Since["AGREED"]
      BY <1>1, <1>2, <2>1 DEF ConsumerDue
    <2> QED
      BY <2>1, <2>2, SinceStays, PIDsStay DEF Roles, ForwardRow
  <1>3. ASSUME NEW i \in DOMAIN table'["consumer"], o = "consumer", e.target \in {"ACCEPTED", "REQUESTED"}
        PROVE  LET r == table'["consumer"][i] IN
               /\ e.target = "ACCEPTED" => r.state \in {"OFFERED"} \cup Since["ACCEPTED"] /\ r.ppid # emptyUUID
               /\ e.target = "REQUESTED" => r.state \in {"INITIAL", "OFFERED"} /\ r.ppid = emptyUUID
    <2> DEFINE r == table["consumer"][i]
               r1 == table'["consumer"][i]
    <2>1. i \in DOMAIN table["consumer"]
      BY <1>3, NoneBegunAnew
    <2>2. /\ e.target = "ACCEPTED" => r.state \in {"OFFERED"} \cup Since["ACCEPTED"] /\ r.ppid # emptyUUID
          /\ e.target = "REQUESTED" => r.state \in {"INITIAL", "OFFERED"} /\ r.ppid = emptyUUID
      BY <1>1, <1>3, <2>1 DEF ConsumerDue
    <2>3. /\ r1.state \in {r.state} \cup validTransitions[r.state]
          /\ r.ppid # emptyUUID => r1.ppid # emptyUUID
      BY <2>1, PIDsStay DEF Roles, ForwardRow
    <2>4. ASSUME RowStays("consumer", i)
          PROVE  r1.state = r.state /\ r1.ppid = r.ppid
      BY <2>4 DEF RowStays, SameColumns
    <2>5. CASE e.target = "ACCEPTED"
      <3>1. r.state \in Since["ACCEPTED"] => r1.state \in Since["ACCEPTED"]
        BY <2>3, SinceStays
      <3>2. ASSUME r.state = "OFFERED"
            PROVE  r1.state \in {"OFFERED"} \cup Since["ACCEPTED"]
        <4>1. ASSUME NEW k \in Slots, NEW out, Stores("consumer", k, I, out), i = http["consumer"][k].neg.id
              PROVE  r1.state # "REQUESTED"
          <5>1. \E x : Received("consumer", I \cup {uuid}, http["consumer"][k].neg, http["consumer"][k].req.msg, x) /\ SameButAgreement(x, out.neg)
            BY <4>1, StoreData, Zenon DEF OnStep, Roles
          <5>2. out.neg.state \in ReceivedBy("consumer")
            BY <5>1 DEF Received, SameButAgreement
          <5>3. r1.state = out.neg.state
            BY <4>1, Zenon DEF Stores, Puts, SameColumns
          <5> QED
            BY <5>2, <5>3 DEF ReceivedBy
        <4>2. ASSUME NEW n, Completes("consumer", i, n)
              PROVE  r1.state # "REQUESTED"
          <5> DEFINE e2 == worker["consumer"].op.entry
          <5>1. e2 \in UnderWay("consumer") /\ r1.state = e2.target
            BY <4>2, SentAims DEF Roles
          <5>2. ConsumerDue(o, e2)
            BY <5>1, WayFacts DEF FirstBy, Due, Roles
          <5> QED
            BY <1>3, <2>1, <2>2, <2>5, <5>1, <5>2 DEF ConsumerDue
        <4>3. RowStays("consumer", i) \/ RowReceives("consumer", i, I) \/ RowSent("consumer", i)
          BY <2>1, RowComesFrom DEF Roles, RowIsNew
        <4>4. r1.state # "REQUESTED"
          BY <2>4, <3>2, <4>1, <4>2, <4>3 DEF RowReceives, RowSent
        <4> QED
          BY <2>3, <3>2, <4>4 DEF validTransitions, Since
      <3> QED
        BY <2>2, <2>3, <2>5, <3>1, <3>2
    <2>6. CASE e.target = "REQUESTED"
      <3>1. RowStays("consumer", i) \/ RowReceives("consumer", i, I) \/ RowSent("consumer", i)
        BY <2>1, RowComesFrom DEF Roles, RowIsNew
      <3>2. r.state \in {"INITIAL", "OFFERED"} /\ r.ppid = emptyUUID
        BY <2>2, <2>6
      <3>3. RowReceives("consumer", i, I) => r1.state = "OFFERED" /\ r1.ppid = emptyUUID
        BY <1>3, <3>2, RequestableReceives DEF RowReceives, FirstBy
      <3>4. ~RowSent("consumer", i)
        BY <1>3, <3>2, RequestableSent DEF RowSent
      <3> QED
        BY <2>4, <2>6, <3>1, <3>2, <3>3, <3>4
    <2> QED
      BY <1>3, <2>5, <2>6
  <1> QED
    BY <1>1, <1>2, <1>3 DEF ConsumerDue

LEMMA DueStays ==
  ASSUME NEW I, NEW o \in Roles, OnStep(I, o), FirstBy(o), NEW s \in Roles, NEW e \in UnderWay(s),
         UnderWay(s)' # {}
  PROVE  Due(o, s, e)'
  <1>1. e.target = TargetOf(e.msg) /\ e.target # "TERMINATED"
    BY WayFacts DEF FirstBy, Due
  <1>2. s = "provider" => ProviderDue(o, e)'
    BY ProviderDueOn DEF ProviderDue
  <1>3. s = "consumer" => ConsumerDue(o, e)'
    BY ConsumerDueOn, SMTT(30) DEF ConsumerDue
  <1> QED
    BY <1>1, <1>2, <1>3 DEF Due

\* What a handler answers with: where it comes from.
StoredEntry(s, n, m, r, e, I) ==
  /\ r.state \in validTransitions[n.state] /\ r.state \in ReceivedBy(s) /\ r.state = TargetOf(m)
  /\ r.state \in States /\ (s = "consumer" => r.cpid # emptyUUID)
  /\ IF n.state = "INITIAL"
       THEN r.initial /\ r.cpid = n.cpid /\ (s = "consumer" => r.ppid = n.ppid)
       ELSE ~r.initial /\ m.ppid = r.ppid /\ m.cpid = r.cpid
  /\ e.target \in validTransitions[r.state] /\ SentAs(r, e) /\ e.target = TargetOf(e.msg)
  /\ e.msg.type \in TypesFrom(s) /\ e.msg.event \in EventsFrom(s)
  /\ e.msg.ppid = r.ppid /\ e.msg.cpid = r.cpid /\ e.entityID = OwnPID(s, r)

LEMMA StoredEntryData ==
  ASSUME NEW I, Before(I), NEW s \in Roles, NEW k \in Slots, NEW out, Stores(s, k, I, out),
         NEW e \in Range(out.entries)
  PROVE  LET n == http[s][k].neg
             m == http[s][k].req.msg
             r1 == table'[s][n.id]
         IN  /\ n.id \in DOMAIN table[s] /\ n.state = table[s][n.id].state
             /\ n.ppid = table[s][n.id].ppid /\ n.cpid = table[s][n.id].cpid
             /\ http[s][k].req \in Posted(Peer(s))
             /\ m.type \in TypesFrom(Peer(s)) /\ m.event \in EventsFrom(Peer(s))
             /\ \E r : /\ StoredEntry(s, n, m, r, e, I)
                       /\ r1.state = r.state /\ r1.ppid = r.ppid /\ r1.cpid = r.cpid
  <1> DEFINE n == http[s][k].neg
             m == http[s][k].req.msg
  <1>1. /\ n.id \in DOMAIN table[s] /\ n.state = table[s][n.id].state
        /\ n.ppid = table[s][n.id].ppid /\ n.cpid = table[s][n.id].cpid
        /\ m \in MessagesOver(Peer(s), I) /\ http[s][k].req \in Posted(Peer(s))
    BY StoreData
  <1>2. m.type \in TypesFrom(Peer(s)) /\ m.event \in EventsFrom(Peer(s))
    BY <1>1 DEF MessagesOver
  <1>3. PICK r \in CopiesOver(s, I \cup {uuid}) :
          /\ Received(s, I \cup {uuid}, n, m, r) /\ RecvAs(n, m, r)
          /\ IF n.state = "INITIAL"
               THEN /\ r.initial /\ r.cpid = n.cpid
                    /\ r.ppid = IF s = "provider" THEN uuid ELSE n.ppid
               ELSE ~r.initial
          /\ SameButAgreement(r, out.neg) /\ Sent(s, r, uuid, out)
    BY StoreData
  <1>4. EntryOf(s, out.neg, e) /\ e.target \in validTransitions[r.state] /\ SentAs(r, e)
    BY <1>3 DEF Sent, Range
  <1>5. /\ e.target = TargetOf(e.msg) /\ e.msg.type \in TypesFrom(s) /\ e.msg.event \in EventsFrom(s)
        /\ e.msg.ppid = r.ppid /\ e.msg.cpid = r.cpid
    BY <1>3, <1>4 DEF EntryOf, EntriesOver, MessagesOver, SameButAgreement
  <1>6. out.neg.role = s /\ Puts(s, n.id, out.neg)
    BY DEF Stores, StoredBy, CopiesOver
  <1>7. e.entityID = OwnPID(s, r)
    BY <1>3, <1>4, <1>6 DEF EntryOf, LocalPID, OwnPID, SameButAgreement
  <1>8. /\ table'[s][n.id].state = r.state /\ table'[s][n.id].ppid = r.ppid
        /\ table'[s][n.id].cpid = r.cpid
    BY <1>3, <1>6, Zenon DEF Puts, SameColumns, SameButAgreement
  <1>9. /\ r.state \in validTransitions[n.state] /\ r.state \in ReceivedBy(s) /\ r.state = TargetOf(m)
        /\ r.state \in States /\ (s = "consumer" => r.cpid # emptyUUID)
        /\ n.state # "INITIAL" => m.ppid = r.ppid /\ m.cpid = r.cpid
    BY <1>3 DEF Received, RecvAs, CopiesOver, CpidsOver
  <1>10. StoredEntry(s, n, m, r, e, I)
    <2> HIDE DEF n, m
    <2>1. IF n.state = "INITIAL"
            THEN r.initial /\ r.cpid = n.cpid /\ (s = "consumer" => r.ppid = n.ppid)
            ELSE ~r.initial /\ m.ppid = r.ppid /\ m.cpid = r.cpid
      BY <1>3, <1>9
    <2> QED
      BY <1>4, <1>5, <1>7, <1>9, <2>1 DEF StoredEntry
  <1> QED
    BY <1>1, <1>2, <1>8, <1>10

\* What an entry that a handler has made is from.
LEMMA StoredEntryFrom ==
  ASSUME NEW s \in Roles, NEW n, NEW m, NEW r, NEW e, NEW I, StoredEntry(s, n, m, r, e, I)
  PROVE  /\ e.target \notin {"TERMINATED", "INITIAL"}
         /\ e.target = "REQUESTED" => s = "consumer" /\ r.state = "OFFERED" /\ r.initial
         /\ e.target = "OFFERED" => s = "provider" /\ r.initial
         /\ e.target = "ACCEPTED" => s = "consumer" /\ r.state = "OFFERED" /\ ~r.initial
         /\ e.target = "VERIFIED" => s = "consumer" /\ r.state = "AGREED"
         /\ e.target = "FINALIZED" => s = "provider" /\ r.state = "VERIFIED"
         /\ r.initial => n.state = "INITIAL"
  <1>1. /\ e.target = "REQUESTED" => s = "consumer" /\ r.state \in {"INITIAL", "OFFERED"}
        /\ e.target = "OFFERED" => s = "provider" /\ r.state \in {"INITIAL", "REQUESTED"}
        /\ e.target = "ACCEPTED" => s = "consumer" /\ r.state = "OFFERED"
        /\ e.target = "VERIFIED" => s = "consumer" /\ r.state = "AGREED"
        /\ e.target = "FINALIZED" => s = "provider" /\ r.state = "VERIFIED"
        /\ e.target \in {"REQUESTED", "OFFERED", "ACCEPTED", "AGREED", "VERIFIED", "FINALIZED"}
        /\ r.state = "REQUESTED" => e.target = IF r.initial THEN "OFFERED" ELSE "AGREED"
        /\ r.state = "OFFERED" => e.target = IF r.initial THEN "REQUESTED" ELSE "ACCEPTED"
    BY SendsTo DEF StoredEntry
  <1>2. r.state # "INITIAL" /\ (r.initial => n.state = "INITIAL")
    BY DEF StoredEntry, ReceivedBy
  <1> QED
    BY <1>1, <1>2

\* A consumer that began the negotiation has one row, the one of PID 1.
LEMMA OneConsumerRow ==
  ASSUME NEW I, NEW o \in Roles, OnStep(I, o), o = "consumer"
  PROVE  /\ \A i, j \in DOMAIN table["consumer"] : i = j
         /\ \A i, j \in DOMAIN table'["consumer"] : i = j
  <1>1. /\ \A i \in DOMAIN table["consumer"] : OwnPID("consumer", table["consumer"][i]) = 1
        /\ \A i \in DOMAIN table'["consumer"] : OwnPID("consumer", table'["consumer"][i]) = 1
    BY DEF OnStep, StartedBy, RowsKnow, Knows, OwnPID, Roles
  <1>2. /\ \A i, j \in DOMAIN table["consumer"] :
             OwnPID("consumer", table["consumer"][i]) = OwnPID("consumer", table["consumer"][j]) => i = j
        /\ \A i, j \in DOMAIN table'["consumer"] :
             OwnPID("consumer", table'["consumer"][i]) = OwnPID("consumer", table'["consumer"][j]) => i = j
    BY DEF OnStep, AgreedInv, RowsApart, Roles
  <1> QED
    BY <1>1, <1>2

\* The entry that a handler makes finds its row as it should be.
LEMMA ProviderAnswersDue ==
  ASSUME NEW I, NEW o \in Roles, OnStep(I, o), FirstBy(o), NEW k \in Slots, NEW out,
         Stores("provider", k, I, out), NEW e \in Range(out.entries)
  PROVE  ProviderDue(o, e)'
  <1> DEFINE n == http["provider"][k].neg
             m == http["provider"][k].req.msg
             r1 == table'["provider"][n.id]
  <1>1. Before(I) /\ "provider" \in Roles
    BY DEF OnStep, Roles
  <1>2. /\ n.id \in DOMAIN table["provider"] /\ n.state = table["provider"][n.id].state
        /\ n.cpid = table["provider"][n.id].cpid
    BY <1>1, StoredEntryData
  <1>3. PICK r : /\ StoredEntry("provider", n, m, r, e, I)
                 /\ r1.state = r.state /\ r1.cpid = r.cpid
    BY <1>1, StoredEntryData, SMTT(30)
  <1>4. \A i \in DOMAIN table'["provider"] : i = n.id
    BY <1>1, <1>2 DEF Stores, Puts, OnStep, StartedBy
  <1> HIDE DEF n, m
  <1>5. /\ e.target = "OFFERED" => r.initial
        /\ e.target = "FINALIZED" => r.state = "VERIFIED"
        /\ r.initial => n.state = "INITIAL"
    BY <1>1, <1>3, StoredEntryFrom
  <1>6. e.msg.cpid = r.cpid /\ (n.state = "INITIAL" => r.cpid = n.cpid)
    BY <1>3 DEF StoredEntry
  <1>7. o = "provider" /\ e.target = "OFFERED" => e.msg.cpid = emptyUUID
    <2>1. o = "provider" /\ n.state = "INITIAL" => n.cpid = emptyUUID
      BY <1>2 DEF OnStep, PairsKnown, RowsPaired, RowPaired, RemotePIDOf
    <2> QED
      BY <1>5, <1>6, <2>1
  <1>8. "VERIFIED" \in Since["VERIFIED"]
    BY DEF Since
  <1> QED
    BY <1>3, <1>4, <1>5, <1>6, <1>7, <1>8 DEF ProviderDue

LEMMA ConsumerAnswersDue ==
  ASSUME NEW I, NEW o \in Roles, OnStep(I, o), FirstBy(o), NEW k \in Slots, NEW out,
         Stores("consumer", k, I, out), NEW e \in Range(out.entries)
  PROVE  ConsumerDue(o, e)'
  <1> DEFINE n == http["consumer"][k].neg
             m == http["consumer"][k].req.msg
             q == http["consumer"][k].req
             r1 == table'["consumer"][n.id]
  <1>1. /\ Before(I) /\ "consumer" \in Roles /\ "provider" \in Roles
        /\ Peer("consumer") = "provider"
    BY DEF OnStep, Roles, Peer
  <1>2. /\ n.id \in DOMAIN table["consumer"] /\ n.state = table["consumer"][n.id].state
        /\ n.ppid = table["consumer"][n.id].ppid /\ q \in Posted("provider")
        /\ m.type \in TypesFrom("provider") /\ m.event \in EventsFrom("provider") /\ m = q.msg
    BY <1>1, StoredEntryData
  <1>3. PICK r : /\ StoredEntry("consumer", n, m, r, e, I)
                 /\ r1.state = r.state /\ r1.ppid = r.ppid /\ r1.cpid = r.cpid
    BY <1>1, StoredEntryData, SMTT(30)
  <1>4. n.id \in DOMAIN table'["consumer"]
    BY <1>1, <1>2 DEF Stores, Puts
  <1>5. o = "consumer" => \A i \in DOMAIN table'["consumer"] : i = n.id
    BY <1>4, OneConsumerRow
  <1>6. \A i \in DOMAIN table'["consumer"] : table'["consumer"][i].cpid = r.cpid => i = n.id
    BY <1>1, <1>3, <1>4 DEF OnStep, RowsApart, OwnPID
  <1>7. \A x \in Posted("provider") :
          /\ FirstMessage(o, "provider", x.msg)
          /\ o = "consumer" => Settled("provider", x.msg.ppid, x.msg.cpid)
    BY <1>1 DEF FirstBy, FlowsDue, OnStep, PairsKnown, FlowsSettled
  <1> HIDE DEF n, m, q
  <1>8. /\ e.target = "REQUESTED" => r.state = "OFFERED" /\ r.initial
        /\ e.target = "ACCEPTED" => r.state = "OFFERED" /\ ~r.initial
        /\ e.target = "VERIFIED" => r.state = "AGREED"
        /\ r.initial => n.state = "INITIAL"
    BY <1>1, <1>3, StoredEntryFrom
  <1>9. /\ e.msg.ppid = r.ppid /\ e.msg.cpid = r.cpid /\ r.state = TargetOf(m) /\ r.cpid # emptyUUID
        /\ IF n.state = "INITIAL"
             THEN r.initial /\ r.ppid = n.ppid
             ELSE ~r.initial /\ m.ppid = r.ppid /\ m.cpid = r.cpid
        /\ e.entityID = r.cpid
    BY <1>3 DEF StoredEntry, OwnPID
  <1>10. ASSUME e.target = "ACCEPTED"
         PROVE  o = "consumer" /\ r.ppid # emptyUUID
    <2>1. /\ n.state # "INITIAL" /\ m.ppid = r.ppid /\ m.cpid = r.cpid
          /\ TargetOf(m) = "OFFERED"
      BY <1>8, <1>9, <1>10
    <2>2. m.type = "offer"
      BY <1>1, <1>2, <2>1, TypeOfTarget
    <2>3. o # "provider"
      BY <1>1, <1>2, <1>7, <1>9, <2>1, <2>2 DEF FirstMessage
    <2>4. o = "consumer"
      BY <2>3 DEF Roles
    <2>5. PICK j \in DOMAIN table["provider"] : table["provider"][j].ppid = m.ppid
      BY <1>2, <1>7, <2>4 DEF Settled
    <2>6. table["provider"][j].ppid # emptyUUID
      BY <1>1, RowShapes DEF Before, LockOver, RowsOver, PpidsOver
    <2> QED
      BY <2>1, <2>4, <2>5, <2>6
  <1>11. ASSUME e.target = "REQUESTED", o = "consumer"
         PROVE  r.ppid = emptyUUID
    <2>1. n.state = "INITIAL" /\ r.ppid = n.ppid
      BY <1>8, <1>9, <1>11
    <2>2. n.ppid = emptyUUID
      BY <1>2, <1>11, <2>1 DEF OnStep, PairsKnown, RowsPaired, RowPaired, RemotePIDOf
    <2> QED
      BY <2>1, <2>2
  <1>12. "AGREED" \in Since["AGREED"]
    BY DEF Since
  <1>13. ASSUME NEW i \in DOMAIN table'["consumer"]
         PROVE  LET x == table'["consumer"][i] IN
                /\ e.target = "VERIFIED" /\ x.cpid = e.entityID => x.state \in Since["AGREED"]
                /\ e.target = "ACCEPTED" => x.state \in {"OFFERED"} \cup Since["ACCEPTED"] /\ x.ppid # emptyUUID
                /\ o = "consumer" /\ e.target = "REQUESTED" =>
                     x.state \in {"INITIAL", "OFFERED"} /\ x.ppid = emptyUUID
    <2>1. e.target = "VERIFIED" /\ table'["consumer"][i].cpid = e.entityID =>
            table'["consumer"][i].state \in Since["AGREED"]
      BY <1>3, <1>6, <1>8, <1>9, <1>12, <1>13
    <2>2. e.target = "ACCEPTED" =>
            table'["consumer"][i].state \in {"OFFERED"} \cup Since["ACCEPTED"] /\ table'["consumer"][i].ppid # emptyUUID
      BY <1>3, <1>5, <1>8, <1>10, <1>13
    <2>3. o = "consumer" /\ e.target = "REQUESTED" =>
            table'["consumer"][i].state \in {"INITIAL", "OFFERED"} /\ table'["consumer"][i].ppid = emptyUUID
      BY <1>3, <1>5, <1>8, <1>11, <1>13
    <2> QED
      BY <2>1, <2>2, <2>3
  <1>14. o = "consumer" /\ e.target = "REQUESTED" => e.msg.ppid = emptyUUID
    BY <1>9, <1>11
  <1> QED
    BY <1>10, <1>13, <1>14 DEF ConsumerDue

LEMMA AnswersDue ==
  ASSUME NEW I, NEW o \in Roles, OnStep(I, o), FirstBy(o), NEW s \in Roles, NEW k \in Slots, NEW out,
         Stores(s, k, I, out), NEW e \in Range(out.entries)
  PROVE  Due(o, s, e)'
  <1>1. s = "provider" => ProviderDue(o, e)'
    BY ProviderAnswersDue
  <1>2. s = "consumer" => ConsumerDue(o, e)'
    BY ConsumerAnswersDue
  <1>3. e.target = TargetOf(e.msg) /\ e.target # "TERMINATED"
    <2>1. \E n, m, r : StoredEntry(s, n, m, r, e, I)
      BY StoredEntryData DEF OnStep
    <2> QED
      BY <2>1, StoredEntryFrom DEF StoredEntry
  <1> QED
    BY <1>1, <1>2, <1>3 DEF Due

\* What is sent is a first message if its entry finds its row as it should be.
LEMMA FirstFromDue ==
  ASSUME NEW I, NEW o \in Roles, OnStep(I, o), FirstBy(o), NEW s \in Roles, NEW e \in Held(s)
  PROVE  FirstMessage(o, s, e.msg)
  <1>1. /\ Due(o, s, e) /\ e.msg.type \in TypesFrom(s) /\ e.msg.event \in EventsFrom(s)
    BY WayFacts DEF FirstBy, UnderWay
  <1>2. e.target = TargetOf(e.msg) /\ e.target # "TERMINATED"
    BY <1>1 DEF Due
  <1>3. e.msg.type # "termination"
    BY <1>1, <1>2, TypeOfTarget
  <1>4. s = "provider" /\ e.msg.type = "offer" => e.target = "OFFERED"
    BY <1>1, <1>2, TypeOfTarget
  <1> QED
    BY <1>1, <1>3, <1>4 DEF FirstMessage, Due, ProviderDue

LEMMA FlowsStillDue ==
  ASSUME NEW I, NEW o \in Roles, OnStep(I, o), FirstBy(o), NEW s \in Roles, NEW H, NEW S,
         Grows(s, H, S),
         UnderWay(s)' # {} =>
           /\ \A e \in H : Due(o, s, e)'
           /\ \A x \in S : \A e \in Range(x.entries) : Due(o, s, e)'
  PROVE  FlowsDue(o)'
  <1>1. ASSUME NEW x \in Roles, NEW e \in Held(x)'
        PROVE  Due(o, x, e)'
    <2>1. UnderWay(x)' # {}
      BY <1>1 DEF UnderWay
    <2>2. e \in Held(x) \/ (x = s /\ e \in H)
      BY <1>1 DEF Grows
    <2> QED
      BY <2>1, <2>2, DueStays DEF UnderWay
  <1>2. ASSUME NEW x \in Roles, NEW y \in Storing(x)', NEW e \in Range(y.entries)
        PROVE  Due(o, x, e)'
    <2>1. UnderWay(x)' # {}
      BY <1>2 DEF UnderWay
    <2>2. y \in Storing(x) \/ (x = s /\ y \in S)
      BY <1>2 DEF Grows
    <2>3. y \in Storing(x) => e \in UnderWay(x)
      BY <1>2 DEF UnderWay
    <2> QED
      BY <1>2, <2>1, <2>2, <2>3, DueStays
  <1>3. ASSUME NEW x \in Roles, NEW q \in Posted(x)'
        PROVE  FirstMessage(o, x, q.msg)
    <2>1. q \in Posted(x) \/ \E e \in Held(x) : q = RequestOf(e)
      BY <1>3 DEF Grows
    <2>2. q \in Posted(x) => FirstMessage(o, x, q.msg)
      BY DEF FirstBy, FlowsDue
    <2>3. ASSUME NEW e \in Held(x), q = RequestOf(e)
          PROVE  FirstMessage(o, x, q.msg)
      BY <2>3, FirstFromDue DEF RequestOf
    <2> QED
      BY <2>1, <2>2, <2>3
  <1> QED
    BY <1>1, <1>2, <1>3 DEF FlowsDue

LEMMA FlowsDueOn ==
  ASSUME NEW I, NEW o \in Roles, OnStep(I, o), FirstBy(o)
  PROVE  FlowsDue(o)'
  <1>1. ASSUME Flows
        PROVE  FlowsDue(o)'
    <2>1. Grows("consumer", {}, {}) /\ "consumer" \in Roles
      BY <1>1 DEF Flows, Roles
    <2> QED
      BY <2>1, FlowsStillDue
  <1>2. ASSUME NEW s \in Roles, NEW k \in Slots, NEW out, Stores(s, k, I, out)
        PROVE  FlowsDue(o)'
    <2> DEFINE H == IF out.neg.newAgreement THEN {} ELSE Range(out.entries)
               S == IF out.neg.newAgreement THEN {Stored(out)} ELSE {}
    <2>1. Grows(s, H, S)
      BY <1>2 DEF Stores
    <2>2. \A e \in Range(out.entries) : Due(o, s, e)'
      BY <1>2, AnswersDue
    <2>3. /\ \A e \in H : Due(o, s, e)'
          /\ \A x \in S : \A e \in Range(x.entries) : Due(o, s, e)'
      BY <2>2 DEF Stored
    <2> HIDE DEF H, S
    <2> QED
      BY <2>1, <2>3, FlowsStillDue
  <1>3. ASSUME NEW s \in Roles, NEW x, Agrees(s, x)
        PROVE  FlowsDue(o)'
    <2>1. Grows(s, Range(x.entries), {}) /\ x \in Storing(s)
      BY <1>3 DEF Agrees
    <2>2. Range(x.entries) \subseteq UnderWay(s)
      BY <2>1 DEF UnderWay
    <2>3. UnderWay(s)' # {} => \A e \in Range(x.entries) : Due(o, s, e)'
      BY <2>2, DueStays
    <2> QED
      BY <2>1, <2>3, FlowsStillDue
  <1>4. ASSUME NEW s \in Roles
        PROVE  /\ \A k \in Slots : \A n : Created(s, k, I, n) => Flows
               /\ \A k \in Slots : \A i : Locked(s, k, i) => Flows
               /\ \A i : Acquired(s, i) => Flows
               /\ \A i, n : Completes(s, i, n) => Flows
               /\ \A i, n, out : ~Calls(s, i, I, n, out)
               /\ \A i, e : ~Asks(s, i, e)
               /\ \A n, r, entries : ~Begins(s, I, n, r, entries)
    <2>1. \A k \in Slots : \A n : Created(s, k, I, n) => Flows
      BY DEF Created
    <2>2. \A k \in Slots : \A i : Locked(s, k, i) => Flows
      BY DEF Locked
    <2>3. (\A i : Acquired(s, i) => Flows) /\ (\A i, n : Completes(s, i, n) => Flows)
      BY DEF Acquired, Completes
    <2>4. calls' # calls + 1
      BY DEF OnStep
    <2>5. (\A i, n, out : ~Calls(s, i, I, n, out)) /\ (\A i, e : ~Asks(s, i, e))
      BY <2>4 DEF Calls, Asks
    <2>6. \A n, r, entries : ~Begins(s, I, n, r, entries)
      BY DEF OnStep, Beginning
    <2> QED
      BY <2>1, <2>2, <2>3, <2>5, <2>6
  <1>5. Quiet => Flows
    BY DEF Quiet
  <1>6. Quiet \/ \E s \in Roles : Moves(s, I)
    BY DEF OnStep
  <1>7. ASSUME NEW s \in Roles, Moves(s, I)
        PROVE  FlowsDue(o)'
    BY <1>1, <1>2, <1>3, <1>4, <1>7, Zenon DEF Moves
  <1> QED
    BY <1>1, <1>5, <1>6, <1>7

\* A row that was INITIAL after the step was it before, and a provider that has
\* moved on has moved on.
LEMMA InitialWas ==
  ASSUME NEW I, NEW o \in Roles, OnStep(I, o), NEW s \in Roles, NEW i \in DOMAIN table[s]
  PROVE  /\ i \in DOMAIN table'[s] /\ table[s][i].state \in States
         /\ table'[s][i].state = "INITIAL" => table[s][i].state = "INITIAL"
  <1>1. i \in DOMAIN table'[s] /\ ForwardRow(table[s][i], table'[s][i])
    BY RowsStay DEF OnStep, AllForward
  <1>2. table[s][i].state \in States
    BY RowShapes DEF OnStep, Before, LockOver
  <1> QED
    BY <1>1, <1>2, NeverInitial DEF ForwardRow

LEMMA MovedStays ==
  ASSUME NEW I, NEW o \in Roles, OnStep(I, o), ProviderMoved
  PROVE  ProviderMoved'
  BY InitialWas DEF ProviderMoved, Roles

\* A consumer that began has under way what its first request leaves it.
LEMMA StillInitial ==
  ASSUME NEW I, NEW o \in Roles, o = "consumer", OnStep(I, o), FirstBy(o),
         NEW i \in DOMAIN table["consumer"], table'["consumer"][i].state = "INITIAL"
  PROVE  /\ queue'["consumer"] = <<>> \/ (Len(queue'["consumer"]) = 1 /\ worker'["consumer"].pc = "idle")
         /\ \A k \in Slots : http'["consumer"][k].pc \notin {"stored", "apply"}
  <1> DEFINE q == queue["consumer"]
             q1 == queue'["consumer"]
             w == worker["consumer"]
             w1 == worker'["consumer"]
  <1>1. "consumer" \in Roles /\ Before(I) /\ LockOver(I) /\ LockInv
    BY DEF OnStep, Before, Roles
  <1>2. /\ q = <<>> \/ (Len(q) = 1 /\ w.pc = "idle")
        /\ \A k \in Slots : http["consumer"][k].pc \notin {"stored", "apply"}
    BY <1>1, InitialWas DEF FirstBy, FirstRequest
  <1>3. ASSUME NEW j \in DOMAIN q, Take("consumer", j)
        PROVE  q1 = <<>>
    <2>1. q \in Seq(QueuedOver("consumer", I)) /\ DOMAIN queue = Roles
      BY <1>1 DEF LockOver, QueuesShape
    <2>2. Len(q) = 1 /\ j = 1
      BY <1>2, <1>3, <2>1
    <2>3. q1 = SubSeq(q, 1, 0) \o SubSeq(q, 2, 1)
      BY <1>1, <1>3, <2>1, <2>2 DEF Take
    <2> HIDE DEF q, q1
    <2>4. SubSeq(q, 1, 0) = <<>> /\ SubSeq(q, 2, 1) = <<>>
      BY <2>1
    <2> QED
      BY <2>3, <2>4
  <1>4. ASSUME Requeue("consumer")
        PROVE  Len(q1) = 1 /\ w1.pc = "idle"
    <2>1. /\ w.pc \in {"failed", "httpError"} /\ queue' = [queue EXCEPT !["consumer"] = Append(@, w.op)]
          /\ worker' = [worker EXCEPT !["consumer"] = Idle]
      BY <1>4 DEF Requeue
    <2>2. DOMAIN queue = Roles /\ DOMAIN worker = Roles
      BY <1>1 DEF LockOver, QueuesShape, WorkersShape
    <2>3. q = <<>> /\ q1 = Append(q, w.op) /\ w1 = Idle
      BY <1>1, <1>2, <2>1, <2>2
    <2>4. q1 = <<w.op>>
      BY <2>3
    <2> QED
      BY <2>3, <2>4 DEF Idle
  <1>5. \A k \in Slots : ~HandlerApply("consumer", k)
    BY <1>2 DEF HandlerApply
  <1>6. ~(Begin \/ control["consumer"].pc # "idle" \/ calls' # calls)
    <2>1. ~Begin
      BY <1>1, BeginMoves DEF OnStep, Beginning
    <2> QED
      BY <1>1, <2>1 DEF OnStep, FirstBy, NoControl
  <1>7. QueueSteps("consumer") /\ WorkerSteps("consumer") /\ \A k \in Slots : SlotSteps("consumer", k)
    BY <1>1 DEF OnStep, StepsOn, ProcessSteps
  <1>8. q1 = <<>> \/ (Len(q1) = 1 /\ w1.pc = "idle")
    <2>1. \/ q1 \in {q, <<>>} \/ (\E j \in DOMAIN q : Take("consumer", j)) \/ Requeue("consumer")
      BY <1>5, <1>6, <1>7 DEF QueueSteps
    <2>2. w.pc = "idle" => w1.pc = "idle" \/ \E j \in DOMAIN q : Take("consumer", j)
      BY <1>7 DEF WorkerSteps
    <2> HIDE DEF q, q1, w, w1
    <2> QED
      BY <1>2, <1>3, <1>4, <2>1, <2>2
  <1>9. ASSUME NEW k \in Slots, HandlerStore("consumer", k)
        PROVE  FALSE
    <2>1. PICK out : Stores("consumer", k, I, out)
      BY <1>1, <1>9, HandlerStoreMoves
    <2>2. http["consumer"][k].neg.id \in DOMAIN table["consumer"]
      BY <1>1, <2>1, StoreData
    <2>3. \E r : Received("consumer", I \cup {uuid}, http["consumer"][k].neg, http["consumer"][k].req.msg, r)
                 /\ SameButAgreement(r, out.neg)
      BY <1>1, <2>1, StoreData
    <2>4. out.neg.state # "INITIAL"
      BY <2>3 DEF Received, ReceivedBy, SameButAgreement
    <2>5. table'["consumer"][http["consumer"][k].neg.id].state = out.neg.state
      BY <2>1, Zenon DEF Stores, Puts, SameColumns
    <2>6. http["consumer"][k].neg.id = i
      BY <2>2, OneConsumerRow
    <2> QED
      BY <2>4, <2>5, <2>6
  <1>10. \A k \in Slots : http'["consumer"][k].pc \notin {"stored", "apply"}
    BY <1>2, <1>7, <1>9 DEF SlotSteps
  <1> QED
    BY <1>8, <1>10

\* The provider has answered or sent before the consumer's row leaves INITIAL.
LEMMA SettledMoves ==
  ASSUME NEW ppid, NEW cpid, Settled("provider", ppid, cpid)
  PROVE  ProviderMoved
  BY DEF Settled, ProviderMoved

LEMMA FirstLeaves ==
  ASSUME NEW I, NEW o \in Roles, o = "consumer", OnStep(I, o), FirstBy(o),
         NEW i \in DOMAIN table["consumer"], table["consumer"][i].state = "INITIAL",
         table'["consumer"][i].state # "INITIAL"
  PROVE  ProviderMoved /\ worker'["consumer"].pc \notin Busy
  <1>1. /\ "consumer" \in Roles /\ Peer("consumer") = "provider" /\ Before(I) /\ LockOver(I)
        /\ "provider" \in Roles /\ Peer("provider") = "consumer"
    BY DEF OnStep, Before, Roles, Peer
  <1>2. ASSUME NEW k \in Slots, NEW out, Stores("consumer", k, I, out), i = http["consumer"][k].neg.id
        PROVE  ProviderMoved /\ worker'["consumer"].pc \notin Busy
    <2>1. http["consumer"][k].req \in Posted("provider") /\ http["consumer"][k].pc = "locked"
      BY <1>1, <1>2, StoreData, Zenon
    <2>2. ProviderMoved
      BY <1>1, <2>1, SettledMoves DEF OnStep, PairsKnown, FlowsSettled
    <2>3. worker' = worker
      BY <1>2 DEF Stores, StoredBy
    <2>4. table["consumer"][i].lock = k
      BY <1>1, <1>2, <2>1 DEF LockOver, HandlerHolds
    <2>5. ASSUME worker["consumer"].pc \in Busy
          PROVE  FALSE
      <3>1. LET w == worker["consumer"] IN w.neg.id \in DOMAIN table["consumer"] /\ table["consumer"][w.neg.id].lock = "worker"
        BY <1>1, <2>5, BusyWorker
      <3>2. worker["consumer"].neg.id = i
        BY <3>1, OneConsumerRow
      <3> QED
        BY <2>4, <3>1, <3>2, SlotsAssumption
    <2> QED
      BY <2>2, <2>3, <2>5
  <1>3. ASSUME NEW n, Completes("consumer", i, n)
        PROVE  ProviderMoved /\ worker'["consumer"].pc \notin Busy
    <2> DEFINE w == worker["consumer"]
               e == w.op.entry
    <2>1. worker'["consumer"] = Idle
      BY <1>3 DEF Completes
    <2>2. /\ e \in UnderWay("consumer") /\ e.target \in validTransitions["INITIAL"]
          /\ w.pc = "answered" \/ e.target \notin Guarded(o, "consumer")
      BY <1>1, <1>3, SentAims
    <2>3. Due(o, "consumer", e) /\ e.msg.type \in TypesFrom("consumer") /\ e.msg.event \in EventsFrom("consumer")
      BY <1>1, <2>2, WayFacts DEF FirstBy
    <2>4. e.target = TargetOf(e.msg) /\ e.target # "TERMINATED"
      BY <2>3 DEF Due
    <2>5. e.target # "OFFERED"
      BY <1>1, <2>3, <2>4, TypeOfTarget DEF TypesFrom
    <2>6. e.target = "REQUESTED"
      BY <2>2, <2>4, <2>5 DEF validTransitions
    <2>7. w.pc = "answered"
      BY <2>2, <2>6 DEF Guarded
    <2>8. w.ack \in Acks("provider")
      BY <1>1, <2>7 DEF Acks
    <2>9. ProviderMoved
      BY <1>1, <2>8, SettledMoves DEF OnStep, PairsKnown, FlowsSettled
    <2> QED
      BY <2>1, <2>9 DEF Idle, Busy
  <1>4. RowStays("consumer", i) \/ RowReceives("consumer", i, I) \/ RowSent("consumer", i)
    BY <1>1, RowComesFrom, InitialWas DEF RowIsNew
  <1>5. ~RowStays("consumer", i)
    BY DEF RowStays, SameColumns
  <1> QED
    BY <1>2, <1>3, <1>4, <1>5 DEF RowReceives, RowSent

\* The first request has been answered once the provider has moved on, and no
\* handler stores it a second time.
LEMMA RequestNotStored ==
  ASSUME NEW I, NEW o \in Roles, o = "consumer", OnStep(I, o), FirstBy(o), ProviderMoved,
         worker["consumer"].pc = "wait", worker["consumer"].op.entry.target = "REQUESTED"
  PROVE  ~HandlerStore("provider", worker["consumer"].slot)
  <1> DEFINE w == worker["consumer"]
             e == w.op.entry
             k == w.slot
             n == http["provider"][k].neg
             m == http["provider"][k].req.msg
  <1>1. /\ "consumer" \in Roles /\ Peer("consumer") = "provider" /\ Before(I) /\ LockOver(I)
        /\ "provider" \in Roles
    BY DEF OnStep, Before, Roles, Peer
  <1> SUFFICES ASSUME HandlerStore("provider", k)
               PROVE  FALSE
    OBVIOUS
  <1>2. k \in Slots
    BY <1>1, WorkerShapes DEF LockOver
  <1>3. PICK out : Stores("provider", k, I, out)
    BY <1>1, <1>2, HandlerStoreMoves
  <1>4. m = e.msg
    <2>1. Asked
      BY DEF OnStep
    <2>2. http["provider"][k].req = RequestOf(e)
      BY <1>1, <2>1 DEF Asked
    <2> QED
      BY <2>2 DEF RequestOf
  <1>5. /\ Due(o, "consumer", e)
        /\ e.msg.type \in TypesFrom("consumer") /\ e.msg.event \in EventsFrom("consumer")
    BY <1>1, WorkersWay, WayFacts DEF FirstBy
  <1>6. m.ppid = emptyUUID
    BY <1>1, <1>4, <1>5, SMTT(30) DEF Due, ConsumerDue
  <1>7. n.id \in DOMAIN table["provider"] /\ n.state = table["provider"][n.id].state
    BY <1>1, <1>2, <1>3, StoreData, Zenon
  <1>8. PICK r \in CopiesOver("provider", I \cup {uuid}) : RecvAs(n, m, r)
    BY <1>1, <1>2, <1>3, StoreData
  <1>9. r.ppid # emptyUUID
    BY <1>8 DEF CopiesOver, PpidsOver
  <1> HIDE DEF n, m
  <1>10. n.state = "INITIAL"
    BY <1>6, <1>8, <1>9 DEF RecvAs
  <1>11. PICK j \in DOMAIN table["provider"] : table["provider"][j].state # "INITIAL"
    BY DEF ProviderMoved
  <1>12. j = n.id
    BY <1>7 DEF OnStep, StartedBy
  <1> QED
    BY <1>7, <1>10, <1>11, <1>12

LEMMA FirstRequestOn ==
  ASSUME NEW I, NEW o \in Roles, OnStep(I, o), FirstBy(o)
  PROVE  FirstRequest(o)'
  <1> SUFFICES ASSUME o = "consumer", NEW i \in DOMAIN table'["consumer"]
               PROVE  IF table'["consumer"][i].state = "INITIAL"
                        THEN /\ queue'["consumer"] = <<>> \/ (Len(queue'["consumer"]) = 1 /\ worker'["consumer"].pc = "idle")
                             /\ \A k \in Slots : http'["consumer"][k].pc \notin {"stored", "apply"}
                        ELSE /\ ProviderMoved'
                             /\ LET w == worker'["consumer"] IN
                                w.pc # "idle" /\ w.op.entry.target = "REQUESTED" =>
                                  /\ w.pc # "answered"
                                  /\ w.pc = "wait" => http'["provider"][w.slot].pc \notin {"stored", "apply"}
    BY DEF FirstRequest
  <1>1. i \in DOMAIN table["consumer"] /\ "consumer" \in Roles /\ "provider" \in Roles
        /\ Peer("consumer") = "provider"
    BY NoneBegunAnew DEF Roles, Peer
  <1>2. CASE table'["consumer"][i].state = "INITIAL"
    BY <1>1, <1>2, StillInitial
  <1>3. CASE table["consumer"][i].state = "INITIAL" /\ table'["consumer"][i].state # "INITIAL"
    <2>1. ProviderMoved' /\ worker'["consumer"].pc \notin Busy
      BY <1>1, <1>3, FirstLeaves, MovedStays
    <2> QED
      BY <1>3, <2>1 DEF Busy
  <1>4. CASE table["consumer"][i].state # "INITIAL" /\ table'["consumer"][i].state # "INITIAL"
    <2> DEFINE w == worker["consumer"]
               w1 == worker'["consumer"]
    <2>1. /\ ProviderMoved
          /\ w.pc # "idle" /\ w.op.entry.target = "REQUESTED" =>
               /\ w.pc # "answered"
               /\ w.pc = "wait" => http["provider"][w.slot].pc \notin {"stored", "apply"}
      BY <1>1, <1>4 DEF FirstBy, FirstRequest
    <2>2. ProviderMoved'
      BY <2>1, MovedStays
    <2>3. WorkerSteps("consumer") /\ \A k \in Slots : SlotSteps("provider", k)
      BY <1>1 DEF OnStep, StepsOn, ProcessSteps
    <2>4. w1.pc = "answered" => w1.op.entry.target # "REQUESTED"
      BY <1>1, <2>1, <2>3 DEF WorkerSteps
    <2>5. ASSUME w1.pc = "wait", w1.op.entry.target = "REQUESTED",
                 http'["provider"][w1.slot].pc \in {"stored", "apply"}
          PROVE  FALSE
      <3>1. /\ w.op.entry.target = "REQUESTED" /\ w1.slot \in Slots
            /\ (w.pc = "wait" /\ w1.slot = w.slot) \/ http'["provider"][w1.slot].pc = "arrived"
        BY <1>1, <2>3, <2>5 DEF WorkerSteps
      <3>2. w.pc = "wait" /\ w1.slot = w.slot /\ http["provider"][w.slot].pc \notin {"stored", "apply"}
        BY <2>1, <2>5, <3>1
      <3>3. HandlerStore("provider", w.slot)
        BY <2>3, <2>5, <3>1, <3>2 DEF SlotSteps
      <3> QED
        BY <2>1, <3>1, <3>2, <3>3, RequestNotStored
    <2> QED
      BY <1>4, <2>2, <2>4, <2>5
  <1> QED
    BY <1>2, <1>3, <1>4, <1>1, InitialWas

\* No call is being served that was not one of an operator.
LEMMA NoControlOn ==
  ASSUME NEW I, LockOver(I), Next, NoControl, calls \in Nat, calls' = calls
  PROVE  NoControl'
  <1>1. calls' # calls + 1 /\ DOMAIN control = Roles
    BY DEF LockOver, ControlsShape
  <1>2. control' = control \/ \E s \in Roles : control' = [control EXCEPT ![s] = Idle]
    <2>1. ASSUME NEW s \in Roles, NEW k \in Slots, Handle(s, k) \/ HandlerNotifyFails(s, k) \/ HandlerCancelled(s, k)
          PROVE  control' = control
      BY <2>1, Zenon DEF Handle, RouteRequest, CreateNegotiation, HandlerLock, HandlerNotFound, HandlerStore,
                  HandlerReject, HandlerPutAgreement, HandlerApply, HandlerNotifyFails, HandlerCancelled
    <2>2. ASSUME NEW s \in Roles, Reconcile(s) \/ ConnectionLost(s) \/ Restart(s) \/ Poll(s) \/ Crash(s)
          PROVE  control' \in {control, [control EXCEPT ![s] = Idle]}
      <3>1. (\E i \in DOMAIN queue[s] : Take(s, i)) => control' = control
        BY DEF Take
      <3>2. (\E k \in Slots : SendHTTPRequest(s, k)) => control' = control
        BY DEF SendHTTPRequest
      <3>3. /\ Acquire(s) => control' = control
            /\ AcquireFails(s) => control' = control
            /\ SendFailsEarly(s) => control' = control
            /\ Commit(s) => control' = control
            /\ Requeue(s) => control' = control
            /\ GiveUp(s) => control' = control
            /\ Terminate(s) => control' = control
            /\ ConnectionLost(s) => control' = control
            /\ Restart(s) => control' = control
            /\ Poll(s) => control' = control
        BY DEF Acquire, AcquireFails, SendFailsEarly, Commit, Requeue, GiveUp, Terminate,
               ConnectionLost, Restart, Poll
      <3>4. PanicHolding(s) \/ PanicTerminating(s) \/ Crash(s) => control' = [control EXCEPT ![s] = Idle]
        BY DEF PanicHolding, PanicTerminating, Crash, Die
      <3> QED
        BY <2>2, <3>1, <3>2, <3>3, <3>4 DEF Reconcile
    <2>3. Begin => control' = control
      BY DEF Begin
    <2>4. ASSUME NEW s \in Roles
          PROVE  ~CallPutAgreement(s) /\ ~Operate(s)
      <3>1. ~CallPutAgreement(s)
        BY DEF CallPutAgreement, NoControl
      <3>2. ~Operate(s)
        <4>1. ASSUME NEW i \in DOMAIN table[s], NEW c \in ControlCalls
              PROVE  ~CallRefused(s, i, c) /\ \A auto \in CallAuto : ~Call(s, i, c, auto)
          <5>1. ~CallBegins(s, i)
            BY <1>1 DEF CallBegins
          <5> QED
            BY <5>1 DEF CallRefused, Call
        <4>2. \A i \in DOMAIN table[s] : ~ContractTerminate(s, i)
          BY <1>1 DEF ContractTerminate
        <4> QED
          BY <4>1, <4>2, Zenon DEF Operate
      <3> QED
        BY <3>1, <3>2
    <2> QED
      BY <2>1, <2>2, <2>3, <2>4 DEF Next, Progress
  <1> QED
    BY <1>1, <1>2 DEF NoControl, Idle

LEMMA FirstByOn ==
  ASSUME NEW I, NEW o \in Roles, OnStep(I, o), FirstBy(o), NoControl'
  PROVE  FirstBy(o)'
  <1>1. RowsLed' /\ AnswersReached'
    BY RowsLedOn, AnswersReachedOn
  <1>2. WorkersSpent(o)' /\ FlowsDue(o)'
    BY WorkersSpentOn, FlowsDueOn
  <1>3. FirstRequest(o)'
    BY FirstRequestOn
  <1> QED
    BY <1>1, <1>2, <1>3 DEF FirstBy

\* Nothing is under way before the first call.
LEMMA NothingBegun ==
  ASSUME \A o \in Roles : PairsKnown(o), \A x \in Roles : DOMAIN table[x] = {}, NEW x \in Roles
  PROVE  /\ Held(x) = {} /\ Posted(x) = {} /\ \A y \in Storing(x) : Range(y.entries) = {}
         /\ worker[x].pc = "idle" /\ \A k \in Slots : http[x][k].pc = "idle"
  <1>1. \A y \in Roles : Peer(y) \in Roles /\ Peer(Peer(y)) = y
    BY DEF Peer, Roles
  <1>2. \A y \in Roles : FlowsSettled(y)
    BY <1>1 DEF PairsKnown
  <1>3. \A y \in Roles : \A ppid, cpid : ~Settled(y, ppid, cpid)
    BY DEF Settled
  <1>4. \A y \in Roles : Held(y) = {} /\ Posted(y) = {} /\ Acks(y) = {}
    BY <1>2, <1>3 DEF FlowsSettled
  <1>5. \A y \in Storing(x) : Range(y.entries) = {}
    BY <1>2, <1>3 DEF FlowsSettled
  <1>6. worker[x].pc = "idle"
    BY <1>4 DEF Held, AtWorker
  <1>7. \A k \in Slots : http[x][k].pc = "idle"
    <2>1. Posted(Peer(x)) = {}
      BY <1>1, <1>4
    <2> QED
      BY <1>1, <2>1 DEF Posted
  <1> QED
    BY <1>4, <1>5, <1>6, <1>7

\* The entry of the first call finds its row as it has just been made.
LEMMA FirstEntryDue ==
  ASSUME NEW s \in Roles, NEW n, FirstOf(s, n), NEW r, SameColumns(n, r),
         table' = [table EXCEPT ![s] = <<r>>], DOMAIN table = Roles,
         \A x \in Roles : DOMAIN table[x] = {}, NEW e, EntryOf(s, n, e), SentAs(n, e),
         e.target \in {"REQUESTED", "OFFERED", "TERMINATED"}
  PROVE  Due(s, s, e)'
  <1>1. /\ e.target = TargetOf(e.msg) /\ e.msg.type \in TypesFrom(s) /\ e.msg.event \in EventsFrom(s)
        /\ e.msg.ppid = n.ppid /\ e.msg.cpid = n.cpid /\ e.msg.type # "termination"
    BY DEF EntryOf, EntriesOver, MessagesOver, SentAs
  <1>2. e.target # "TERMINATED"
    BY <1>1, TypeOfTarget
  <1>3. n.state = "INITIAL" /\ (s = "consumer" => n.ppid = emptyUUID) /\ (s = "provider" => n.cpid = emptyUUID)
    BY DEF FirstOf, RemotePID
  <1>4. r.state = "INITIAL" /\ r.ppid = n.ppid /\ r.cpid = n.cpid
    BY <1>3 DEF SameColumns
  <1>5. \A i \in DOMAIN table'[s] : table'[s][i] = r
    OBVIOUS
  <1>6. s = "provider" => ProviderDue(s, e)'
    BY <1>1, <1>3, <1>5 DEF ProviderDue
  <1>7. s = "consumer" => ConsumerDue(s, e)'
    BY <1>1, <1>3, <1>4, <1>5 DEF ConsumerDue
  <1> QED
    BY <1>1, <1>2, <1>6, <1>7 DEF Due

LEMMA BeginsFirst ==
  ASSUME NEW I, Before(I), \A o \in Roles : PairsKnown(o), NoControl', NEW s \in Roles,
         NEW n, NEW r, NEW entries, Begins(s, I, n, r, entries)
  PROVE  FirstBy(s)'
  <1>1. /\ FirstOf(s, n) /\ SameColumns(n, r) /\ table' = [table EXCEPT ![s] = <<r>>]
        /\ \A x \in Roles : DOMAIN table[x] = {}
        /\ worker' = worker /\ http' = http /\ queue' = [queue EXCEPT ![s] = Operations(entries)]
        /\ Grows(s, Range(entries), {})
        /\ \/ entries = <<>>
           \/ \E e : entries = <<e>> /\ EntryOf(s, n, e) /\ SentAs(n, e) /\ e.target \in {"REQUESTED", "OFFERED", "TERMINATED"}
    BY DEF Begins
  <1>2. DOMAIN table = Roles /\ DOMAIN queue = Roles
    BY DEF Before, LockOver, StoreShape, QueuesShape
  <1>3. \A x \in Roles : /\ Held(x) = {} /\ (\A y \in Storing(x) : Range(y.entries) = {}) /\ Posted(x) = {}
                         /\ worker'[x].pc = "idle" /\ \A k \in Slots : http'[x][k].pc = "idle"
    BY <1>1, NothingBegun
  <1>4. r.state = "INITIAL"
    BY <1>1 DEF FirstOf, SameColumns
  <1>5. \A x \in Roles : \A i \in DOMAIN table'[x] : x = s /\ table'[x][i] = r
    BY <1>1, <1>2
  <1>6. RowsLed'
    BY <1>4, <1>5, LeadsAre DEF RowsLed
  <1>7. AnswersReached'
    BY <1>3 DEF AnswersReached, WorkerReached, SlotReached, Peer, Roles
  <1>8. WorkersSpent(s)'
    BY <1>3 DEF WorkersSpent, WorkerSpent
  <1>9. \A e \in Range(entries) : Due(s, s, e)'
    <2>1. ASSUME NEW e \in Range(entries)
          PROVE  EntryOf(s, n, e) /\ SentAs(n, e) /\ e.target \in {"REQUESTED", "OFFERED", "TERMINATED"}
      BY <1>1 DEF Range
    <2> QED
      BY <1>1, <1>2, <2>1, FirstEntryDue
  <1>10. FlowsDue(s)'
    <2>1. \A x \in Roles : \A e \in Held(x)' : Due(s, x, e)'
      BY <1>1, <1>3, <1>9 DEF Grows
    <2>2. \A x \in Roles : \A y \in Storing(x)' : Range(y.entries) = {}
      BY <1>1, <1>3 DEF Grows
    <2>3. \A x \in Roles : Posted(x)' = {}
      BY <1>1, <1>3 DEF Grows
    <2> QED
      BY <2>1, <2>2, <2>3 DEF FlowsDue
  <1>11. FirstRequest(s)'
    <2>1. queue'[s] = Operations(entries)
      BY <1>1, <1>2
    <2>2. Operations(entries) = <<>> \/ Len(Operations(entries)) = 1
      <3>1. entries = <<>> => Operations(entries) = <<>>
        BY DEF Operations
      <3>2. ASSUME NEW e, entries = <<e>>
            PROVE  Len(Operations(entries)) = 1
        BY <3>2 DEF Operations
      <3> QED
        BY <1>1, <3>1, <3>2
    <2> QED
      BY <1>3, <1>4, <1>5, <2>1, <2>2 DEF FirstRequest, Roles
  <1> QED
    BY <1>6, <1>7, <1>8, <1>10, <1>11 DEF FirstBy

LEMMA StutterOn ==
  ASSUME LockInv, UNCHANGED vars, NEW I, I = IDs'
  PROVE  Before(I) /\ Quiet /\ StepsOn /\ ~Beginning(I)
  <1>1. UNCHANGED <<table, agreements, queue, worker, http, control, uuid>>
    BY DEF vars
  <1>2. I = IDs /\ LockOver(I) /\ Before(I)
    BY <1>1 DEF IDs, LockInv, Before
  <1>3. Quiet
    BY <1>1, StutterQuiet
  <1>4. StepsOn
    <2>1. ProcessSteps
      BY <1>1, <1>2, ProcessesRest
    <2>2. LeaksStay /\ \A s \in Roles : QueueSteps(s)
      BY <1>1, RowsRest, QueuesRest
    <2> QED
      BY <2>1, <2>2 DEF StepsOn
  <1>5. ~Beginning(I)
    BY <1>1 DEF Beginning, Begins
  <1> QED
    BY <1>2, <1>3, <1>4, <1>5

LEMMA NextFirst ==
  ASSUME WithinBounds, LockInv, OneInv, AgreedInv, PairInv, OfferInv, Asked, FirstInv,
         OneInv', AgreedInv', PairInv', [Next]_vars
  PROVE  FirstInv'
  <1> SUFFICES ASSUME calls' = 0, timeouts' = 0
               PROVE  /\ (\E o \in Roles : StartedBy(o) /\ PairsKnown(o) /\ FirstBy(o))'
                      /\ uuid' = 1 => \A o \in Roles : FirstBy(o)'
    BY DEF FirstInv
  <1>1. calls = 0 /\ timeouts = 0
    BY NextBounds, BoundsAssumption DEF CountersMove, WithinBounds
  <1>2. /\ \E o \in Roles : StartedBy(o) /\ PairsKnown(o) /\ FirstBy(o)
        /\ uuid = 1 => \A o \in Roles : StartedBy(o) /\ PairsKnown(o) /\ FirstBy(o)
    BY <1>1 DEF FirstInv, PairInv, OneInv
  <1>3. AllForward /\ OffersRight /\ RowsApart'
    BY <1>1, NextLock DEF OfferInv, AgreedInv
  <1>4. NoControl
    BY <1>2 DEF FirstBy
  <1>5. PICK J : J = IDs'
    OBVIOUS
  <1>6. /\ Before(J) /\ uuid' \in {uuid, uuid + 1} /\ uuid \in Nat \ {0} /\ StepsOn
        /\ Quiet \/ \E s \in Roles : Moves(s, J)
        /\ NoControl'
    <2>1. CASE Next
      <3>1. Before(J) /\ uuid' \in {uuid, uuid + 1} /\ uuid \in Nat \ {0}
        BY <1>5, <2>1, NextIDs, UuidMoves DEF LockInv
      <3>2. Quiet \/ \E s \in Roles : Moves(s, J)
        BY <2>1, <3>1, StepMoves
      <3>3. StepsOn
        BY <1>1, <2>1, <3>1, NextStepsOn
      <3>4. NoControl'
        BY <1>1, <1>4, <2>1, <3>1, NoControlOn DEF Before
      <3> QED
        BY <3>1, <3>2, <3>3, <3>4
    <2>2. CASE UNCHANGED vars
      <3>1. control' = control /\ uuid' = uuid /\ uuid \in Nat \ {0}
        BY <2>2 DEF vars, LockInv
      <3> QED
        BY <1>4, <1>5, <2>2, <3>1, StutterOn DEF NoControl
    <2> QED
      BY <2>1, <2>2
  <1>7. ASSUME NEW s \in Roles, NEW n, NEW r, NEW entries, Begins(s, J, n, r, entries)
        PROVE  (StartedBy(s) /\ PairsKnown(s) /\ FirstBy(s))' /\ uuid' = 2
    <2>1. uuid = 1 /\ uuid' = 2
      BY <1>7 DEF Begins
    <2>2. (StartedBy(s) /\ PairsKnown(s))'
      BY <1>2, <1>6, <1>7, <2>1, BegunKnown, BeginsPaired
    <2>3. FirstBy(s)'
      BY <1>2, <1>6, <1>7, <2>1, BeginsFirst
    <2> QED
      BY <2>1, <2>2, <2>3
  <1>8. ASSUME ~Beginning(J), NEW o \in Roles, StartedBy(o), PairsKnown(o), FirstBy(o)
        PROVE  (StartedBy(o) /\ PairsKnown(o) /\ FirstBy(o))'
    <2>1. ~\E s \in Roles : \E n, r, entries : Begins(s, J, n, r, entries)
      BY <1>8 DEF Beginning
    <2>2. StartedBy(o)'
      BY <1>6, <1>8, <2>1, StartedStays
    <2>3. PairsKnown(o)'
      BY <1>1, <1>3, <1>6, <1>8, <2>1, StepPaired
    <2>4. OnStep(J, o)
      BY <1>1, <1>3, <1>6, <1>8, <2>2 DEF OnStep
    <2>5. FirstBy(o)'
      BY <1>6, <1>8, <2>4, FirstByOn
    <2> QED
      BY <2>2, <2>3, <2>5
  <1>9. uuid' = 1 => uuid = 1
    BY <1>6
  <1>10. CASE Beginning(J)
    BY <1>7, <1>10 DEF Beginning
  <1>11. CASE ~Beginning(J)
    BY <1>2, <1>8, <1>9, <1>11
  <1> QED
    BY <1>10, <1>11

LEMMA InitFirst ==
  ASSUME Init
  PROVE  FirstInv
  <1>1. PairInv /\ OneInv
    BY InitPaired, InitOne
  <1>2. /\ \A s \in Roles : Held(s) = {} /\ Storing(s) = {} /\ Posted(s) = {} /\ DOMAIN table[s] = {}
        /\ \A s \in Roles : worker[s].pc = "idle" /\ control[s].pc = "idle" /\ \A k \in Slots : http[s][k].pc = "idle"
    BY NothingUnderWay DEF Init, Idle
  <1>3. ASSUME NEW o \in Roles
        PROVE  FirstBy(o)
    <2>1. NoControl /\ RowsLed
      BY <1>2 DEF NoControl, RowsLed
    <2>2. AnswersReached
      BY <1>2 DEF AnswersReached, WorkerReached, SlotReached, Peer, Roles
    <2>3. WorkersSpent(o)
      BY <1>2 DEF WorkersSpent, WorkerSpent
    <2>4. FlowsDue(o)
      BY <1>2 DEF FlowsDue
    <2>5. FirstRequest(o)
      BY <1>2 DEF FirstRequest, Roles
    <2> QED
      BY <2>1, <2>2, <2>3, <2>4, <2>5 DEF FirstBy
  <1>4. calls = 0 /\ uuid = 1
    BY DEF Init
  <1> QED
    BY <1>1, <1>3, <1>4 DEF FirstInv, PairInv, OneInv, Roles

LEMMA FirstInvariant == Spec => []FirstInv
  BY InitFirst, NextFirst, BoundsInvariant, LockInvariant, OneInvariant, AgreedInvariant, PairInvariant,
     OfferInvariant, AskedInvariant, PTL DEF Spec

LEMMA FirstPeers ==
  ASSUME LockInv, AgreedInv, FirstInv
  PROVE  PeerFirst
  <1> SUFFICES ASSUME calls = 0, timeouts = 0, NEW h \in Halves
               PROVE  LET c == h[1].state
                          p == h[2].state
                      IN  /\ c = "REQUESTED" => p # "INITIAL"
                          /\ c = "ACCEPTED" => p \notin {"INITIAL", "REQUESTED", "OFFERED"}
                          /\ p = "AGREED" => c \in {"AGREED", "VERIFIED", "FINALIZED", "TERMINATED"}
                          /\ c = "VERIFIED" => p \in {"VERIFIED", "FINALIZED", "TERMINATED"}
                          /\ p = "FINALIZED" => c = "FINALIZED"
    BY DEF PeerFirst
  <1>1. PICK j \in DOMAIN table["consumer"], i \in DOMAIN table["provider"] :
          h[1] = table["consumer"][j] /\ h[2] = table["provider"][i] /\ h[1].cpid = h[2].cpid
    BY DEF Halves, Range
  <1>2. PICK o \in Roles : StartedBy(o) /\ PairsKnown(o) /\ FirstBy(o)
    BY DEF FirstInv
  <1>3. RowsLed /\ FirstRequest(o) /\ "consumer" \in Roles /\ "provider" \in Roles
    BY <1>2 DEF FirstBy, Roles
  <1>4. \A i2 \in DOMAIN table["provider"] : i2 = i
    BY <1>1, <1>2 DEF StartedBy
  <1>5. \A j2 \in DOMAIN table["consumer"] : table["consumer"][j2].cpid = h[1].cpid => j2 = j
    BY <1>1, <1>3 DEF AgreedInv, RowsApart, OwnPID
  <1>6. h[1].cpid # emptyUUID
    BY <1>1, <1>3, RowShapes DEF LockInv, LockOver, RowsOver, CpidsOver
  <1>7. ASSUME h[1].state = "REQUESTED", h[2].state = "INITIAL"
        PROVE  FALSE
    <2>1. CASE o = "provider"
      BY <1>1, <1>2, <1>6, <1>7, <2>1 DEF PairsKnown, RowsPaired, RowPaired, RemotePIDOf
    <2>2. CASE o = "consumer"
      <3>1. ProviderMoved
        BY <1>1, <1>3, <1>7, <2>2 DEF FirstRequest
      <3> QED
        BY <1>1, <1>4, <1>7, <3>1 DEF ProviderMoved
    <2> QED
      BY <2>1, <2>2 DEF Roles
  <1>8. h[1].state \in {"ACCEPTED", "VERIFIED"} => h[2].state \in Since[h[1].state]
    <2>1. h[1].state \in Leads("consumer") => Reached("consumer", h[1].state, h[1].cpid)
      BY <1>1, <1>3 DEF RowsLed
    <2> QED
      BY <1>1, <1>4, <2>1 DEF Leads, Reached, Peer
  <1>9. h[2].state \in {"AGREED", "FINALIZED"} => h[1].state \in Since[h[2].state]
    <2>1. h[2].state \in Leads("provider") => Reached("provider", h[2].state, h[2].cpid)
      BY <1>1, <1>3 DEF RowsLed
    <2> QED
      BY <1>1, <1>5, <2>1 DEF Leads, Reached, Peer
  <1> QED
    BY <1>7, <1>8, <1>9 DEF Since

\* As long as operators make no further calls and no lock times out under an
\* owner that is still working, no connector is ahead of the peer that has to
\* answer it: what a reconciler stores, its peer has stored before, whichever
\* requests are lost, cut off or sent again and whoever dies in between
\* (reconcileEntry, terminateAttempt, processMessage).
THEOREM PeersAreFirst == Spec => []PeerFirst
  BY FirstPeers, LockInvariant, AgreedInvariant, FirstInvariant, PTL

==============================================================================
