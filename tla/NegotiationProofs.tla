-------------------------- MODULE NegotiationProofs --------------------------
(***************************************************************************)
(* Lemmas about the negotiation state machine: what each connector's Recv  *)
(* and Send make of a negotiation, for any set of IDs drawn so far.        *)
(***************************************************************************)
EXTENDS Negotiation, SequenceTheorems, TLAPS

\* The connector's own PID is never empty, the peer's may be unknown.
PpidsOver(s, I) == IF s = "provider" THEN I \ {emptyUUID} ELSE I
CpidsOver(s, I) == IF s = "consumer" THEN I \ {emptyUUID} ELSE I

CopiesOver(s, I) ==
  [ id: Nat, state: States, ppid: PpidsOver(s, I), cpid: CpidsOver(s, I), agreement: I,
    callback: Bases, self: Bases, role: {s}, autoAccept: BOOLEAN,
    initial: BOOLEAN, modified: BOOLEAN, newAgreement: BOOLEAN ]

\* The messages that connector s sends.
TypesFrom(s) ==
  IF s = "consumer" THEN {"request", "event", "verification", "termination"}
                    ELSE {"offer", "agreement", "event", "termination"}

EventsFrom(s) == {"none"} \cup IF s = "consumer" THEN {"ACCEPTED"} ELSE {"FINALIZED"}

MessagesOver(s, I) ==
  [ type: TypesFrom(s), event: EventsFrom(s), ppid: I, cpid: I, agreement: I,
    callback: Bases ]

EntriesOver(s, I) ==
  [ entityID: I, target: States, base: Bases, pid: I, msg: MessagesOver(s, I) ]

\* The states that a message can bring connector s to.
ReceivedBy(s) ==
  {"TERMINATED"} \cup IF s = "consumer" THEN {"OFFERED", "AGREED", "FINALIZED"}
                                        ELSE {"REQUESTED", "ACCEPTED", "VERIFIED"}

\* The states that connector s calls Send in.
SendsFrom(s) ==
  ReceivedBy(s) \cup {"INITIAL"}

\* The IDs in a negotiation.
IDsOf(n) == {emptyUUID, n.ppid, n.cpid, n.agreement}

\* A transition is one between states, and leaves another state behind.
LEMMA TransitionsOfStates ==
  ASSUME NEW state \in States
  PROVE  validTransitions[state] \subseteq States
  BY DEF States, validTransitions

\* The sets of negotiations, messages and entries grow with the set of IDs.
LEMMA CopiesGrow ==
  ASSUME NEW s \in Roles, NEW I, NEW J, I \subseteq J
  PROVE  /\ CopiesOver(s, I) \subseteq CopiesOver(s, J)
         /\ MessagesOver(s, I) \subseteq MessagesOver(s, J)
         /\ EntriesOver(s, I) \subseteq EntriesOver(s, J)
  <1>1. PpidsOver(s, I) \subseteq PpidsOver(s, J) /\ CpidsOver(s, I) \subseteq CpidsOver(s, J)
    BY DEF PpidsOver, CpidsOver
  <1>2. CopiesOver(s, I) \subseteq CopiesOver(s, J)
    BY <1>1 DEF CopiesOver
  <1>3. MessagesOver(s, I) \subseteq MessagesOver(s, J)
    BY DEF MessagesOver
  <1>4. EntriesOver(s, I) \subseteq EntriesOver(s, J)
    BY <1>3 DEF EntriesOver
  <1> QED
    BY <1>2, <1>3, <1>4


-----------------------------------------------------------------------------
(* Receiving                                                               *)

\* The state that a message brings both connectors to.
TargetOf(m) ==
  IF m.type = "event" THEN m.event
  ELSE [ request |-> "REQUESTED", offer |-> "OFFERED", agreement |-> "AGREED",
         verification |-> "VERIFIED", termination |-> "TERMINATED" ][m.type]

\* Two versions of a negotiation with the same agreement.
SameAgreement(n, r) == r.agreement = n.agreement /\ r.newAgreement = n.newAgreement

\* An accepted message moves the state and sets the callback, and no more.
LEMMA Verified ==
  ASSUME NEW s \in Roles, NEW I, NEW n \in CopiesOver(s, I), NEW m,
         NEW callback \in Bases, NEW target \in States,
         verifyAndTransform(n, m, callback, target).ok
  PROVE  LET r == verifyAndTransform(n, m, callback, target).neg IN
         /\ r \in CopiesOver(s, I) /\ r.id = n.id
         /\ r.state = target /\ target \in validTransitions[n.state]
         /\ r.ppid = n.ppid /\ r.cpid = n.cpid /\ SameAgreement(n, r)
         /\ r.initial = n.initial /\ r.autoAccept = n.autoAccept
         /\ m.ppid = n.ppid /\ m.cpid = n.cpid
  <1> DEFINE c == [n EXCEPT !.callback = callback]
             r == SetState(c, target)
  <1>1. c \in CopiesOver(s, I) /\ c.callback = callback /\ SameAgreement(n, c)
        /\ c.id = n.id /\ c.ppid = n.ppid /\ c.cpid = n.cpid
        /\ c.initial = n.initial /\ c.autoAccept = n.autoAccept
    BY DEF CopiesOver, SameAgreement
  <1>2. /\ r \in CopiesOver(s, I) /\ r.state = target /\ SameAgreement(c, r)
        /\ r.id = c.id /\ r.ppid = c.ppid /\ r.cpid = c.cpid
        /\ r.initial = c.initial /\ r.autoAccept = c.autoAccept
    BY <1>1 DEF CopiesOver, SetState, SameAgreement
  <1>3. /\ m.ppid = n.ppid /\ m.cpid = n.cpid /\ CanSetState(n, target)
        /\ verifyAndTransform(n, m, callback, target).neg = r
    BY DEF verifyAndTransform, Accept, Reject
  <1> QED
    BY <1>1, <1>2, <1>3 DEF SameAgreement, CanSetState

\* The missing PID is taken from the message, a known one is kept.
LEMMA Backfilled ==
  ASSUME NEW s \in Roles, NEW I, emptyUUID \in I, NEW n \in CopiesOver(s, I),
         NEW m \in MessagesOver(Peer(s), I)
  PROVE  /\ LET r == BackfillProvider(n, m) IN
              /\ r \in CopiesOver(s, I) /\ r.id = n.id /\ r.state = n.state
              /\ r.cpid = n.cpid /\ n.ppid \in {emptyUUID, r.ppid} /\ SameAgreement(n, r)
              /\ r.initial = n.initial /\ r.autoAccept = n.autoAccept
         /\ LET r == BackfillConsumer(n, m) IN
              /\ r \in CopiesOver(s, I) /\ r.id = n.id /\ r.state = n.state
              /\ r.ppid = n.ppid /\ n.cpid \in {emptyUUID, r.cpid} /\ SameAgreement(n, r)
              /\ r.initial = n.initial /\ r.autoAccept = n.autoAccept
  <1>1. m.ppid \in I /\ m.cpid \in I
    BY DEF MessagesOver
  <1>2. ASSUME NEW p \in I \ {emptyUUID}
        PROVE  /\ [n EXCEPT !.ppid = p, !.modified = TRUE] \in CopiesOver(s, I)
               /\ [n EXCEPT !.cpid = p, !.modified = TRUE] \in CopiesOver(s, I)
    BY DEF CopiesOver, PpidsOver, CpidsOver
  <1>3. BackfillProvider(n, m) \in CopiesOver(s, I) /\ BackfillConsumer(n, m) \in CopiesOver(s, I)
    BY <1>1, <1>2 DEF BackfillProvider, BackfillConsumer
  <1>4. /\ LET r == BackfillProvider(n, m) IN
             /\ r.id = n.id /\ r.state = n.state
             /\ r.cpid = n.cpid /\ n.ppid \in {emptyUUID, r.ppid} /\ SameAgreement(n, r)
             /\ r.initial = n.initial /\ r.autoAccept = n.autoAccept
        /\ LET r == BackfillConsumer(n, m) IN
             /\ r.id = n.id /\ r.state = n.state
             /\ r.ppid = n.ppid /\ n.cpid \in {emptyUUID, r.cpid} /\ SameAgreement(n, r)
             /\ r.initial = n.initial /\ r.autoAccept = n.autoAccept
    BY DEF CopiesOver, BackfillProvider, BackfillConsumer, SameAgreement
  <1> QED
    BY <1>3, <1>4

\* What a message makes of the agreement: only an agreement message brings one.
AgreementReceived(n, m, r) ==
  /\ m.type = "agreement" =>
       r.state = "AGREED" /\ r.agreement = m.agreement /\ r.newAgreement
  /\ m.type # "agreement" => SameAgreement(n, r) /\ r.state # "AGREED"

\* What Recv may make of a negotiation.
Received(s, I, n, m, r) ==
  /\ r \in CopiesOver(s, I) /\ r.id = n.id
  /\ r.state \in validTransitions[n.state] /\ r.state \in ReceivedBy(s)
  /\ AgreementReceived(n, m, r) /\ r.autoAccept = n.autoAccept

KeepsPIDs(n, r) == n.ppid \in {emptyUUID, r.ppid} /\ n.cpid \in {emptyUUID, r.cpid}

\* The moves of each connector from each state.
LEMMA InitialReceived ==
  ASSUME NEW s \in Roles, NEW I, emptyUUID \in I, NEW fresh \in I \ {emptyUUID}, NEW found,
         NEW n \in CopiesOver(s, I), n.state = "INITIAL",
         NEW m \in MessagesOver(Peer(s), I), InitialRecv(n, m, fresh, found).ok
  PROVE  LET r == InitialRecv(n, m, fresh, found).neg IN
         /\ Received(s, I, n, m, r) /\ r.initial
         /\ m.type = IF s = "provider" THEN "request" ELSE "offer"
         /\ r.ppid = IF s = "provider" THEN fresh ELSE n.ppid
         /\ r.cpid = n.cpid
  <1> DEFINE r == InitialRecv(n, m, fresh, found).neg
  <1>1. m.type \in TypesFrom(Peer(s)) /\ s \in {"consumer", "provider"}
    BY DEF MessagesOver, Roles
  <1>2. CASE s = "provider"
    <2>1. m.type = "request"
      BY <1>1, <1>2 DEF TypesFrom, Peer, InitialRecv, Reject
    <2>2. r = [SetState(n, "REQUESTED") EXCEPT !.ppid = fresh, !.initial = TRUE]
      BY <2>1 DEF InitialRecv, processContractRequest, Accept, Reject
    <2> DEFINE x == SetState(n, "REQUESTED")
    <2>3. x \in CopiesOver(s, I) /\ x.state = "REQUESTED" /\ SameAgreement(n, x)
          /\ x.id = n.id /\ x.cpid = n.cpid /\ x.autoAccept = n.autoAccept
      BY DEF CopiesOver, SetState, SameAgreement, States
    <2> HIDE DEF x
    <2>4. ASSUME NEW y, y = [x EXCEPT !.ppid = fresh, !.initial = TRUE]
          PROVE  /\ y \in CopiesOver(s, I) /\ y.state = x.state /\ SameAgreement(x, y)
                 /\ y.id = x.id /\ y.cpid = x.cpid /\ y.initial /\ y.ppid = fresh
                 /\ y.autoAccept = x.autoAccept
      BY <1>2, <2>3, <2>4 DEF CopiesOver, PpidsOver, SameAgreement
    <2> HIDE DEF r
    <2>5. "REQUESTED" \in validTransitions[n.state] /\ "REQUESTED" \in ReceivedBy(s)
      BY <1>2 DEF validTransitions, ReceivedBy
    <2> QED
      BY <1>2, <2>1, <2>2, <2>3, <2>4, <2>5 DEF x, r, Received, AgreementReceived, SameAgreement
  <1>3. CASE s = "consumer"
    <2>1. m.type = "offer"
      BY <1>1, <1>3 DEF TypesFrom, Peer, InitialRecv, Reject
    <2>2. n.cpid # emptyUUID
      BY <1>3 DEF CopiesOver, CpidsOver
    <2> DEFINE x == SetState(n, "OFFERED")
    <2>3. r = [x EXCEPT !.cpid = IF n.cpid = emptyUUID THEN fresh ELSE n.cpid, !.initial = TRUE]
      BY <2>1 DEF InitialRecv, processContractOffer, Accept, Reject
    <2>4. x \in CopiesOver(s, I) /\ x.state = "OFFERED" /\ SameAgreement(n, x)
          /\ x.id = n.id /\ x.cpid = n.cpid /\ x.ppid = n.ppid /\ x.autoAccept = n.autoAccept
      BY DEF CopiesOver, SetState, SameAgreement, States
    <2> HIDE DEF x
    <2>5. ASSUME NEW y, y = [x EXCEPT !.cpid = n.cpid, !.initial = TRUE]
          PROVE  /\ y \in CopiesOver(s, I) /\ y.state = x.state /\ SameAgreement(x, y)
                 /\ y.id = x.id /\ y.cpid = x.cpid /\ y.initial /\ y.ppid = x.ppid
                 /\ y.autoAccept = x.autoAccept
      BY <1>3, <2>4, <2>5 DEF CopiesOver, SameAgreement
    <2> HIDE DEF r
    <2>6. r = [x EXCEPT !.cpid = n.cpid, !.initial = TRUE]
      BY <2>2, <2>3
    <2>7. "OFFERED" \in validTransitions[n.state] /\ "OFFERED" \in ReceivedBy(s)
      BY <1>3 DEF validTransitions, ReceivedBy
    <2> QED
      BY <1>3, <2>1, <2>4, <2>5, <2>6, <2>7 DEF r, Received, AgreementReceived, SameAgreement
  <1> QED
    BY <1>1, <1>2, <1>3

\* The agreement of a message is noted as new.
LEMMA AgreementSet ==
  ASSUME NEW s \in Roles, NEW I, NEW n \in CopiesOver(s, I), NEW a \in I
  PROVE  LET r == SetAgreement(n, a) IN
         /\ r \in CopiesOver(s, I) /\ r.id = n.id /\ r.state = n.state
         /\ r.ppid = n.ppid /\ r.cpid = n.cpid /\ r.agreement = a /\ r.newAgreement
         /\ r.initial = n.initial /\ r.autoAccept = n.autoAccept
  BY DEF CopiesOver, SetAgreement

LEMMA RequestedReceived ==
  ASSUME NEW s \in Roles, NEW I, emptyUUID \in I,
         NEW n \in CopiesOver(s, I), n.state = "REQUESTED",
         NEW m \in MessagesOver(Peer(s), I), RequestedRecv(n, m).ok
  PROVE  LET r == RequestedRecv(n, m).neg IN
         Received(s, I, n, m, r) /\ KeepsPIDs(n, r) /\ r.initial = n.initial
  <1> DEFINE b == BackfillProvider(n, m)
             a == SetAgreement(b, m.agreement)
             r == RequestedRecv(n, m).neg
  <1>1. /\ m.type \in TypesFrom(Peer(s)) /\ s \in {"consumer", "provider"}
        /\ m.agreement \in I /\ m.callback \in Bases /\ n.callback \in Bases
    BY DEF MessagesOver, Roles, CopiesOver
  <1>2. /\ b \in CopiesOver(s, I) /\ b.id = n.id /\ b.state = n.state
        /\ b.cpid = n.cpid /\ n.ppid \in {emptyUUID, b.ppid} /\ SameAgreement(n, b)
        /\ b.initial = n.initial /\ b.autoAccept = n.autoAccept
    BY Backfilled
  <1> HIDE DEF b
  <1>3. /\ a \in CopiesOver(s, I) /\ a.id = b.id /\ a.state = b.state
        /\ a.ppid = b.ppid /\ a.cpid = b.cpid /\ a.agreement = m.agreement /\ a.newAgreement
        /\ a.initial = b.initial /\ a.autoAccept = b.autoAccept
    BY <1>1, <1>2, AgreementSet
  <1> HIDE DEF a
  <1>4. CASE m.type = "offer"
    <2>1. RequestedRecv(n, m) = verifyAndTransform(b, m, m.callback, "OFFERED")
      BY <1>4 DEF RequestedRecv, b
    <2>2. s = "consumer"
      BY <1>1, <1>4 DEF TypesFrom, Peer
    <2>3. /\ r \in CopiesOver(s, I) /\ r.id = b.id /\ r.state = "OFFERED"
          /\ "OFFERED" \in validTransitions[b.state]
          /\ r.ppid = b.ppid /\ r.cpid = b.cpid /\ SameAgreement(b, r)
          /\ r.initial = b.initial /\ r.autoAccept = b.autoAccept
      BY <1>1, <1>2, <2>1, Verified DEF States
    <2> QED
      BY <1>2, <1>4, <2>2, <2>3
      DEF Received, AgreementReceived, KeepsPIDs, ReceivedBy, SameAgreement
  <1>5. CASE m.type = "agreement"
    <2>1. RequestedRecv(n, m) = verifyAndTransform(a, m, m.callback, "AGREED")
      BY <1>5 DEF RequestedRecv, a, b
    <2>2. s = "consumer"
      BY <1>1, <1>5 DEF TypesFrom, Peer
    <2>3. /\ r \in CopiesOver(s, I) /\ r.id = a.id /\ r.state = "AGREED"
          /\ "AGREED" \in validTransitions[a.state]
          /\ r.ppid = a.ppid /\ r.cpid = a.cpid /\ SameAgreement(a, r)
          /\ r.initial = a.initial /\ r.autoAccept = a.autoAccept
      BY <1>1, <1>3, <2>1, Verified DEF States
    <2> QED
      BY <1>2, <1>3, <1>5, <2>2, <2>3
      DEF Received, AgreementReceived, KeepsPIDs, ReceivedBy, SameAgreement
  <1>6. CASE m.type = "termination"
    <2>1. RequestedRecv(n, m) = verifyAndTransform(n, m, n.callback, "TERMINATED")
      BY <1>6 DEF RequestedRecv, processTermination
    <2>2. /\ r \in CopiesOver(s, I) /\ r.id = n.id /\ r.state = "TERMINATED"
          /\ "TERMINATED" \in validTransitions[n.state]
          /\ r.ppid = n.ppid /\ r.cpid = n.cpid /\ SameAgreement(n, r)
          /\ r.initial = n.initial /\ r.autoAccept = n.autoAccept
      BY <1>1, <2>1, Verified DEF States
    <2> QED
      BY <1>6, <2>2 DEF Received, AgreementReceived, KeepsPIDs, ReceivedBy
  <1>7. CASE m.type \notin {"offer", "agreement", "termination"}
    BY <1>7 DEF RequestedRecv, Reject
  <1> QED
    BY <1>4, <1>5, <1>6, <1>7

\* A verified message that brings no agreement.
LEMMA PlainReceived ==
  ASSUME NEW s \in Roles, NEW I, NEW n \in CopiesOver(s, I), NEW m, m.type # "agreement",
         NEW callback \in Bases, NEW target \in ReceivedBy(s), target # "AGREED",
         verifyAndTransform(n, m, callback, target).ok
  PROVE  LET r == verifyAndTransform(n, m, callback, target).neg IN
         Received(s, I, n, m, r) /\ KeepsPIDs(n, r) /\ r.initial = n.initial
  <1>1. target \in States
    BY DEF ReceivedBy, States
  <1> QED
    BY <1>1, Verified DEF Received, AgreementReceived, KeepsPIDs, SameAgreement

LEMMA OfferedReceived ==
  ASSUME NEW s \in Roles, NEW I, emptyUUID \in I,
         NEW n \in CopiesOver(s, I), n.state = "OFFERED",
         NEW m \in MessagesOver(Peer(s), I), OfferedRecv(n, m).ok
  PROVE  LET r == OfferedRecv(n, m).neg IN
         Received(s, I, n, m, r) /\ KeepsPIDs(n, r) /\ r.initial = n.initial
  <1> DEFINE b == BackfillConsumer(n, m)
             r == OfferedRecv(n, m).neg
  <1>1. /\ m.type \in TypesFrom(Peer(s)) /\ m.event \in EventsFrom(Peer(s))
        /\ s \in {"consumer", "provider"} /\ m.callback \in Bases /\ n.callback \in Bases
    BY DEF MessagesOver, Roles, CopiesOver
  <1>2. /\ b \in CopiesOver(s, I) /\ b.id = n.id /\ b.state = n.state
        /\ b.ppid = n.ppid /\ n.cpid \in {emptyUUID, b.cpid} /\ SameAgreement(n, b)
        /\ b.initial = n.initial /\ b.autoAccept = n.autoAccept
    BY Backfilled
  <1> HIDE DEF b
  <1>3. CASE m.type = "request"
    <2>1. OfferedRecv(n, m) = verifyAndTransform(b, m, m.callback, "REQUESTED")
      BY <1>3 DEF OfferedRecv, b
    <2>2. s = "provider"
      BY <1>1, <1>3 DEF TypesFrom, Peer
    <2>3. /\ r \in CopiesOver(s, I) /\ r.id = b.id /\ r.state = "REQUESTED"
          /\ "REQUESTED" \in validTransitions[b.state]
          /\ r.ppid = b.ppid /\ r.cpid = b.cpid /\ SameAgreement(b, r)
          /\ r.initial = b.initial /\ r.autoAccept = b.autoAccept
      BY <1>1, <1>2, <2>1, Verified DEF States
    <2> QED
      BY <1>2, <1>3, <2>2, <2>3
      DEF Received, AgreementReceived, KeepsPIDs, ReceivedBy, SameAgreement
  <1>4. CASE m.type = "event" /\ m.event = "ACCEPTED"
    <2>1. OfferedRecv(n, m) = verifyAndTransform(n, m, n.callback, "ACCEPTED")
      BY <1>4 DEF OfferedRecv
    <2>2. "ACCEPTED" \in ReceivedBy(s)
      BY <1>1, <1>4 DEF EventsFrom, Peer, ReceivedBy
    <2> QED
      BY <1>1, <1>4, <2>1, <2>2, PlainReceived
  <1>5. CASE m.type = "termination"
    <2>1. OfferedRecv(n, m) = verifyAndTransform(n, m, n.callback, "TERMINATED")
      BY <1>5 DEF OfferedRecv, processTermination
    <2>2. "TERMINATED" \in ReceivedBy(s)
      BY DEF ReceivedBy
    <2> QED
      BY <1>1, <1>5, <2>1, <2>2, PlainReceived
  <1>6. CASE m.type \notin {"request", "termination"} /\ ~(m.type = "event" /\ m.event = "ACCEPTED")
    BY <1>6 DEF OfferedRecv, Reject
  <1> QED
    BY <1>3, <1>4, <1>5, <1>6

LEMMA AcceptedReceived ==
  ASSUME NEW s \in Roles, NEW I,
         NEW n \in CopiesOver(s, I), n.state = "ACCEPTED",
         NEW m \in MessagesOver(Peer(s), I), AcceptedRecv(n, m).ok
  PROVE  LET r == AcceptedRecv(n, m).neg IN
         Received(s, I, n, m, r) /\ KeepsPIDs(n, r) /\ r.initial = n.initial
  <1> DEFINE a == SetAgreement(n, m.agreement)
             r == AcceptedRecv(n, m).neg
  <1>1. /\ m.type \in TypesFrom(Peer(s)) /\ s \in {"consumer", "provider"}
        /\ m.agreement \in I /\ m.callback \in Bases /\ n.callback \in Bases
    BY DEF MessagesOver, Roles, CopiesOver
  <1>2. /\ a \in CopiesOver(s, I) /\ a.id = n.id /\ a.state = n.state
        /\ a.ppid = n.ppid /\ a.cpid = n.cpid /\ a.agreement = m.agreement /\ a.newAgreement
        /\ a.initial = n.initial /\ a.autoAccept = n.autoAccept
    BY <1>1, AgreementSet
  <1> HIDE DEF a
  <1>3. CASE m.type = "agreement"
    <2>1. AcceptedRecv(n, m) = verifyAndTransform(a, m, m.callback, "AGREED")
      BY <1>3 DEF AcceptedRecv, a
    <2>2. s = "consumer"
      BY <1>1, <1>3 DEF TypesFrom, Peer
    <2>3. /\ r \in CopiesOver(s, I) /\ r.id = a.id /\ r.state = "AGREED"
          /\ "AGREED" \in validTransitions[a.state]
          /\ r.ppid = a.ppid /\ r.cpid = a.cpid /\ SameAgreement(a, r)
          /\ r.initial = a.initial /\ r.autoAccept = a.autoAccept
      BY <1>1, <1>2, <2>1, Verified DEF States
    <2> QED
      BY <1>2, <1>3, <2>2, <2>3
      DEF Received, AgreementReceived, KeepsPIDs, ReceivedBy, SameAgreement
  <1>4. CASE m.type = "termination"
    <2>1. AcceptedRecv(n, m) = verifyAndTransform(n, m, n.callback, "TERMINATED")
      BY <1>4 DEF AcceptedRecv, processTermination
    <2>2. "TERMINATED" \in ReceivedBy(s)
      BY DEF ReceivedBy
    <2> QED
      BY <1>1, <1>4, <2>1, <2>2, PlainReceived
  <1>5. CASE m.type \notin {"agreement", "termination"}
    BY <1>5 DEF AcceptedRecv, Reject
  <1> QED
    BY <1>3, <1>4, <1>5

LEMMA AgreedReceived ==
  ASSUME NEW s \in Roles, NEW I,
         NEW n \in CopiesOver(s, I), n.state = "AGREED",
         NEW m \in MessagesOver(Peer(s), I), AgreedRecv(n, m).ok
  PROVE  LET r == AgreedRecv(n, m).neg IN
         Received(s, I, n, m, r) /\ KeepsPIDs(n, r) /\ r.initial = n.initial
  <1>1. /\ m.type \in TypesFrom(Peer(s)) /\ s \in {"consumer", "provider"} /\ n.callback \in Bases
    BY DEF MessagesOver, Roles, CopiesOver
  <1>2. CASE m.type = "verification"
    <2>1. AgreedRecv(n, m) = verifyAndTransform(n, m, n.callback, "VERIFIED")
      BY <1>2 DEF AgreedRecv
    <2>2. "VERIFIED" \in ReceivedBy(s)
      BY <1>1, <1>2 DEF TypesFrom, Peer, ReceivedBy
    <2> QED
      BY <1>1, <1>2, <2>1, <2>2, PlainReceived
  <1>3. CASE m.type = "termination"
    <2>1. AgreedRecv(n, m) = verifyAndTransform(n, m, n.callback, "TERMINATED")
      BY <1>3 DEF AgreedRecv, processTermination
    <2>2. "TERMINATED" \in ReceivedBy(s)
      BY DEF ReceivedBy
    <2> QED
      BY <1>1, <1>3, <2>1, <2>2, PlainReceived
  <1>4. CASE m.type \notin {"verification", "termination"}
    BY <1>4 DEF AgreedRecv, Reject
  <1> QED
    BY <1>2, <1>3, <1>4

LEMMA VerifiedReceived ==
  ASSUME NEW s \in Roles, NEW I,
         NEW n \in CopiesOver(s, I), n.state = "VERIFIED",
         NEW m \in MessagesOver(Peer(s), I), VerifiedRecv(n, m).ok
  PROVE  LET r == VerifiedRecv(n, m).neg IN
         Received(s, I, n, m, r) /\ KeepsPIDs(n, r) /\ r.initial = n.initial
  <1>1. /\ m.event \in EventsFrom(Peer(s)) /\ s \in {"consumer", "provider"} /\ n.callback \in Bases
    BY DEF MessagesOver, Roles, CopiesOver
  <1>2. CASE m.type = "event" /\ m.event = "FINALIZED"
    <2>1. VerifiedRecv(n, m) = verifyAndTransform(n, m, n.callback, "FINALIZED")
      BY <1>2 DEF VerifiedRecv
    <2>2. "FINALIZED" \in ReceivedBy(s)
      BY <1>1, <1>2 DEF EventsFrom, Peer, ReceivedBy
    <2> QED
      BY <1>1, <1>2, <2>1, <2>2, PlainReceived
  <1>3. CASE m.type = "termination"
    <2>1. VerifiedRecv(n, m) = verifyAndTransform(n, m, n.callback, "TERMINATED")
      BY <1>3 DEF VerifiedRecv, processTermination
    <2>2. "TERMINATED" \in ReceivedBy(s)
      BY DEF ReceivedBy
    <2> QED
      BY <1>1, <1>3, <2>1, <2>2, PlainReceived
  <1>4. CASE m.type # "termination" /\ ~(m.type = "event" /\ m.event = "FINALIZED")
    BY <1>4 DEF VerifiedRecv, Reject
  <1> QED
    BY <1>2, <1>3, <1>4

\* Every message that Recv accepts moves the negotiation along the table, to
\* a state that is its connector's to receive, and only in INITIAL replaces a
\* PID that was known.
LEMMA RecvMoves ==
  ASSUME NEW s \in Roles, NEW I, emptyUUID \in I, NEW fresh \in I \ {emptyUUID}, NEW found,
         NEW n \in CopiesOver(s, I), NEW m \in MessagesOver(Peer(s), I),
         Recv(n, m, fresh, found).ok
  PROVE  LET r == Recv(n, m, fresh, found).neg IN
         /\ Received(s, I, n, m, r)
         /\ IF n.state = "INITIAL"
              THEN /\ m.type = IF s = "provider" THEN "request" ELSE "offer"
                   /\ r.initial /\ r.cpid = n.cpid
                   /\ r.ppid = IF s = "provider" THEN fresh ELSE n.ppid
              ELSE KeepsPIDs(n, r) /\ r.initial = n.initial
  <1>1. CASE n.state = "INITIAL"
    <2>1. Recv(n, m, fresh, found) = InitialRecv(n, m, fresh, found)
      BY <1>1 DEF Recv
    <2> QED
      BY <1>1, <2>1, InitialReceived
  <1>2. CASE n.state = "REQUESTED"
    <2>1. Recv(n, m, fresh, found) = RequestedRecv(n, m)
      BY <1>2 DEF Recv
    <2> QED
      BY <1>2, <2>1, RequestedReceived
  <1>3. CASE n.state = "OFFERED"
    <2>1. Recv(n, m, fresh, found) = OfferedRecv(n, m)
      BY <1>3 DEF Recv
    <2> QED
      BY <1>3, <2>1, OfferedReceived
  <1>4. CASE n.state = "ACCEPTED"
    <2>1. Recv(n, m, fresh, found) = AcceptedRecv(n, m)
      BY <1>4 DEF Recv
    <2> QED
      BY <1>4, <2>1, AcceptedReceived
  <1>5. CASE n.state = "AGREED"
    <2>1. Recv(n, m, fresh, found) = AgreedRecv(n, m)
      BY <1>5 DEF Recv
    <2> QED
      BY <1>5, <2>1, AgreedReceived
  <1>6. CASE n.state = "VERIFIED"
    <2>1. Recv(n, m, fresh, found) = VerifiedRecv(n, m)
      BY <1>6 DEF Recv
    <2> QED
      BY <1>6, <2>1, VerifiedReceived
  <1>7. CASE n.state \notin {"INITIAL", "REQUESTED", "OFFERED", "ACCEPTED", "AGREED", "VERIFIED"}
    BY <1>7 DEF Recv, Reject
  <1> QED
    BY <1>1, <1>2, <1>3, <1>4, <1>5, <1>6, <1>7

\* The message names the state that is reached and, but for the one that made
\* the negotiation, both PIDs; offers, requests and agreements set the callback.
RecvAs(n, m, r) ==
  /\ r.self = n.self /\ r.state = TargetOf(m)
  /\ r.callback = IF n.state # "INITIAL" /\ m.type \in {"request", "offer", "agreement"}
                    THEN m.callback ELSE n.callback
  /\ n.state # "INITIAL" => m.ppid = r.ppid /\ m.cpid = r.cpid

LEMMA VerifiedAs ==
  ASSUME NEW s \in Roles, NEW I, NEW n \in CopiesOver(s, I), NEW m, NEW callback, NEW target,
         verifyAndTransform(n, m, callback, target).ok
  PROVE  LET r == verifyAndTransform(n, m, callback, target).neg IN
         /\ r.self = n.self /\ r.callback = callback /\ r.state = target
         /\ m.ppid = r.ppid /\ m.cpid = r.cpid
  BY DEF verifyAndTransform, Accept, Reject, SetState, CopiesOver

LEMMA CopiesKept ==
  ASSUME NEW s \in Roles, NEW I, emptyUUID \in I, NEW n \in CopiesOver(s, I),
         NEW m \in MessagesOver(Peer(s), I)
  PROVE  /\ BackfillProvider(n, m) \in CopiesOver(s, I) /\ BackfillProvider(n, m).self = n.self
         /\ BackfillConsumer(n, m) \in CopiesOver(s, I) /\ BackfillConsumer(n, m).self = n.self
         /\ LET r == SetAgreement(BackfillProvider(n, m), m.agreement) IN
            r \in CopiesOver(s, I) /\ r.self = n.self
         /\ LET r == SetAgreement(n, m.agreement) IN r \in CopiesOver(s, I) /\ r.self = n.self
  <1>1. BackfillProvider(n, m) \in CopiesOver(s, I) /\ BackfillConsumer(n, m) \in CopiesOver(s, I)
    BY Backfilled
  <1>2. BackfillProvider(n, m).self = n.self /\ BackfillConsumer(n, m).self = n.self
    BY DEF BackfillProvider, BackfillConsumer, CopiesOver
  <1>3. \A x \in CopiesOver(s, I) :
          SetAgreement(x, m.agreement) \in CopiesOver(s, I) /\ SetAgreement(x, m.agreement).self = x.self
    BY DEF SetAgreement, CopiesOver, MessagesOver
  <1> QED
    BY <1>1, <1>2, <1>3

LEMMA RecvExactly ==
  ASSUME NEW s \in Roles, NEW I, emptyUUID \in I, NEW fresh, NEW found,
         NEW n \in CopiesOver(s, I), NEW m \in MessagesOver(Peer(s), I),
         Recv(n, m, fresh, found).ok
  PROVE  RecvAs(n, m, Recv(n, m, fresh, found).neg)
  <1> DEFINE R == Recv(n, m, fresh, found)
  <1>1. CASE n.state = "INITIAL"
    <2>1. R = InitialRecv(n, m, fresh, found)
      BY <1>1 DEF Recv
    <2>2. R.neg.self = n.self /\ R.neg.callback = n.callback /\ R.neg.state = TargetOf(m)
      BY <2>1 DEF InitialRecv, processContractOffer, processContractRequest, Accept, Reject,
                  SetState, CopiesOver, TargetOf
    <2> QED
      BY <1>1, <2>2 DEF RecvAs
  <1>2. CASE n.state = "REQUESTED"
    <2>1. R = RequestedRecv(n, m)
      BY <1>2 DEF Recv
    <2>2. CASE m.type = "offer"
      <3>1. R = verifyAndTransform(BackfillProvider(n, m), m, m.callback, "OFFERED")
        BY <2>1, <2>2 DEF RequestedRecv
      <3> QED
        BY <1>2, <2>2, <3>1, CopiesKept, VerifiedAs DEF RecvAs, TargetOf
    <2>3. CASE m.type = "agreement"
      <3>1. R = verifyAndTransform(SetAgreement(BackfillProvider(n, m), m.agreement), m,
                                   m.callback, "AGREED")
        BY <2>1, <2>3 DEF RequestedRecv
      <3> QED
        BY <1>2, <2>3, <3>1, CopiesKept, VerifiedAs DEF RecvAs, TargetOf
    <2>4. CASE m.type = "termination"
      <3>1. R = verifyAndTransform(n, m, n.callback, "TERMINATED")
        BY <2>1, <2>4 DEF RequestedRecv, processTermination
      <3> QED
        BY <1>2, <2>4, <3>1, VerifiedAs DEF RecvAs, TargetOf
    <2> QED
      BY <2>1, <2>2, <2>3, <2>4 DEF RequestedRecv, Reject
  <1>3. CASE n.state = "OFFERED"
    <2>1. R = OfferedRecv(n, m)
      BY <1>3 DEF Recv
    <2>2. CASE m.type = "request"
      <3>1. R = verifyAndTransform(BackfillConsumer(n, m), m, m.callback, "REQUESTED")
        BY <2>1, <2>2 DEF OfferedRecv
      <3> QED
        BY <1>3, <2>2, <3>1, CopiesKept, VerifiedAs DEF RecvAs, TargetOf
    <2>3. CASE m.type = "event" /\ m.event = "ACCEPTED"
      <3>1. R = verifyAndTransform(n, m, n.callback, "ACCEPTED")
        BY <2>1, <2>3 DEF OfferedRecv
      <3> QED
        BY <1>3, <2>3, <3>1, VerifiedAs DEF RecvAs, TargetOf
    <2>4. CASE m.type = "termination"
      <3>1. R = verifyAndTransform(n, m, n.callback, "TERMINATED")
        BY <2>1, <2>4 DEF OfferedRecv, processTermination
      <3> QED
        BY <1>3, <2>4, <3>1, VerifiedAs DEF RecvAs, TargetOf
    <2> QED
      BY <2>1, <2>2, <2>3, <2>4 DEF OfferedRecv, Reject
  <1>4. CASE n.state = "ACCEPTED"
    <2>1. R = AcceptedRecv(n, m)
      BY <1>4 DEF Recv
    <2>2. CASE m.type = "agreement"
      <3>1. R = verifyAndTransform(SetAgreement(n, m.agreement), m, m.callback, "AGREED")
        BY <2>1, <2>2 DEF AcceptedRecv
      <3> QED
        BY <1>4, <2>2, <3>1, CopiesKept, VerifiedAs DEF RecvAs, TargetOf
    <2>3. CASE m.type = "termination"
      <3>1. R = verifyAndTransform(n, m, n.callback, "TERMINATED")
        BY <2>1, <2>3 DEF AcceptedRecv, processTermination
      <3> QED
        BY <1>4, <2>3, <3>1, VerifiedAs DEF RecvAs, TargetOf
    <2> QED
      BY <2>1, <2>2, <2>3 DEF AcceptedRecv, Reject
  <1>5. CASE n.state = "AGREED"
    <2>1. R = AgreedRecv(n, m)
      BY <1>5 DEF Recv
    <2>2. CASE m.type = "verification"
      <3>1. R = verifyAndTransform(n, m, n.callback, "VERIFIED")
        BY <2>1, <2>2 DEF AgreedRecv
      <3> QED
        BY <1>5, <2>2, <3>1, VerifiedAs DEF RecvAs, TargetOf
    <2>3. CASE m.type = "termination"
      <3>1. R = verifyAndTransform(n, m, n.callback, "TERMINATED")
        BY <2>1, <2>3 DEF AgreedRecv, processTermination
      <3> QED
        BY <1>5, <2>3, <3>1, VerifiedAs DEF RecvAs, TargetOf
    <2> QED
      BY <2>1, <2>2, <2>3 DEF AgreedRecv, Reject
  <1>6. CASE n.state = "VERIFIED"
    <2>1. R = VerifiedRecv(n, m)
      BY <1>6 DEF Recv
    <2>2. CASE m.type = "event" /\ m.event = "FINALIZED"
      <3>1. R = verifyAndTransform(n, m, n.callback, "FINALIZED")
        BY <2>1, <2>2 DEF VerifiedRecv
      <3> QED
        BY <1>6, <2>2, <3>1, VerifiedAs DEF RecvAs, TargetOf
    <2>3. CASE m.type = "termination"
      <3>1. R = verifyAndTransform(n, m, n.callback, "TERMINATED")
        BY <2>1, <2>3 DEF VerifiedRecv, processTermination
      <3> QED
        BY <1>6, <2>3, <3>1, VerifiedAs DEF RecvAs, TargetOf
    <2> QED
      BY <2>1, <2>2, <2>3 DEF VerifiedRecv, Reject
  <1>7. CASE n.state \notin {"INITIAL", "REQUESTED", "OFFERED", "ACCEPTED", "AGREED", "VERIFIED"}
    BY <1>7 DEF Recv, Reject
  <1> QED
    BY <1>1, <1>2, <1>3, <1>4, <1>5, <1>6, <1>7

-----------------------------------------------------------------------------
(* Sending                                                                 *)

\* An entry that connector s makes of its negotiation n.
EntryOf(s, n, e) ==
  /\ e \in EntriesOver(s, IDsOf(n))
  /\ e.entityID = LocalPID(n) /\ e.pid = RemotePID(n) /\ e.base = n.callback
  /\ e.target = TargetOf(e.msg)
  /\ e.msg.ppid = n.ppid /\ e.msg.cpid = n.cpid /\ e.msg.callback = n.self
  /\ e.msg.agreement = IF e.msg.type = "agreement" THEN n.agreement ELSE emptyUUID

\* The entry of a message is about the negotiation it was made of.
LEMMA EntryMade ==
  ASSUME NEW s \in Roles, NEW I, NEW n \in CopiesOver(s, I), NEW type \in TypesFrom(s),
         NEW event \in EventsFrom(s), NEW target \in States, NEW pid,
         pid = RemotePID(n),
         target = IF type = "event" THEN event
                  ELSE [ request |-> "REQUESTED", offer |-> "OFFERED", agreement |-> "AGREED",
                         verification |-> "VERIFIED", termination |-> "TERMINATED" ][type]
  PROVE  LET e == Entry(n, pid, type, event, target) IN
         EntryOf(s, n, e) /\ e.target = target /\ e.msg.type = type /\ e.msg.event = event
  <1> DEFINE m == Message(n, type, event)
             e == Entry(n, pid, type, event, target)
  <1>1. /\ m \in MessagesOver(s, IDsOf(n)) /\ m.type = type /\ m.event = event
        /\ m.ppid = n.ppid /\ m.cpid = n.cpid /\ m.callback = n.self
        /\ m.agreement = IF type = "agreement" THEN n.agreement ELSE emptyUUID
    BY DEF Message, MessagesOver, IDsOf, CopiesOver
  <1> HIDE DEF m
  <1>2. pid \in IDsOf(n) /\ LocalPID(n) \in IDsOf(n) /\ n.callback \in Bases
    BY DEF RemotePID, LocalPID, IDsOf, CopiesOver
  <1>3. e = [ entityID |-> LocalPID(n), target |-> target, base |-> n.callback,
              pid |-> pid, msg |-> m ]
    BY DEF Entry, m
  <1>4. e \in EntriesOver(s, IDsOf(n))
    BY <1>1, <1>2, <1>3 DEF EntriesOver
  <1>5. target = TargetOf(m)
    BY <1>1 DEF TargetOf
  <1> QED
    BY <1>1, <1>3, <1>4, <1>5 DEF EntryOf

\* What the flag says is answered: a connector counters the message that began
\* the negotiation, and accepts a later one.
SentAs(n, e) ==
  /\ e.msg.type # "termination"
  /\ n.state = "REQUESTED" => e.target = IF n.initial THEN "OFFERED" ELSE "AGREED"
  /\ n.state = "OFFERED" => e.target = IF n.initial THEN "REQUESTED" ELSE "ACCEPTED"

\* What connector s may send of its negotiation n: either nothing, or one
\* message that the table allows, with a new agreement if it is one.
Sent(s, n, fresh, out) ==
  \/ out.neg = n /\ out.entries = <<>>
  \/ \E e : /\ out.entries = <<e>> /\ EntryOf(s, out.neg, e)
            /\ e.target \in validTransitions[n.state] /\ SentAs(n, e)
            /\ out.neg.agreement = IF e.msg.type = "agreement" THEN fresh ELSE n.agreement
            /\ out.neg.newAgreement = (n.newAgreement \/ e.msg.type = "agreement")

\* What Send leaves alone.
SameButAgreement(n, r) ==
  /\ r.id = n.id /\ r.state = n.state /\ r.ppid = n.ppid /\ r.cpid = n.cpid
  /\ r.autoAccept = n.autoAccept /\ r.callback = n.callback /\ r.self = n.self

LEMMA FlagCleared ==
  ASSUME NEW s \in Roles, NEW I, NEW n \in CopiesOver(s, I)
  PROVE  LET r == [n EXCEPT !.initial = FALSE] IN
         r \in CopiesOver(s, I) /\ SameButAgreement(n, r) /\ SameAgreement(n, r)
  BY DEF CopiesOver, SameButAgreement, SameAgreement

\* A message without an agreement, of the negotiation or of a copy that
\* differs in the initial flag.
LEMMA PlainSent ==
  ASSUME NEW s \in Roles, NEW I, NEW n \in CopiesOver(s, I), NEW r \in CopiesOver(s, I),
         SameButAgreement(n, r), SameAgreement(n, r), NEW fresh,
         NEW type \in TypesFrom(s) \ {"agreement", "termination"},
         NEW event \in EventsFrom(s), NEW target \in validTransitions[n.state], NEW pid,
         pid = RemotePID(r),
         target = IF type = "event" THEN event
                  ELSE [ request |-> "REQUESTED", offer |-> "OFFERED", agreement |-> "AGREED",
                         verification |-> "VERIFIED", termination |-> "TERMINATED" ][type],
         n.state = "REQUESTED" => target = IF n.initial THEN "OFFERED" ELSE "AGREED",
         n.state = "OFFERED" => target = IF n.initial THEN "REQUESTED" ELSE "ACCEPTED",
         NEW out, out = Sends(r, Entry(r, pid, type, event, target))
  PROVE  out.neg \in CopiesOver(s, I) /\ SameButAgreement(n, out.neg) /\ Sent(s, n, fresh, out)
  <1> DEFINE e == Entry(r, pid, type, event, target)
  <1>1. target \in States
    BY TransitionsOfStates DEF CopiesOver
  <1>2. EntryOf(s, r, e) /\ e.target = target /\ e.msg.type = type
    BY <1>1, EntryMade
  <1> HIDE DEF e
  <1>3. out.neg = r /\ out.entries = <<e>>
    BY DEF Sends, e
  <1>4. (r.newAgreement = (n.newAgreement \/ e.msg.type = "agreement"))
    BY <1>2 DEF SameAgreement, CopiesOver
  <1>5. SentAs(n, e)
    BY <1>2 DEF SentAs
  <1>6. Sent(s, n, fresh, out)
    BY <1>2, <1>3, <1>4, <1>5 DEF Sent, SameAgreement
  <1> QED
    BY <1>3, <1>6

LEMMA AgreementSent ==
  ASSUME NEW I, NEW n \in CopiesOver("provider", I), NEW fresh \in I,
         n.state \in {"REQUESTED", "ACCEPTED"}, n.state = "REQUESTED" => ~n.initial,
         NEW out, out = sendContractAgreement(n, fresh)
  PROVE  /\ out.neg \in CopiesOver("provider", I) /\ SameButAgreement(n, out.neg)
         /\ Sent("provider", n, fresh, out)
  <1> DEFINE r == SetAgreement(n, fresh)
             e == Entry(r, r.cpid, "agreement", "none", "AGREED")
  <1>1. "provider" \in Roles
    BY DEF Roles
  <1>2. /\ r \in CopiesOver("provider", I) /\ r.agreement = fresh /\ r.newAgreement
        /\ SameButAgreement(n, r)
    BY <1>1, AgreementSet DEF SameButAgreement, SetAgreement, CopiesOver
  <1>3. "agreement" \in TypesFrom("provider") /\ "none" \in EventsFrom("provider") /\ "AGREED" \in States
    BY DEF TypesFrom, EventsFrom, States
  <1>4. out = Sends(r, e)
    BY DEF sendContractAgreement
  <1>5. r.cpid = RemotePID(r)
    BY <1>2 DEF RemotePID, CopiesOver
  <1> HIDE DEF r
  <1>6. EntryOf("provider", r, e) /\ e.target = "AGREED" /\ e.msg.type = "agreement"
    BY <1>1, <1>2, <1>3, <1>5, EntryMade
  <1> HIDE DEF e
  <1>7. out.neg = r /\ out.entries = <<e>>
    BY <1>4 DEF Sends
  <1>8. "AGREED" \in validTransitions[n.state]
    BY DEF validTransitions
  <1>9. Sent("provider", n, fresh, out)
    <2>1. SentAs(n, e)
      BY <1>6 DEF SentAs
    <2> QED
      BY <1>2, <1>6, <1>7, <1>8, <2>1 DEF Sent
  <1> QED
    BY <1>2, <1>7, <1>9

\* Send leaves the negotiation where it is: it draws an agreement, clears the
\* initial flag and makes one entry, in line with the table.
LEMMA SendMoves ==
  ASSUME NEW s \in Roles, NEW I, NEW fresh \in I, NEW found,
         NEW n \in CopiesOver(s, I), n.state \in SendsFrom(s), Send(n, fresh, found).ok
  PROVE  LET out == Send(n, fresh, found) IN
         /\ out.neg \in CopiesOver(s, I) /\ SameButAgreement(n, out.neg) /\ Sent(s, n, fresh, out)
         /\ n.state = "INITIAL" => out.neg = n
  <1> DEFINE out == Send(n, fresh, found)
             r == [n EXCEPT !.initial = FALSE]
  <1>1. /\ SameButAgreement(n, n) /\ SameAgreement(n, n) /\ s \in {"consumer", "provider"}
        /\ n.role = s /\ n.initial \in BOOLEAN
    BY DEF SameButAgreement, SameAgreement, Roles, CopiesOver
  <1>2. r \in CopiesOver(s, I) /\ SameButAgreement(n, r) /\ SameAgreement(n, r)
    BY FlagCleared
  <1>3. /\ s = "consumer" => RemotePID(r) = r.ppid /\ RemotePID(n) = n.ppid
        /\ s = "provider" => RemotePID(r) = r.cpid /\ RemotePID(n) = n.cpid
    BY <1>2 DEF RemotePID, CopiesOver
  <1>4. CASE n.state = "INITIAL"
    <2>1. out = InitialSend(n, found)
      BY <1>4 DEF Send
    <2>2. CASE s = "consumer"
      <3>1. out = Sends(n, Entry(n, n.ppid, "request", "none", "REQUESTED"))
        BY <2>1, <2>2 DEF InitialSend, SendFails, sendContractRequest, CopiesOver, CpidsOver
      <3>2. /\ "request" \in TypesFrom(s) \ {"agreement", "termination"} /\ "none" \in EventsFrom(s)
            /\ "REQUESTED" \in validTransitions[n.state]
        BY <1>4, <2>2 DEF TypesFrom, EventsFrom, validTransitions
      <3>3. out.neg = n
        BY <3>1 DEF Sends
      <3>4. Sent(s, n, fresh, out)
        BY <1>1, <1>3, <1>4, <2>2, <3>1, <3>2, PlainSent
      <3> QED
        BY <1>1, <3>3, <3>4
    <2>3. CASE s = "provider"
      <3>1. out = Sends(n, Entry(n, n.cpid, "offer", "none", "OFFERED"))
        BY <2>1, <2>3 DEF InitialSend, SendFails, sendContractOffer, CopiesOver, PpidsOver
      <3>2. /\ "offer" \in TypesFrom(s) \ {"agreement", "termination"} /\ "none" \in EventsFrom(s)
            /\ "OFFERED" \in validTransitions[n.state]
        BY <1>4, <2>3 DEF TypesFrom, EventsFrom, validTransitions
      <3>3. out.neg = n
        BY <3>1 DEF Sends
      <3>4. Sent(s, n, fresh, out)
        BY <1>1, <1>3, <1>4, <2>3, <3>1, <3>2, PlainSent
      <3> QED
        BY <1>1, <3>3, <3>4
    <2> QED
      BY <1>1, <2>2, <2>3
  <1>5. CASE n.state = "REQUESTED" /\ n.initial
    <2>1. s = "provider"
      BY <1>1, <1>5 DEF SendsFrom, ReceivedBy
    <2>2. out = Sends(r, Entry(r, r.cpid, "offer", "none", "OFFERED"))
      BY <1>5 DEF Send, sendContractOffer
    <2>3. /\ "offer" \in TypesFrom(s) \ {"agreement", "termination"} /\ "none" \in EventsFrom(s)
          /\ "OFFERED" \in validTransitions[n.state]
      BY <1>5, <2>1 DEF TypesFrom, EventsFrom, validTransitions
    <2> HIDE DEF r
    <2> QED
      BY <1>2, <1>3, <1>5, <2>1, <2>2, <2>3, PlainSent
  <1>6. CASE n.state = "OFFERED" /\ n.initial
    <2>1. s = "consumer"
      BY <1>1, <1>6 DEF SendsFrom, ReceivedBy
    <2>2. out = Sends(r, Entry(r, r.ppid, "request", "none", "REQUESTED"))
      BY <1>6 DEF Send, sendContractRequest
    <2>3. /\ "request" \in TypesFrom(s) \ {"agreement", "termination"} /\ "none" \in EventsFrom(s)
          /\ "REQUESTED" \in validTransitions[n.state]
      BY <1>6, <2>1 DEF TypesFrom, EventsFrom, validTransitions
    <2> HIDE DEF r
    <2> QED
      BY <1>2, <1>3, <1>6, <2>1, <2>2, <2>3, PlainSent
  <1>7. CASE n.state = "OFFERED" /\ ~n.initial
    <2>1. s = "consumer"
      BY <1>1, <1>7 DEF SendsFrom, ReceivedBy
    <2>2. out = Sends(n, Entry(n, n.ppid, "event", "ACCEPTED", "ACCEPTED"))
      BY <1>7 DEF Send, sendContractEvent
    <2>3. /\ "event" \in TypesFrom(s) \ {"agreement", "termination"} /\ "ACCEPTED" \in EventsFrom(s)
          /\ "ACCEPTED" \in validTransitions[n.state]
      BY <1>7, <2>1 DEF TypesFrom, EventsFrom, validTransitions
    <2> QED
      BY <1>1, <1>3, <1>7, <2>1, <2>2, <2>3, PlainSent
  <1>8. CASE (n.state = "REQUESTED" /\ ~n.initial) \/ n.state = "ACCEPTED"
    <2>1. s = "provider"
      BY <1>1, <1>8 DEF SendsFrom, ReceivedBy
    <2>2. out = sendContractAgreement(n, fresh)
      BY <1>8 DEF Send
    <2> QED
      BY <1>8, <2>1, <2>2, AgreementSent
  <1>9. CASE n.state = "AGREED"
    <2>1. s = "consumer"
      BY <1>1, <1>9 DEF SendsFrom, ReceivedBy
    <2>2. out = Sends(n, Entry(n, n.ppid, "verification", "none", "VERIFIED"))
      BY <1>9 DEF Send, sendContractVerification
    <2>3. /\ "verification" \in TypesFrom(s) \ {"agreement", "termination"} /\ "none" \in EventsFrom(s)
          /\ "VERIFIED" \in validTransitions[n.state]
      BY <1>9, <2>1 DEF TypesFrom, EventsFrom, validTransitions
    <2> QED
      BY <1>1, <1>3, <1>9, <2>1, <2>2, <2>3, PlainSent
  <1>10. CASE n.state = "VERIFIED"
    <2>1. s = "provider"
      BY <1>1, <1>10 DEF SendsFrom, ReceivedBy
    <2>2. out = Sends(n, Entry(n, n.cpid, "event", "FINALIZED", "FINALIZED"))
      BY <1>10 DEF Send, sendContractEvent
    <2>3. /\ "event" \in TypesFrom(s) \ {"agreement", "termination"} /\ "FINALIZED" \in EventsFrom(s)
          /\ "FINALIZED" \in validTransitions[n.state]
      BY <1>10, <2>1 DEF TypesFrom, EventsFrom, validTransitions
    <2> QED
      BY <1>1, <1>3, <1>10, <2>1, <2>2, <2>3, PlainSent
  <1>11. CASE n.state \in {"FINALIZED", "TERMINATED"}
    <2>1. out = SendsNothing(n)
      BY <1>11 DEF Send
    <2>2. out.neg = n /\ out.entries = <<>>
      BY <2>1 DEF SendsNothing
    <2> QED
      BY <1>1, <1>11, <2>2 DEF Sent
  <1> QED
    BY <1>1, <1>4, <1>5, <1>6, <1>7, <1>8, <1>9, <1>10, <1>11 DEF SendsFrom, ReceivedBy

==============================================================================
