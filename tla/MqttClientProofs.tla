--------------------------- MODULE MqttClientProofs ---------------------------
(***************************************************************************)
(* Theorems of MqttClient, for every set of messages, every choice of      *)
(* their identifiers and every bound on faults and packets in flight.      *)
(***************************************************************************)
EXTENDS MqttClient, SequenceTheorems, WellFoundedInduction, TLAPS

-------------------------------------------------------------------------------
(* What the operations of the outbox do to any list of items.                *)

LessThan == {ss \in Nat \X Nat : ss[1] < ss[2]}

LEMMA LessThanWellFounded == IsWellFoundedOn(LessThan, Nat)
  BY NatLessThanWellFounded, Zenon DEF OpToRel, LessThan

\* A set of natural numbers that is not empty has a least one.
LEMMA MinIsLeast ==
  ASSUME NEW I \in SUBSET Nat, I # {}
  PROVE  Min(I) \in I /\ \A i \in I : Min(I) <= i
  <1>1. PICK x \in I : \A y \in I : ~ (<<y, x>> \in LessThan)
    BY LessThanWellFounded, WFMin
  <1>2. ASSUME NEW a \in Nat, NEW b \in Nat, ~ (a <= b) PROVE <<b, a>> \in LessThan
    BY <1>2 DEF LessThan
  <1>3. ASSUME NEW y \in I PROVE x <= y
    BY <1>1, <1>2
  <1> QED BY <1>3 DEF Min

\* What the operations of the list that search it look for.
LEMMA FirstOf ==
  ASSUME NEW n \in Nat, NEW I \in SUBSET (1 .. n), NEW i, i = IF I # {} THEN Min(I) ELSE 0
  PROVE  /\ i \in 0 .. n
         /\ i = 0 => I = {}
         /\ i # 0 => i \in I
  <1>1. CASE I = {}
    BY <1>1
  <1>2. CASE I # {}
    <2>1. Min(I) \in I
      BY <1>2, MinIsLeast
    <2>2. i \in I
      BY <1>2, <2>1
    <2>3. i \in 1 .. n
      BY <2>2
    <2> QED BY <1>2, <2>2, <2>3
  <1> QED BY <1>1, <1>2

\* outbox_get: an item of that identifier, or 0 when there is none.
LEMMA GetFinds ==
  ASSUME NEW S, NEW box \in Seq(S), NEW id
  PROVE  /\ Get(box, id) \in 0 .. Len(box)
         /\ Get(box, id) = 0 => \A j \in DOMAIN box : box[j].id # id
         /\ Get(box, id) # 0 => Get(box, id) \in DOMAIN box /\ box[Get(box, id)].id = id
  <1> DEFINE I == {i \in 1 .. Len(box) : box[i].id = id}
  <1>1. Get(box, id) = IF I # {} THEN Min(I) ELSE 0
    BY DEF Get, SelectInSeq
  <1>2. Len(box) \in Nat /\ I \in SUBSET (1 .. Len(box)) /\ DOMAIN box = 1 .. Len(box)
    OBVIOUS
  <1> HIDE DEF I
  <1>3. /\ Get(box, id) \in 0 .. Len(box)
        /\ Get(box, id) = 0 => I = {}
        /\ Get(box, id) # 0 => Get(box, id) \in I
    BY <1>1, <1>2, FirstOf
  <1> QED BY <1>2, <1>3 DEF I

\* outbox_dequeue: an item of that pending state, or 0 when there is none.
LEMMA DequeueFinds ==
  ASSUME NEW S, NEW box \in Seq(S), NEW pending
  PROVE  /\ Dequeue(box, pending) \in 0 .. Len(box)
         /\ Dequeue(box, pending) = 0 => \A j \in DOMAIN box : box[j].pending # pending
         /\ Dequeue(box, pending) # 0 =>
              Dequeue(box, pending) \in DOMAIN box /\ box[Dequeue(box, pending)].pending = pending
  <1> DEFINE I == {i \in 1 .. Len(box) : box[i].pending = pending}
  <1>1. Dequeue(box, pending) = IF I # {} THEN Min(I) ELSE 0
    BY DEF Dequeue, SelectInSeq
  <1>2. Len(box) \in Nat /\ I \in SUBSET (1 .. Len(box)) /\ DOMAIN box = 1 .. Len(box)
    OBVIOUS
  <1> HIDE DEF I
  <1>3. /\ Dequeue(box, pending) \in 0 .. Len(box)
        /\ Dequeue(box, pending) = 0 => I = {}
        /\ Dequeue(box, pending) # 0 => Dequeue(box, pending) \in I
    BY <1>1, <1>2, FirstOf
  <1> QED BY <1>2, <1>3 DEF I

\* outbox_delete: an item of that identifier and type, or 0 when there is none.
LEMMA InitiatorFinds ==
  ASSUME NEW S, NEW box \in Seq(S), NEW id, NEW type
  PROVE  /\ Initiator(box, id, type) \in 0 .. Len(box)
         /\ Initiator(box, id, type) # 0 =>
              /\ Initiator(box, id, type) \in DOMAIN box
              /\ box[Initiator(box, id, type)].id = id /\ box[Initiator(box, id, type)].type = type
  <1> DEFINE I == {i \in 1 .. Len(box) : box[i].id = id /\ box[i].type = type}
  <1>1. Initiator(box, id, type) = IF I # {} THEN Min(I) ELSE 0
    BY DEF Initiator, SelectInSeq
  <1>2. Len(box) \in Nat /\ I \in SUBSET (1 .. Len(box)) /\ DOMAIN box = 1 .. Len(box)
    OBVIOUS
  <1> HIDE DEF I
  <1>3. /\ Initiator(box, id, type) \in 0 .. Len(box)
        /\ Initiator(box, id, type) # 0 => Initiator(box, id, type) \in I
    BY <1>1, <1>2, FirstOf
  <1> QED BY <1>2, <1>3 DEF I

\* outbox_enqueue: what was there stays in its place, and the item comes last.
LEMMA EnqueueAdds ==
  ASSUME NEW S, NEW box \in Seq(S), NEW m, NEW id, NEW type, NEW qos,
         [m |-> m, id |-> id, type |-> type, qos |-> qos, pending |-> "QUEUED"] \in S,
         NEW new, new = Enqueue(box, m, id, type, qos)
  PROVE  /\ new \in Seq(S) /\ Len(new) = Len(box) + 1
         /\ \A j \in 1 .. Len(box) : new[j] = box[j]
         /\ new[Len(box) + 1] = [m |-> m, id |-> id, type |-> type, qos |-> qos, pending |-> "QUEUED"]
  BY DEF Enqueue

\* outbox_delete_item: the items behind it move up.
LEMMA DeleteRemoves ==
  ASSUME NEW S, NEW box \in Seq(S), NEW i \in 1 .. Len(box)
  PROVE  /\ DeleteItem(box, i) \in Seq(S) /\ Len(DeleteItem(box, i)) = Len(box) - 1
         /\ \A j \in 1 .. Len(box) - 1 : DeleteItem(box, i)[j] = IF j < i THEN box[j] ELSE box[j + 1]
  <1> DEFINE new == DeleteItem(box, i)
             a == SubSeq(box, 1, i - 1)
             b == SubSeq(box, i + 1, Len(box))
  <1>1. a \in Seq(S) /\ b \in Seq(S)
    BY SubSeqProperties
  <1>2. Len(a) = i - 1 /\ \A j \in 1 .. i - 1 : a[j] = box[j]
    BY SubSeqProperties
  <1>3. Len(b) = Len(box) - i /\ \A j \in 1 .. Len(box) - i : b[j] = box[i + j]
    BY SubSeqProperties
  <1>4. new = a \o b
    BY DEF DeleteItem, RemoveAt
  <1> HIDE DEF new, a, b
  <1>5. /\ a \o b \in Seq(S) /\ Len(a \o b) = Len(a) + Len(b)
        /\ \A j \in 1 .. Len(a) + Len(b) : (a \o b)[j] = IF j <= Len(a) THEN a[j] ELSE b[j - Len(a)]
    BY <1>1, ConcatProperties
  <1>6. new \in Seq(S) /\ Len(new) = Len(box) - 1
    BY <1>2, <1>3, <1>4, <1>5
  <1>7. ASSUME NEW j \in 1 .. Len(box) - 1, j < i PROVE new[j] = box[j]
    BY <1>2, <1>3, <1>4, <1>5, <1>7
  <1>8. ASSUME NEW j \in 1 .. Len(box) - 1, ~ (j < i) PROVE new[j] = box[j + 1]
    <2>1. new[j] = b[j - (i - 1)]
      BY <1>2, <1>3, <1>4, <1>5, <1>8
    <2>2. j - (i - 1) \in 1 .. Len(box) - i
      BY <1>8
    <2> QED BY <1>3, <2>1, <2>2
  <1> QED BY <1>6, <1>7, <1>8 DEF new

\* The items of a list whose messages are in M and whose identifiers in I.
ItemsOver(M, I) == [m : M, id : I, type : MsgTypes, qos : 0 .. 2, pending : Pendings]

\* outbox_set_pending: no item changes but the one outbox_get finds, and that one in its
\* pending state only.
LEMMA SetPendingMarks ==
  ASSUME NEW M, NEW I, NEW box \in Seq(ItemsOver(M, I)), NEW id, NEW pending \in Pendings,
         NEW new, new = SetPending(box, id, pending)
  PROVE  /\ new \in Seq(ItemsOver(M, I)) /\ Len(new) = Len(box)
         /\ \A j \in 1 .. Len(box) :
              /\ new[j].m = box[j].m /\ new[j].id = box[j].id
              /\ new[j].type = box[j].type /\ new[j].qos = box[j].qos
              /\ new[j].pending = IF j = Get(box, id) THEN pending ELSE box[j].pending
  <1> DEFINE i == Get(box, id)
  <1>1. new = IF i = 0 THEN box ELSE [box EXCEPT ![i].pending = pending]
    BY DEF SetPending
  <1>2. i \in 0 .. Len(box)
    BY GetFinds
  <1> HIDE DEF i
  <1>3. CASE i = 0
    BY <1>1, <1>3 DEF i
  <1>4. CASE i # 0
    <2>0. box[i] \in ItemsOver(M, I)
      BY <1>2, <1>4, ElementOfSeq
    <2>1. [box[i] EXCEPT !.pending = pending] \in ItemsOver(M, I)
      BY <2>0 DEF ItemsOver
    <2>2. new = [box EXCEPT ![i] = [box[i] EXCEPT !.pending = pending]]
      BY <1>1, <1>4
    <2>3. /\ new \in Seq(ItemsOver(M, I)) /\ Len(new) = Len(box)
          /\ \A j \in 1 .. Len(box) : new[j] = IF j = i THEN [box[i] EXCEPT !.pending = pending] ELSE box[j]
      BY <1>2, <1>4, <2>1, <2>2, ExceptSeq
    <2> QED BY <1>2, <1>4, <2>0, <2>3 DEF i, ItemsOver
  <1> QED BY <1>3, <1>4

-------------------------------------------------------------------------------
(* What a step does to the messages: the steps of the client, of its callers *)
(* and of the broker fall into these kinds.                                  *)

\* To the packets under way.
Quiet    == UNCHANGED <<up, down, unreleased, inSession>>
Sent(p)  == up' = Append(up, p) /\ UNCHANGED <<down, unreleased, inSession>>
Received == down # <<>> /\ down' = Tail(down) /\ UNCHANGED <<up, unreleased, inSession>>
Lost     == /\ up' = <<>> /\ down' = <<>>
            /\ UNCHANGED <<unreleased, inSession>> \/ (unreleased' = {} /\ inSession' = {})

\* Nothing happens to a message.
Stays ==
  /\ UNCHANGED <<outbox, historyVars>>
  /\ \/ Quiet \/ Lost \/ Received
     \/ Sent(Packet("PINGREQ", 0)) \/ Sent(Packet("PUBACK", 0))
     \/ /\ \E type \in {"PUBLISH0", "PUBLISH1"} : down' = Append(down, Packet(type, 0))
        /\ UNCHANGED <<up, unreleased, inSession>>

\* A message is handed over and kept, to be written later,
Queues(m, id) ==
  /\ status[m] = "idle" /\ status' = [status EXCEPT ![m] = "kept"]
  /\ outbox' = Enqueue(outbox, m, id, Type[m], QoS[m])
  /\ Quiet \/ Lost
  /\ UNCHANGED delivered

\* or kept and written at once,
Transmits(m, id, qos) ==
  /\ status[m] = "idle" /\ status' = [status EXCEPT ![m] = "kept"]
  /\ Type[m] = "PUBLISH" => qos = QoS[m] /\ qos > 0
  /\ outbox' = SetPending(Enqueue(outbox, m, id, Type[m], qos), id, "TRANSMITTED")
  /\ Quiet \/ Sent(Carrying(m, id, FALSE))
  /\ UNCHANGED delivered

\* or written and not kept.
Throws(m, id) ==
  /\ status[m] = "idle" /\ status' = [status EXCEPT ![m] = "gone"]
  /\ Quiet \/ Lost \/ Sent(Carrying(m, id, FALSE))
  /\ UNCHANGED <<outbox, delivered>>

\* An item is deleted: it expires or was written, or its message is acknowledged.
Expires(i) ==
  /\ outbox' = DeleteItem(outbox, i)
  /\ status' = [status EXCEPT ![outbox[i].m] = "gone"]
  /\ Quiet /\ UNCHANGED delivered

Empties ==
  /\ outbox' = <<>>
  /\ status' = [m \in Msgs |-> IF status[m] = "kept" THEN "gone" ELSE status[m]]
  /\ Quiet /\ UNCHANGED delivered

Acknowledges(i) ==
  /\ Received /\ Head(down).type \in {"SUBACK", "PUBACK", "PUBCOMP"} /\ outbox[i].id = Head(down).id
  /\ outbox' = DeleteItem(outbox, i)
  /\ status' = [status EXCEPT ![outbox[i].m] = "acked"]
  /\ UNCHANGED delivered

\* A PUBREC comes, and a PUBREL goes.
Records ==
  /\ down # <<>> /\ Head(down).type = "PUBREC" /\ down' = Tail(down)
  /\ outbox' = SetPending(outbox, Head(down).id, "ACKNOWLEDGED")
  /\ up' = up \/ up' = Append(up, Packet("PUBREL", Head(down).id))
  /\ UNCHANGED <<unreleased, inSession, historyVars>>

\* The first item that is QUEUED is written,
Dispatches(i) ==
  /\ outbox[i].pending = "QUEUED" /\ Transmitted(i)
  /\ Quiet \/ Sent(Resend(i))
  /\ UNCHANGED delivered

\* and one that is not acknowledged, or not released, is written again.
Repeats(i) ==
  /\ outbox[i].pending = "TRANSMITTED" /\ Sent(Resend(i)) /\ UNCHANGED <<outbox, historyVars>>

Releases(i) ==
  /\ outbox[i].pending = "ACKNOWLEDGED" /\ Sent(Packet("PUBREL", outbox[i].id))
  /\ UNCHANGED <<outbox, historyVars>>

\* The broker takes a message, or answers a packet without one.
Kinds ==
  \/ Stays \/ Empties \/ Records \/ BrokerTakes \/ BrokerAnswers
  \/ \E m \in Msgs : \E id \in Draw[m] :
       Queues(m, id) \/ Throws(m, id) \/ \E qos \in 0 .. 2 : Transmits(m, id, qos)
  \/ \E i \in DOMAIN outbox :
       Expires(i) \/ Acknowledges(i) \/ Dispatches(i) \/ Repeats(i) \/ Releases(i)

-------------------------------------------------------------------------------
USE TypeAssumption, DrawAssumption, BoundsAssumption
USE DEF sessionVars, historyVars

\* Writing leaves the messages alone but for the packet on its way.
LEMMA WriteKinds ==
  ASSUME NEW p, WriteOrAbort(p) \/ WriteAndIgnore(p)
  PROVE  Quiet \/ Lost \/ Sent(p)
  BY DEF WriteOrAbort, WriteAndIgnore, Write, WriteFails, AbortConnection, CloseSession, Quiet, Lost, Sent

\* Every call of the API is of one of the kinds.
LEMMA CallKinds == ASSUME TypeOK, NEW m \in Msgs, Call(m) PROVE Kinds
  <1>1. CASE Publish(m)
    <2>0. QoS[m] \in 0 .. 2
      OBVIOUS
    <2>1. QoS[m] = 0 <=> ~ (QoS[m] > 0)
      BY <2>0
    <2>2. status[m] = "idle" /\ Type[m] = "PUBLISH" /\ UNCHANGED delivered
      BY <1>1 DEF Publish
    <2>3. CASE QoS[m] = 0
      <3>1. PICK id \in Draw[m] : IF state = "CONNECTED" THEN WriteOrAbort(Carrying(m, id, FALSE)) ELSE Idle
        BY <1>1, <2>1, <2>3 DEF Publish, MessageIds
      <3>2. status' = [status EXCEPT ![m] = "gone"] /\ UNCHANGED outbox
        BY <1>1, <2>1, <2>3 DEF Publish
      <3>3. Quiet \/ Lost \/ Sent(Carrying(m, id, FALSE))
        BY <3>1, WriteKinds DEF Idle, Quiet
      <3>4. Throws(m, id)
        BY <2>2, <3>2, <3>3 DEF Throws
      <3> QED BY <3>4 DEF Kinds
    <2>4. CASE QoS[m] > 0
      <3>a. PICK id \in Draw[m] : PublishKept(m, id)
        BY <1>1, <2>1, <2>4 DEF Publish, MessageIds
      <3>0. status' = [status EXCEPT ![m] = "kept"]
        BY <1>1, <2>1, <2>4 DEF Publish
      <3>1. CASE /\ outbox' = SetPending(Enqueue(outbox, m, id, Type[m], QoS[m]), id, "TRANSMITTED")
                 /\ Write(Carrying(m, id, FALSE))
        <4>1. Transmits(m, id, QoS[m])
          BY <2>2, <2>4, <3>0, <3>1 DEF Transmits, Write, Quiet, Sent
        <4> QED BY <2>0, <4>1 DEF Kinds
      <3>2. CASE /\ outbox' = Enqueue(outbox, m, id, Type[m], QoS[m])
                 /\ Idle \/ AbortConnection
        <4>1. Queues(m, id)
          BY <2>2, <3>0, <3>2 DEF Queues, Idle, AbortConnection, CloseSession, Quiet, Lost
        <4> QED BY <4>1 DEF Kinds
      <3> QED BY <3>a, <3>1, <3>2 DEF PublishKept
    <2> QED BY <2>1, <2>3, <2>4
  <1>2. CASE EnqueueMessage(m)
    <2>1. PICK id \in Draw[m] : outbox' = Enqueue(outbox, m, id, Type[m], QoS[m])
      BY <1>2 DEF EnqueueMessage, MessageIds
    <2>2. Queues(m, id)
      BY <1>2, <2>1 DEF EnqueueMessage, Queues, Idle, Quiet
    <2> QED BY <2>2 DEF Kinds
  <1>3. CASE Subscribe(m)
    <2>1. PICK id \in Draw[m], qos \in {0} \cup {QoS[n] : n \in Msgs} :
            /\ outbox' = SetPending(Enqueue(outbox, m, id, "SUBSCRIBE", qos), id, "TRANSMITTED")
            /\ WriteAndIgnore(Carrying(m, id, FALSE))
      BY <1>3 DEF Subscribe, MessageIds
    <2>2. qos \in 0 .. 2
      OBVIOUS
    <2>3. Transmits(m, id, qos)
      BY <1>3, <2>1 DEF Subscribe, Transmits, WriteAndIgnore, Write, WriteFails, Quiet, Sent
    <2> QED BY <2>2, <2>3 DEF Kinds
  <1> QED BY <1>1, <1>2, <1>3 DEF Call

\* So is every step of the task,
LEMMA LoopKinds == ASSUME TypeOK, Loop PROVE Kinds
  <1>1. CASE Lock \/ NoTransport \/ ConnectFails \/ Connects \/ ConnectedHandled \/ Reconnects \/ Connected \/ PollFails
    <2>1. Stays
      BY <1>1 DEF Lock, NoTransport, ConnectFails, Connects, ConnectedHandled, Reconnects, Connected, PollFails,
        Idle, AbortConnection, CloseSession, Stays, Quiet, Lost
    <2> QED BY <2>1 DEF Kinds
  <1>2. CASE LoopEnds
    BY <1>2 DEF LoopEnds, Kinds, Empties, Quiet
  <1>3. ASSUME NEW i \in DOMAIN outbox, Expire(i) PROVE Kinds
    <2>1. Expires(i)
      BY <1>3 DEF Expire, Expires, Quiet
    <2> QED BY <2>1 DEF Kinds
  <1> QED BY <1>1, <1>2, <1>3 DEF Loop

\* of what it does with a packet received,
LEMMA ProcessKinds == ASSUME TypeOK, Process PROVE Kinds
  <1>1. CASE NothingReceived \/ ReceiveFails \/ OnPingresp \/ OnPublish \/ HandledQos0
    <2>1. Stays
      BY <1>1 DEF NothingReceived, ReceiveFails, OnPingresp, OnPublish, HandledQos0, Receive,
        Idle, AbortConnection, CloseSession, Stays, Quiet, Lost, Received
    <2> QED BY <2>1 DEF Kinds
  <1>2. CASE HandledQos1
    <2>1. Stays
      BY <1>2 DEF HandledQos1, Write, WriteFails, AbortConnection, CloseSession, Stays, Quiet, Lost, Sent
    <2> QED BY <2>1 DEF Kinds
  <1>3. CASE OnPubrec
    <2>1. Records
      BY <1>3 DEF OnPubrec, Receive, WriteFails, Records
    <2> QED BY <2>1 DEF Kinds
  <1>4. CASE OnAcknowledgement
    <2> DEFINE i == Initiator(outbox, Head(down).id, Answered[Head(down).type])
    <2>1. Received /\ Head(down).type \in {"SUBACK", "PUBACK", "PUBCOMP"} /\ UNCHANGED delivered
      BY <1>4 DEF OnAcknowledgement, Receive, Received
    <2>2. IF i = 0 THEN UNCHANGED <<outbox, status>>
          ELSE outbox' = DeleteItem(outbox, i) /\ status' = [status EXCEPT ![outbox[i].m] = "acked"]
      BY <1>4 DEF OnAcknowledgement, RemoveInitiator
    <2>3. i # 0 => i \in DOMAIN outbox /\ outbox[i].id = Head(down).id
      BY InitiatorFinds DEF TypeOK
    <2> HIDE DEF i
    <2>4. CASE i = 0
      BY <2>1, <2>2, <2>4 DEF Kinds, Stays
    <2>5. CASE i # 0
      <3>1. Acknowledges(i)
        BY <2>1, <2>2, <2>3, <2>5 DEF Acknowledges
      <3> QED BY <2>3, <2>5, <3>1 DEF Kinds
    <2> QED BY <2>4, <2>5
  <1> QED BY <1>1, <1>2, <1>3, <1>4 DEF Process

\* (the items it sends are in the outbox, in the state it looks for)
LEMMA FirstFinds ==
  ASSUME TypeOK, NEW pending, First(pending) # 0
  PROVE  First(pending) \in DOMAIN outbox /\ outbox[First(pending)].pending = pending
  BY DequeueFinds DEF First, TypeOK

\* of its transmissions and retransmissions,
LEMMA OutgoingKinds == ASSUME TypeOK, Outgoing PROVE Kinds
  <1>1. CASE NotYetDue \/ NoRetransmit \/ NoPubrel
    <2>1. Stays
      BY <1>1 DEF NotYetDue, NoRetransmit, NoPubrel, Idle, Stays, Quiet
    <2> QED BY <2>1 DEF Kinds
  <1>2. CASE TransmitQueued
    <2> DEFINE i == First("QUEUED")
    <2>1. /\ i # 0 /\ UNCHANGED delivered
          /\ (Write(Resend(i)) /\ Transmitted(i)) \/ (AbortConnection /\ UNCHANGED <<outbox, status>>)
      BY <1>2 DEF TransmitQueued
    <2>2. i \in DOMAIN outbox /\ outbox[i].pending = "QUEUED"
      BY <2>1, FirstFinds
    <2> HIDE DEF i
    <2>3. CASE Write(Resend(i)) /\ Transmitted(i)
      <3>1. Dispatches(i)
        BY <2>1, <2>2, <2>3 DEF Dispatches, Write, Quiet, Sent
      <3> QED BY <2>2, <3>1 DEF Kinds
    <2>4. CASE AbortConnection /\ UNCHANGED <<outbox, status>>
      BY <2>1, <2>4 DEF Kinds, Stays, AbortConnection, CloseSession, Lost
    <2> QED BY <2>1, <2>3, <2>4
  <1>3. CASE Retransmit
    <2> DEFINE i == First("TRANSMITTED")
    <2>1. i # 0 /\ WriteOrAbort(Resend(i)) /\ UNCHANGED <<outbox, historyVars>>
      BY <1>3 DEF Retransmit
    <2>2. i \in DOMAIN outbox /\ outbox[i].pending = "TRANSMITTED"
      BY <2>1, FirstFinds
    <2> HIDE DEF i
    <2>3. Stays \/ Repeats(i)
      BY <2>1, <2>2, WriteKinds DEF Stays, Repeats
    <2> QED BY <2>2, <2>3 DEF Kinds
  <1>4. CASE RetransmitPubrel
    <2> DEFINE i == First("ACKNOWLEDGED")
    <2>1. i # 0 /\ WriteOrAbort(Packet("PUBREL", outbox[i].id)) /\ UNCHANGED <<outbox, historyVars>>
      BY <1>4 DEF RetransmitPubrel
    <2>2. i \in DOMAIN outbox /\ outbox[i].pending = "ACKNOWLEDGED"
      BY <2>1, FirstFinds
    <2> HIDE DEF i
    <2>3. Stays \/ Releases(i)
      BY <2>1, <2>2, WriteKinds DEF Stays, Releases
    <2> QED BY <2>2, <2>3 DEF Kinds
  <1> QED BY <1>1, <1>2, <1>3, <1>4 DEF Outgoing

\* and every other step.
LEMMA NextKinds == ASSUME TypeOK, [Next]_vars PROVE Kinds
  <1>1. CASE Keepalive
    <2>1. Stays
      BY <1>1 DEF Keepalive, NoKeepalive, Ping, NoPingresp, WriteFails, Idle, AbortConnection, CloseSession,
        Stays, Quiet, Lost, Sent
    <2> QED BY <2>1 DEF Kinds
  <1>2. CASE SessionDies \/ \E type \in {"PUBLISH0", "PUBLISH1"} : BrokerPublishes(type)
    <2>1. Stays
      BY <1>2 DEF SessionDies, BrokerPublishes, Stays, Lost
    <2> QED BY <2>1 DEF Kinds
  <1>3. CASE UNCHANGED vars
    BY <1>3 DEF vars, Kinds, Stays, Quiet
  <1> QED BY <1>1, <1>2, <1>3, CallKinds, LoopKinds, ProcessKinds, OutgoingKinds DEF Next, Kinds

-------------------------------------------------------------------------------
(* Types.                                                                    *)

\* Appending an element of S to a sequence over S gives a sequence over S.
LEMMA AppendTyped == ASSUME NEW S, NEW s \in Seq(S), NEW e \in S PROVE Append(s, e) \in Seq(S)
  OBVIOUS

\* The items of the client are items over its messages and identifiers.
LEMMA ItemsAreOver == Items = ItemsOver(Msgs, Ids)
  BY DEF Items, ItemsOver

\* An identifier drawn for a message is one of Ids.
LEMMA DrawnIds == ASSUME NEW m \in Msgs, NEW id \in Draw[m] PROVE id \in Ids
  BY DEF Ids

\* A new item has the type of an item.
LEMMA NewItem ==
  ASSUME NEW m \in Msgs, NEW id \in Draw[m], NEW qos \in 0 .. 2
  PROVE  [m |-> m, id |-> id, type |-> Type[m], qos |-> qos, pending |-> "QUEUED"] \in Items
  BY DrawnIds DEF Items, Pendings

\* Packets that are written have the type of packets.
LEMMA WrittenTyped ==
  /\ \A m \in Msgs : \A id \in Ids : \A dup \in BOOLEAN : Carrying(m, id, dup) \in Sends
  /\ \A id \in Ids \cup {0} : \A type \in {"PUBREL", "PUBACK", "PINGREQ"} : Packet(type, id) \in Control
  BY DEF Carrying, Sends, Packet, Control

\* The parts of what is in a list are in their sets.
LEMMA ItemTyped ==
  ASSUME TypeOK, NEW i \in DOMAIN outbox
  PROVE  /\ outbox[i] \in Items /\ outbox[i].m \in Msgs /\ outbox[i].id \in Ids
         /\ outbox[i].qos \in 0 .. 2 /\ outbox[i].pending \in Pendings
  <1>1. outbox \in Seq(Items) /\ i \in 1 .. Len(outbox)
    BY DEF TypeOK
  <1>2. outbox[i] \in Items
    BY <1>1, ElementOfSeq
  <1> QED BY <1>2 DEF Items

\* The packet that is read next has the type of a packet, and so have the others.
LEMMA HeadTyped ==
  ASSUME TypeOK
  PROVE  /\ down # <<>> => Head(down) \in Answers /\ Head(down).id \in Ids \cup {0} /\ Tail(down) \in Seq(Answers)
         /\ up # <<>> => /\ Head(up) \in Sends \cup Control /\ Head(up).id \in Ids \cup {0}
                        /\ Tail(up) \in Seq(Sends \cup Control)
  <1>1. down # <<>> => Head(down) \in Answers /\ Tail(down) \in Seq(Answers)
    BY HeadTailProperties DEF TypeOK
  <1>2. up # <<>> => Head(up) \in Sends \cup Control /\ Tail(up) \in Seq(Sends \cup Control)
    BY HeadTailProperties DEF TypeOK
  <1>3. /\ \A p \in Answers : p.id \in Ids \cup {0}
        /\ \A p \in Sends \cup Control : p.id \in Ids \cup {0}
    BY DEF Answers, Sends, Control
  <1> QED BY <1>1, <1>2, <1>3

\* An item makes a packet of the device.
LEMMA ResendTyped == ASSUME TypeOK, NEW i \in DOMAIN outbox PROVE Resend(i) \in Sends
  <1>1. outbox[i].m \in Msgs /\ outbox[i].id \in Ids
    BY ItemTyped
  <1> DEFINE dup == outbox[i].type = "PUBLISH" /\ outbox[i].qos > 0 /\ outbox[i].pending = "TRANSMITTED"
  <1>2. dup \in BOOLEAN
    OBVIOUS
  <1>3. Resend(i) = Carrying(outbox[i].m, outbox[i].id, dup)
    BY DEF Resend
  <1> HIDE DEF dup
  <1> QED BY <1>1, <1>2, <1>3, WrittenTyped

\* What Kinds changes keeps its type.
DataOK ==
  /\ outbox \in Seq(Items) /\ status \in [Msgs -> {"idle", "kept", "acked", "gone"}]
  /\ up \in Seq(Sends \cup Control) /\ down \in Seq(Answers)
  /\ unreleased \subseteq Ids /\ inSession \subseteq Msgs /\ delivered \subseteq Msgs

PacketsOK ==
  /\ up \in Seq(Sends \cup Control) /\ down \in Seq(Answers)
  /\ unreleased \subseteq Ids /\ inSession \subseteq Msgs

\* What a step does to the packets keeps their types,
LEMMA EffectsTyped ==
  ASSUME TypeOK, Quiet \/ Lost \/ Received \/ \E p \in Sends \cup Control : Sent(p)
  PROVE  PacketsOK'
  <1>1. CASE Quiet
    BY <1>1 DEF Quiet, TypeOK, PacketsOK
  <1>2. CASE Lost
    BY <1>2 DEF Lost, TypeOK, PacketsOK
  <1>3. CASE Received
    BY <1>3 DEF Received, TypeOK, PacketsOK
  <1>4. ASSUME NEW p \in Sends \cup Control, Sent(p) PROVE PacketsOK'
    BY <1>4 DEF Sent, TypeOK, PacketsOK
  <1> QED BY <1>1, <1>2, <1>3, <1>4

\* The outbox and the history keep their types.
KeptOK == outbox \in Seq(Items) /\ status \in [Msgs -> {"idle", "kept", "acked", "gone"}] /\ delivered \subseteq Msgs

\* what a deletion does keeps the types of the outbox and the history,
LEMMA DeleteTyped ==
  ASSUME TypeOK, NEW i \in DOMAIN outbox, outbox' = DeleteItem(outbox, i),
         NEW s \in {"gone", "acked"}, status' = [status EXCEPT ![outbox[i].m] = s], UNCHANGED delivered
  PROVE  KeptOK'
  <1>1. outbox' \in Seq(Items)
    BY DeleteRemoves DEF TypeOK
  <1> QED BY <1>1 DEF TypeOK, KeptOK

\* and a mark keeps the type of a list of items.
LEMMA SetPendingTyped ==
  ASSUME NEW box \in Seq(Items), NEW id, NEW pending \in Pendings
  PROVE  SetPending(box, id, pending) \in Seq(Items)
  BY SetPendingMarks, ItemsAreOver

\* Every kind of step keeps the types of what it changes.
LEMMA DataTyped == ASSUME TypeOK, Kinds PROVE DataOK'
  <1>1. KeptOK' /\ PacketsOK' => DataOK'
    BY DEF KeptOK, PacketsOK, DataOK
  <1>2. KeptOK
    BY DEF KeptOK, TypeOK
  <1>3. CASE Stays
    <2>1. KeptOK'
      BY <1>2, <1>3 DEF Stays, KeptOK
    <2>2. CASE Quiet \/ Lost \/ Received \/ Sent(Packet("PINGREQ", 0)) \/ Sent(Packet("PUBACK", 0))
      <3>1. PacketsOK'
        BY <2>2, EffectsTyped, WrittenTyped
      <3> QED BY <1>1, <2>1, <3>1
    <2>3. ASSUME NEW type \in {"PUBLISH0", "PUBLISH1"}, down' = Append(down, Packet(type, 0)),
                 UNCHANGED <<up, unreleased, inSession>>
          PROVE  DataOK'
      <3>1. Packet(type, 0) \in Answers
        BY DEF Packet, Answers
      <3>2. PacketsOK'
        BY <2>3, <3>1 DEF PacketsOK, TypeOK
      <3> QED BY <1>1, <2>1, <3>2
    <2> QED BY <1>3, <2>2, <2>3 DEF Stays
  <1>4. CASE Empties
    <2>1. KeptOK'
      BY <1>4 DEF Empties, KeptOK, TypeOK
    <2> QED BY <1>1, <1>4, <2>1, EffectsTyped DEF Empties
  <1>5. CASE Records
    <2>1. outbox' \in Seq(Items)
      BY <1>5, SetPendingTyped DEF Records, TypeOK, Pendings
    <2>2. KeptOK'
      BY <1>2, <1>5, <2>1 DEF Records, KeptOK
    <2>3. Head(down).id \in Ids \cup {0} /\ down' \in Seq(Answers)
      BY <1>5, HeadTyped DEF Records
    <2>a. Packet("PUBREL", Head(down).id) \in Sends \cup Control
      BY <2>3, WrittenTyped
    <2>4. up' \in Seq(Sends \cup Control)
      <3> DEFINE p == Packet("PUBREL", Head(down).id)
                 S == Sends \cup Control
      <3>1. (up' = up \/ up' = Append(up, p)) /\ up \in Seq(S) /\ p \in S
        BY <1>5, <2>a DEF Records, TypeOK
      <3> HIDE DEF p, S
      <3>2. up' \in Seq(S)
        BY <3>1, AppendTyped
      <3> QED BY <3>2 DEF S
    <2> QED BY <1>1, <1>5, <2>2, <2>3, <2>4 DEF Records, TypeOK, PacketsOK
  <1>6. ASSUME NEW m \in Msgs, NEW id \in Draw[m], Queues(m, id) PROVE DataOK'
    <2>1. outbox' \in Seq(Items)
      <3>1. QoS[m] \in 0 .. 2
        OBVIOUS
      <3> QED BY <1>6, <3>1, NewItem, EnqueueAdds DEF Queues, TypeOK
    <2>2. KeptOK'
      BY <1>2, <1>6, <2>1 DEF Queues, KeptOK
    <2> QED BY <1>1, <1>6, <2>2, EffectsTyped DEF Queues
  <1>7. ASSUME NEW m \in Msgs, NEW id \in Draw[m], Throws(m, id) PROVE DataOK'
    <2>1. KeptOK'
      BY <1>2, <1>7 DEF Throws, KeptOK
    <2>2. Carrying(m, id, FALSE) \in Sends
      BY DrawnIds, WrittenTyped
    <2> QED BY <1>1, <1>7, <2>1, <2>2, EffectsTyped DEF Throws
  <1>8. ASSUME NEW m \in Msgs, NEW id \in Draw[m], NEW qos \in 0 .. 2, Transmits(m, id, qos) PROVE DataOK'
    <2>1. Enqueue(outbox, m, id, Type[m], qos) \in Seq(Items)
      BY NewItem, EnqueueAdds DEF TypeOK
    <2>2. outbox' \in Seq(Items)
      BY <1>8, <2>1, SetPendingTyped DEF Transmits, Pendings
    <2>3. KeptOK'
      BY <1>2, <1>8, <2>2 DEF Transmits, KeptOK
    <2>4. Carrying(m, id, FALSE) \in Sends
      BY DrawnIds, WrittenTyped
    <2> QED BY <1>1, <1>8, <2>3, <2>4, EffectsTyped DEF Transmits
  <1>9. ASSUME NEW i \in DOMAIN outbox, Expires(i) PROVE DataOK'
    <2>1. KeptOK'
      BY <1>9, DeleteTyped DEF Expires
    <2> QED BY <1>1, <1>9, <2>1, EffectsTyped DEF Expires
  <1>10. ASSUME NEW i \in DOMAIN outbox, Acknowledges(i) PROVE DataOK'
    <2>1. KeptOK'
      BY <1>10, DeleteTyped DEF Acknowledges
    <2> QED BY <1>1, <1>10, <2>1, EffectsTyped DEF Acknowledges
  <1>11. ASSUME NEW i \in DOMAIN outbox, Dispatches(i) PROVE DataOK'
    <2>1. KeptOK'
      <3>1. CASE outbox[i].type = "PUBLISH" /\ outbox[i].qos = 0
        BY <1>11, <3>1, DeleteTyped DEF Dispatches, Transmitted
      <3>2. CASE ~ (outbox[i].type = "PUBLISH" /\ outbox[i].qos = 0)
        <4>1. outbox' \in {outbox, SetPending(outbox, outbox[i].id, "TRANSMITTED")} /\ UNCHANGED <<status, delivered>>
          BY <1>11, <3>2 DEF Dispatches, Transmitted
        <4>2. outbox' \in Seq(Items)
          BY <4>1, SetPendingTyped DEF TypeOK, Pendings
        <4> QED BY <1>2, <4>1, <4>2 DEF KeptOK
      <3> QED BY <3>1, <3>2
    <2> QED BY <1>1, <1>11, <2>1, EffectsTyped, ResendTyped DEF Dispatches
  <1>12. ASSUME NEW i \in DOMAIN outbox, Repeats(i) PROVE DataOK'
    <2>1. KeptOK'
      BY <1>2, <1>12 DEF Repeats, KeptOK
    <2> QED BY <1>1, <1>12, <2>1, EffectsTyped, ResendTyped DEF Repeats
  <1>13. ASSUME NEW i \in DOMAIN outbox, Releases(i) PROVE DataOK'
    <2>1. KeptOK'
      BY <1>2, <1>13 DEF Releases, KeptOK
    <2>2. outbox[i].id \in Ids
      BY ItemTyped
    <2>3. Packet("PUBREL", outbox[i].id) \in Control
      BY <2>2, WrittenTyped
    <2> QED BY <1>1, <1>13, <2>1, <2>3, EffectsTyped DEF Releases
  <1>14. CASE BrokerTakes
    <2>1. Head(up) \in Sends \cup Control /\ up' \in Seq(Sends \cup Control)
      BY <1>14 DEF BrokerTakes, TypeOK
    <2>2. Head(up).m \in Msgs /\ Head(up).id \in Ids
      BY <1>14, <2>1 DEF BrokerTakes, Sends, Control, MsgTypes
    <2>3. \A type \in {"SUBACK", "PUBACK", "PUBREC"} : Packet(type, Head(up).id) \in Answers
      BY <2>2 DEF Packet, Answers
    <2>a. down' = down \/ \E type \in {"SUBACK", "PUBACK", "PUBREC"} : down' = Append(down, Packet(type, Head(up).id))
      BY <1>14 DEF BrokerTakes, Answer
    <2>b. down \in Seq(Answers)
      BY DEF TypeOK
    <2>4. down' \in Seq(Answers)
      BY <2>a, <2>b, <2>3, AppendTyped
    <2>5. unreleased' \subseteq Ids /\ inSession' \subseteq Msgs /\ delivered' \subseteq Msgs
      BY <1>14, <2>2 DEF BrokerTakes, Take, TypeOK
    <2> QED BY <1>2, <1>14, <2>1, <2>4, <2>5 DEF BrokerTakes, DataOK, KeptOK
  <1>15. CASE BrokerAnswers
    <2>1. Head(up) \in Sends \cup Control /\ up' \in Seq(Sends \cup Control)
      BY <1>15 DEF BrokerAnswers, TypeOK
    <2>2. Head(up).id \in Ids \cup {0}
      BY <2>1 DEF Sends, Control
    <2>3. \A type \in {"PUBCOMP", "PINGRESP"} : Packet(type, Head(up).id) \in Answers
      BY <2>2 DEF Packet, Answers
    <2>a. down' = down \/ \E type \in {"PUBCOMP", "PINGRESP"} : down' = Append(down, Packet(type, Head(up).id))
      BY <1>15 DEF BrokerAnswers, Answer
    <2>b. down \in Seq(Answers)
      BY DEF TypeOK
    <2>4. down' \in Seq(Answers)
      <3>1. ASSUME NEW type \in {"PUBCOMP", "PINGRESP"}, down' = Append(down, Packet(type, Head(up).id))
            PROVE  down' \in Seq(Answers)
        <4>1. Packet(type, Head(up).id) \in Answers
          BY <2>3
        <4>2. Append(down, Packet(type, Head(up).id)) \in Seq(Answers)
          BY <2>b, <4>1, AppendTyped
        <4> QED BY <3>1, <4>2
      <3> QED BY <2>a, <2>b, <3>1
    <2>5. unreleased' \subseteq Ids
      BY <1>15 DEF BrokerAnswers, TypeOK
    <2> QED BY <1>2, <1>15, <2>1, <2>4, <2>5 DEF BrokerAnswers, DataOK, KeptOK, TypeOK
  <1> QED BY <1>3, <1>4, <1>5, <1>6, <1>7, <1>8, <1>9, <1>10, <1>11, <1>12, <1>13, <1>14, <1>15 DEF Kinds

\* What the steps do to the rest of the state: the connection, the task, the counters.
ControlOK ==
  /\ state \in {"INIT", "CONNECTED", "WAIT_RECONNECT", "DISCONNECTED"} /\ wait_for_ping_resp \in BOOLEAN
  /\ pc \in {"poll", "dispatch", "connected", "receive", "handler0", "handler1", "resend", "pubrel", "keepalive", "leaving", "ended"}
  /\ conn \in {"none", "alive", "dead"} /\ sent \in 0 .. MaxSends /\ faults \in 0 .. MaxFaults

\* A PINGRESP is awaited, and packets are on their way, only in a session: there is a
\* transport exactly while the client is connected.
SessionInv ==
  /\ conn # "none" <=> state = "CONNECTED"
  /\ wait_for_ping_resp => state = "CONNECTED"

LinkOK ==
  /\ state \in {"INIT", "CONNECTED", "WAIT_RECONNECT", "DISCONNECTED"} /\ wait_for_ping_resp \in BOOLEAN
  /\ conn \in {"none", "alive", "dead"} /\ faults \in 0 .. MaxFaults /\ SessionInv

\* The loop ends without a connection.
Leaving == pc = "leaving" => state # "CONNECTED"

\* Faults stay within their bound.
LEMMA FaultTyped == ASSUME faults \in 0 .. MaxFaults, Fault \/ WriteFails PROVE faults' \in 0 .. MaxFaults
  BY DEF Fault, WriteFails

\* Writing, or failing to, keeps the session's invariant,
LEMMA WriteKeeps ==
  ASSUME LinkOK, NEW p, Idle \/ Write(p) \/ WriteOrAbort(p) \/ WriteAndIgnore(p) \/ (WriteFails /\ AbortConnection)
  PROVE  LinkOK'
  <1> USE DEF LinkOK, SessionInv
  <1>1. CASE Idle
    BY <1>1 DEF Idle
  <1>2. CASE Write(p)
    BY <1>2 DEF Write
  <1>3. CASE WriteFails /\ AbortConnection
    BY <1>3, FaultTyped DEF AbortConnection, CloseSession
  <1>4. CASE WriteFails /\ UNCHANGED <<state, wait_for_ping_resp, sessionVars>>
    BY <1>4, FaultTyped
  <1> QED BY <1>1, <1>2, <1>3, <1>4 DEF WriteOrAbort, WriteAndIgnore

\* and so does every step.
LEMMA LinkKept == ASSUME TypeOK, SessionInv, Leaving, [Next]_vars PROVE LinkOK'
  <1>0. LinkOK
    BY DEF LinkOK, TypeOK
  <1> USE DEF Idle, AbortConnection, CloseSession
  <1>1. ASSUME NEW m \in Msgs, Call(m) PROVE LinkOK'
    <2>1. CASE Publish(m)
      <3>1. PICK id \in Draw[m] : PublishKept(m, id) \/ WriteOrAbort(Carrying(m, id, FALSE)) \/ Idle
        BY <2>1 DEF Publish, MessageIds
      <3>2. CASE PublishKept(m, id)
        BY <1>0, <3>2, WriteKeeps DEF PublishKept
      <3> QED BY <1>0, <3>1, <3>2, WriteKeeps
    <2>2. CASE EnqueueMessage(m)
      BY <1>0, <2>2, WriteKeeps DEF EnqueueMessage
    <2>3. CASE Subscribe(m)
      BY <1>0, <2>3, WriteKeeps DEF Subscribe
    <2> QED BY <1>1, <2>1, <2>2, <2>3 DEF Call
  <1>2. CASE Loop
    <2>1. CASE Lock \/ ConnectedHandled \/ Connected
      BY <1>0, <2>1 DEF Lock, ConnectedHandled, Connected, LinkOK, SessionInv
    <2>2. CASE NoTransport \/ LoopEnds
      BY <1>0, <2>2, FaultTyped DEF NoTransport, LoopEnds, Leaving, LinkOK, SessionInv
    <2>a. CASE ConnectFails
      BY <1>0, <2>a, FaultTyped DEF ConnectFails, LinkOK, SessionInv
    <2>3. CASE Connects
      BY <1>0, <2>3 DEF Connects, LinkOK, SessionInv
    <2>b. CASE Reconnects
      BY <1>0, <2>b DEF Reconnects, LinkOK, SessionInv
    <2>c. CASE PollFails
      BY <1>0, <2>c DEF PollFails, LinkOK, SessionInv
    <2>4. ASSUME NEW i \in DOMAIN outbox, Expire(i) PROVE LinkOK'
      BY <1>0, <2>4, FaultTyped DEF Expire, LinkOK, SessionInv
    <2> QED BY <1>2, <2>1, <2>2, <2>a, <2>3, <2>b, <2>c, <2>4 DEF Loop
  <1>3. CASE Process
    <2>1. CASE NothingReceived \/ OnPublish \/ HandledQos0
      BY <1>0, <2>1 DEF NothingReceived, OnPublish, HandledQos0, LinkOK, SessionInv
    <2>a. CASE ReceiveFails
      BY <1>0, <2>a DEF ReceiveFails, LinkOK, SessionInv
    <2>b. CASE OnPingresp
      BY <1>0, <2>b DEF OnPingresp, LinkOK, SessionInv
    <2>2. CASE OnAcknowledgement \/ OnPubrec
      BY <1>0, <2>2, FaultTyped DEF OnAcknowledgement, OnPubrec, LinkOK, SessionInv
    <2>3. CASE HandledQos1
      BY <1>0, <2>3, WriteKeeps DEF HandledQos1
    <2> QED BY <1>3, <2>1, <2>a, <2>b, <2>2, <2>3 DEF Process
  <1>4. CASE Outgoing
    <2>1. CASE NotYetDue \/ NoRetransmit \/ NoPubrel
      BY <1>0, <2>1 DEF NotYetDue, NoRetransmit, NoPubrel, LinkOK, SessionInv
    <2>2. CASE TransmitQueued
      BY <1>0, <2>2, WriteKeeps DEF TransmitQueued
    <2>3. CASE Retransmit
      BY <1>0, <2>3, WriteKeeps DEF Retransmit
    <2>4. CASE RetransmitPubrel
      BY <1>0, <2>4, WriteKeeps DEF RetransmitPubrel
    <2> QED BY <1>4, <2>1, <2>2, <2>3, <2>4 DEF Outgoing
  <1>5. CASE Keepalive
    <2>1. CASE NoKeepalive
      BY <1>0, <2>1 DEF NoKeepalive, LinkOK, SessionInv
    <2>2. CASE Ping
      BY <1>0, <2>2, FaultTyped DEF Ping, LinkOK, SessionInv
    <2>3. CASE NoPingresp
      BY <1>0, <2>3, FaultTyped DEF NoPingresp, LinkOK, SessionInv
    <2> QED BY <1>5, <2>1, <2>2, <2>3 DEF Keepalive
  <1>6. CASE SessionDies
    BY <1>0, <1>6, FaultTyped DEF SessionDies, LinkOK, SessionInv
  <1>7. CASE BrokerTakes \/ BrokerAnswers \/ (\E type \in {"PUBLISH0", "PUBLISH1"} : BrokerPublishes(type)) \/ UNCHANGED vars
    BY <1>0, <1>7 DEF BrokerTakes, BrokerAnswers, BrokerPublishes, vars, LinkOK, SessionInv
  <1> QED BY <1>1, <1>2, <1>3, <1>4, <1>5, <1>6, <1>7 DEF Next

\* The task stays where it can be, the loop ends without a connection, and the broker stays within
\* its bound.
LEMMA PlaceKept == ASSUME TypeOK, Leaving, [Next]_vars
  PROVE  /\ pc' \in {"poll", "dispatch", "connected", "receive", "handler0", "handler1", "resend", "pubrel", "keepalive", "leaving", "ended"}
         /\ sent' \in 0 .. MaxSends /\ Leaving'
  <1> USE DEF TypeOK, Leaving
  <1>1. ASSUME NEW m \in Msgs, Call(m) PROVE UNCHANGED <<pc, sent>> /\ state' \in {state, "WAIT_RECONNECT"}
    BY <1>1 DEF Call, Publish, EnqueueMessage, Subscribe, PublishKept, WriteOrAbort, WriteAndIgnore, Write,
      AbortConnection, Idle
  <1>2. CASE Loop
    BY <1>2 DEF Loop, Lock, NoTransport, LoopEnds, ConnectFails, Connects, ConnectedHandled, Reconnects, Connected, PollFails, Expire
  <1>3. CASE Process
    BY <1>3 DEF Process, NothingReceived, ReceiveFails, OnAcknowledgement, OnPubrec, OnPingresp, OnPublish, HandledQos0, HandledQos1
  <1>4. CASE Outgoing \/ Keepalive
    BY <1>4 DEF Outgoing, TransmitQueued, NotYetDue, Retransmit, NoRetransmit, RetransmitPubrel, NoPubrel,
      Keepalive, NoKeepalive, Ping, NoPingresp
  <1>5. ASSUME NEW type \in {"PUBLISH0", "PUBLISH1"}, BrokerPublishes(type) PROVE UNCHANGED <<pc, state>> /\ sent' \in 0 .. MaxSends
    BY <1>5 DEF BrokerPublishes
  <1>6. CASE BrokerTakes \/ BrokerAnswers \/ SessionDies \/ UNCHANGED vars
    BY <1>6 DEF BrokerTakes, BrokerAnswers, SessionDies, vars
  <1> QED BY <1>1, <1>2, <1>3, <1>4, <1>5, <1>6 DEF Next

\* Types and the session's invariant need nothing else.
TypeInv == TypeOK /\ SessionInv /\ Leaving

\* Types and the session's invariant hold in every behaviour.
LEMMA TypeInvariant == Spec => []TypeInv
  <1>1. ASSUME Init PROVE TypeInv
    <2>1. <<>> \in Seq(Items) /\ <<>> \in Seq(Sends \cup Control) /\ <<>> \in Seq(Answers)
      OBVIOUS
    <2>2. status \in [Msgs -> {"idle", "kept", "acked", "gone"}]
      BY <1>1 DEF Init
    <2>3. MaxSends \in Nat /\ MaxFaults \in Nat => 0 \in 0 .. MaxSends /\ 0 \in 0 .. MaxFaults
      OBVIOUS
    <2>4. TypeOK
      BY <1>1, <2>1, <2>2, <2>3, Zenon DEF Init, TypeOK
    <2>5. SessionInv /\ Leaving
      BY <1>1 DEF Init, SessionInv, Leaving
    <2> QED BY <2>4, <2>5 DEF TypeInv
  <1>2. TypeInv /\ [Next]_vars => TypeInv'
    <2> SUFFICES ASSUME TypeOK, SessionInv, Leaving, [Next]_vars PROVE TypeInv'
      BY DEF TypeInv
    <2>1. DataOK'
      BY NextKinds, DataTyped
    <2>2. LinkOK'
      BY LinkKept
    <2> QED BY <2>1, <2>2, PlaceKept DEF TypeInv, TypeOK, DataOK, LinkOK
  <1> QED BY <1>1, <1>2, PTL DEF Spec

\* mqtt_client_priv.h, mqtt_outbox.c:13-22: every field stays in its range, whatever is sent,
\* lost, retransmitted or expires.
THEOREM TypeCorrect == Spec => []TypeOK
  <1>1. TypeInv => TypeOK
    BY DEF TypeInv
  <1> QED BY <1>1, TypeInvariant, PTL

\* mqtt_client.c:699-725, 754, 858: no PINGRESP is awaited from a session before.
THEOREM PingsOfThisSession == Spec => []PingOfThisSession
  <1>1. TypeInv => PingOfThisSession
    BY DEF TypeInv, SessionInv, PingOfThisSession
  <1> QED BY <1>1, TypeInvariant, PTL


-------------------------------------------------------------------------------
(* What the kinds of steps do to the outbox, item by item.                   *)

SameItem(a, b) == a.m = b.m /\ a.id = b.id /\ a.type = b.type /\ a.qos = b.qos

\* A new item comes last; the others stay, marked or not.
Grown(m, id, qos) ==
  /\ Len(outbox') = Len(outbox) + 1
  /\ \A j \in 1 .. Len(outbox) : SameItem(outbox'[j], outbox[j])
  /\ LET new == outbox'[Len(outbox) + 1]
     IN  new.m = m /\ new.id = id /\ new.type = Type[m] /\ new.qos = qos

\* An item is taken out, and the items behind it move up.
Shrunk(i) ==
  /\ Len(outbox') = Len(outbox) - 1
  /\ \A j \in 1 .. Len(outbox) - 1 : outbox'[j] = IF j < i THEN outbox[j] ELSE outbox[j + 1]

\* At most pending states change.
Marked == Len(outbox') = Len(outbox) /\ \A j \in 1 .. Len(outbox) : SameItem(outbox'[j], outbox[j])

\* The outbox is a list of items.
LEMMA OutboxTyped == ASSUME TypeOK PROVE outbox \in Seq(Items) /\ DOMAIN outbox = 1 .. Len(outbox) /\ Len(outbox) \in Nat
  BY DEF TypeOK

\* A message kept to be written later is a new item, QUEUED.
LEMMA QueuesGrows ==
  ASSUME TypeOK, NEW m \in Msgs, NEW id \in Draw[m], Queues(m, id)
  PROVE  /\ Grown(m, id, QoS[m])
         /\ \A j \in 1 .. Len(outbox) : outbox'[j] = outbox[j]
         /\ outbox'[Len(outbox) + 1].pending = "QUEUED"
  <1>1. QoS[m] \in 0 .. 2 /\ outbox' = Enqueue(outbox, m, id, Type[m], QoS[m])
    BY DEF Queues
  <1>2. /\ Len(outbox') = Len(outbox) + 1
        /\ \A j \in 1 .. Len(outbox) : outbox'[j] = outbox[j]
        /\ outbox'[Len(outbox) + 1] = [m |-> m, id |-> id, type |-> Type[m], qos |-> QoS[m], pending |-> "QUEUED"]
    <2>1. [m |-> m, id |-> id, type |-> Type[m], qos |-> QoS[m], pending |-> "QUEUED"] \in Items
      BY <1>1, NewItem
    <2> QED BY <1>1, <2>1, OutboxTyped, EnqueueAdds
  <1> QED BY <1>2 DEF Grown, SameItem

\* The mark of a message written at once is on its item, or on an earlier one that has
\* the same identifier.
LEMMA TransmitsGrows ==
  ASSUME TypeOK, NEW m \in Msgs, NEW id \in Draw[m], NEW qos \in 0 .. 2, Transmits(m, id, qos)
  PROVE  /\ Grown(m, id, qos)
         /\ (\A j \in DOMAIN outbox : outbox[j].id # id) =>
              /\ \A j \in 1 .. Len(outbox) : outbox'[j].pending = outbox[j].pending
              /\ outbox'[Len(outbox) + 1].pending = "TRANSMITTED"
  <1> DEFINE box == Enqueue(outbox, m, id, Type[m], qos)
             n   == Len(outbox)
  <1>1. /\ box \in Seq(Items) /\ Len(box) = n + 1
        /\ \A j \in 1 .. n : box[j] = outbox[j]
        /\ box[n + 1] = [m |-> m, id |-> id, type |-> Type[m], qos |-> qos, pending |-> "QUEUED"]
    <2>1. [m |-> m, id |-> id, type |-> Type[m], qos |-> qos, pending |-> "QUEUED"] \in Items
      BY NewItem
    <2> QED BY <2>1, OutboxTyped, EnqueueAdds
  <1>2. outbox' = SetPending(box, id, "TRANSMITTED")
    BY DEF Transmits
  <1>3. n \in Nat /\ DOMAIN outbox = 1 .. n
    BY OutboxTyped
  <1> HIDE DEF box, n
  <1>4. /\ Len(outbox') = Len(box)
        /\ \A j \in 1 .. Len(box) :
              /\ outbox'[j].m = box[j].m /\ outbox'[j].id = box[j].id
              /\ outbox'[j].type = box[j].type /\ outbox'[j].qos = box[j].qos
              /\ outbox'[j].pending = IF j = Get(box, id) THEN "TRANSMITTED" ELSE box[j].pending
    BY <1>1, <1>2, ItemsAreOver, SetPendingMarks DEF Pendings
  <1>5. Grown(m, id, qos)
    BY <1>1, <1>3, <1>4 DEF Grown, SameItem, n
  <1>6. ASSUME \A j \in 1 .. n : outbox[j].id # id PROVE Get(box, id) = n + 1
    <2>1. /\ Get(box, id) \in 0 .. Len(box)
          /\ Get(box, id) = 0 => \A j \in DOMAIN box : box[j].id # id
          /\ Get(box, id) # 0 => box[Get(box, id)].id = id
      BY <1>1, GetFinds
    <2>2. n + 1 \in DOMAIN box /\ box[n + 1].id = id
      BY <1>1, <1>3
    <2>a. Get(box, id) # 0
      BY <2>1, <2>2
    <2>3. Get(box, id) # 0 /\ Get(box, id) \in 1 .. n + 1
      BY <1>1, <1>3, <2>1, <2>a
    <2>4. Get(box, id) \notin 1 .. n
      BY <1>1, <1>6, <2>1, <2>3
    <2> QED BY <1>3, <2>3, <2>4
  <1>7. ASSUME \A j \in DOMAIN outbox : outbox[j].id # id
        PROVE  /\ \A j \in 1 .. n : outbox'[j].pending = outbox[j].pending
               /\ outbox'[n + 1].pending = "TRANSMITTED"
    <2>1. Get(box, id) = n + 1
      BY <1>3, <1>6, <1>7
    <2>2. \A j \in 1 .. n : j \in 1 .. Len(box) /\ j # n + 1 /\ box[j] = outbox[j]
      BY <1>1, <1>3
    <2>3. n + 1 \in 1 .. Len(box)
      BY <1>1, <1>3
    <2> QED BY <1>4, <2>1, <2>2, <2>3
  <1> QED BY <1>5, <1>7 DEF n

\* A deletion takes one item out.
LEMMA DeletionShrinks ==
  ASSUME TypeOK, NEW i \in DOMAIN outbox, outbox' = DeleteItem(outbox, i)
  PROVE  Shrunk(i)
  <1>1. outbox \in Seq(Items) /\ i \in 1 .. Len(outbox)
    BY OutboxTyped
  <1>2. /\ Len(DeleteItem(outbox, i)) = Len(outbox) - 1
        /\ \A j \in 1 .. Len(outbox) - 1 :
              DeleteItem(outbox, i)[j] = IF j < i THEN outbox[j] ELSE outbox[j + 1]
    BY <1>1, DeleteRemoves
  <1> QED BY <1>2 DEF Shrunk

\* A mark changes one pending state, or none.
LEMMA SetPendingKeeps ==
  ASSUME TypeOK, NEW id, NEW pending \in Pendings, outbox' = SetPending(outbox, id, pending)
  PROVE  /\ Marked
         /\ \A j \in 1 .. Len(outbox) :
              outbox'[j].pending = IF j = Get(outbox, id) THEN pending ELSE outbox[j].pending
  BY OutboxTyped, ItemsAreOver, SetPendingMarks DEF Marked, SameItem

\* An item that is written is deleted, marked, or stays as it was.
LEMMA DispatchKinds ==
  ASSUME TypeOK, NEW i \in DOMAIN outbox, Transmitted(i)
  PROVE  \/ /\ outbox[i].type = "PUBLISH" /\ outbox[i].qos = 0
            /\ Shrunk(i) /\ status' = [status EXCEPT ![outbox[i].m] = "gone"]
         \/ /\ outbox[i].qos > 0
            /\ outbox' = SetPending(outbox, outbox[i].id, "TRANSMITTED") /\ Marked /\ UNCHANGED status
         \/ ~ (outbox[i].type = "PUBLISH") /\ UNCHANGED <<outbox, status>>
  <1>1. CASE outbox[i].type = "PUBLISH" /\ outbox[i].qos = 0
    BY <1>1, DeletionShrinks DEF Transmitted
  <1>2. CASE ~ (outbox[i].type = "PUBLISH" /\ outbox[i].qos = 0) /\ outbox[i].qos > 0
    BY <1>2, SetPendingKeeps DEF Transmitted, Pendings
  <1>3. CASE ~ (outbox[i].type = "PUBLISH" /\ outbox[i].qos = 0) /\ ~ (outbox[i].qos > 0)
    <2>1. outbox[i].qos \in 0 .. 2
      BY ItemTyped
    <2>2. outbox[i].qos = 0
      BY <1>3, <2>1
    <2> QED BY <1>3, <2>2 DEF Transmitted
  <1> QED BY <1>1, <1>2, <1>3

-------------------------------------------------------------------------------
(* A message is kept once.                                                   *)

KeptInv ==
  /\ \A i, j \in DOMAIN outbox : outbox[i].m = outbox[j].m => i = j
  /\ \A i \in DOMAIN outbox : status[outbox[i].m] = "kept"
  /\ \A m \in Msgs : status[m] = "kept" => \E i \in DOMAIN outbox : outbox[i].m = m

\* A mark keeps the invariant,
LEMMA MarkedKept == ASSUME TypeOK, KeptInv, TypeOK', Marked, UNCHANGED status PROVE KeptInv'
  <1>1. DOMAIN outbox' = DOMAIN outbox /\ \A j \in DOMAIN outbox : outbox'[j].m = outbox[j].m
    BY OutboxTyped DEF Marked, SameItem, TypeOK
  <1> QED BY <1>1 DEF KeptInv

\* so does a deletion that reports the message as acknowledged or gives it up,
LEMMA ShrunkKept ==
  ASSUME TypeOK, KeptInv, TypeOK', NEW i \in DOMAIN outbox, Shrunk(i),
         NEW s \in {"gone", "acked"}, status' = [status EXCEPT ![outbox[i].m] = s]
  PROVE  KeptInv'
  <1> DEFINE old(j) == IF j < i THEN j ELSE j + 1
  <1>1. DOMAIN outbox' = 1 .. Len(outbox) - 1 /\ i \in 1 .. Len(outbox) /\ Len(outbox) \in Nat
    BY OutboxTyped DEF Shrunk, TypeOK
  <1>2. \A j \in DOMAIN outbox' : old(j) \in DOMAIN outbox /\ old(j) # i /\ outbox'[j] = outbox[old(j)]
    BY <1>1, OutboxTyped DEF Shrunk
  <1>3. \A j, k \in DOMAIN outbox' : old(j) = old(k) => j = k
    BY <1>1
  <1>4. \A k \in DOMAIN outbox : k # i => \E j \in DOMAIN outbox' : old(j) = k
    <2> TAKE k \in DOMAIN outbox
    <2> HAVE k # i
    <2>1. k \in 1 .. Len(outbox)
      BY OutboxTyped
    <2>2. CASE k < i
      <3>1. k \in DOMAIN outbox' /\ old(k) = k
        BY <1>1, <2>1, <2>2
      <3> QED BY <3>1
    <2>3. CASE ~ (k < i)
      <3>1. k - 1 \in DOMAIN outbox' /\ old(k - 1) = k
        BY <1>1, <2>1, <2>3
      <3> QED BY <3>1
    <2> QED BY <2>2, <2>3
  <1> HIDE DEF old
  <1>5. outbox[i].m \in Msgs /\ \A j \in DOMAIN outbox : outbox[j].m \in Msgs
    BY ItemTyped
  <1>6. \A m \in Msgs : status'[m] = IF m = outbox[i].m THEN s ELSE status[m]
    BY <1>5 DEF TypeOK
  <1>7. \A j, k \in DOMAIN outbox' : outbox'[j].m = outbox'[k].m => j = k
    BY <1>2, <1>3 DEF KeptInv
  <1>8. \A j \in DOMAIN outbox' : status'[outbox'[j].m] = "kept"
    BY <1>2, <1>5, <1>6 DEF KeptInv
  <1>9. ASSUME NEW m \in Msgs, status'[m] = "kept" PROVE \E j \in DOMAIN outbox' : outbox'[j].m = m
    <2>1. m # outbox[i].m /\ status[m] = "kept"
      BY <1>6, <1>9
    <2>2. PICK k \in DOMAIN outbox : outbox[k].m = m
      BY <2>1 DEF KeptInv
    <2>3. PICK j \in DOMAIN outbox' : old(j) = k
      BY <1>4, <2>1, <2>2
    <2> QED BY <1>2, <2>2, <2>3
  <1> QED BY <1>7, <1>8, <1>9 DEF KeptInv

\* so does a new item of a message that was not handed over before,
LEMMA GrownKept ==
  ASSUME TypeOK, KeptInv, TypeOK', NEW m \in Msgs, NEW id, NEW qos, Grown(m, id, qos),
         status[m] = "idle", status' = [status EXCEPT ![m] = "kept"]
  PROVE  KeptInv'
  <1>1. DOMAIN outbox' = 1 .. Len(outbox) + 1 /\ DOMAIN outbox = 1 .. Len(outbox) /\ Len(outbox) \in Nat
    BY OutboxTyped DEF Grown, TypeOK
  <1>2. /\ \A j \in DOMAIN outbox : outbox'[j].m = outbox[j].m
        /\ outbox'[Len(outbox) + 1].m = m
    BY <1>1 DEF Grown, SameItem
  <1>3. \A j \in DOMAIN outbox : outbox[j].m \in Msgs /\ outbox[j].m # m
    BY ItemTyped DEF KeptInv
  <1>4. \A n \in Msgs : status'[n] = IF n = m THEN "kept" ELSE status[n]
    BY DEF TypeOK
  <1>5. \A j \in DOMAIN outbox' : j \in DOMAIN outbox \/ j = Len(outbox) + 1
    BY <1>1
  <1>6. \A j, k \in DOMAIN outbox' : outbox'[j].m = outbox'[k].m => j = k
    BY <1>2, <1>3, <1>5 DEF KeptInv
  <1>7. \A j \in DOMAIN outbox' : status'[outbox'[j].m] = "kept"
    BY <1>2, <1>3, <1>4, <1>5 DEF KeptInv
  <1>8. ASSUME NEW n \in Msgs, status'[n] = "kept" PROVE \E j \in DOMAIN outbox' : outbox'[j].m = n
    <2>1. CASE n = m
      <3>1. Len(outbox) + 1 \in DOMAIN outbox'
        BY <1>1
      <3> QED BY <1>2, <2>1, <3>1
    <2>2. CASE n # m
      <3>1. PICK j \in DOMAIN outbox : outbox[j].m = n
        BY <1>4, <1>8, <2>2 DEF KeptInv
      <3>2. j \in DOMAIN outbox'
        BY <1>1
      <3> QED BY <1>2, <3>1, <3>2
    <2> QED BY <2>1, <2>2
  <1> QED BY <1>6, <1>7, <1>8 DEF KeptInv

\* and so does every kind of step.
LEMMA KeptKept == ASSUME TypeOK, KeptInv, TypeOK', Kinds PROVE KeptInv'
  <1>1. CASE Stays \/ BrokerTakes \/ BrokerAnswers \/ \E i \in DOMAIN outbox : Repeats(i) \/ Releases(i)
    <2>1. UNCHANGED <<outbox, status>>
      BY <1>1 DEF Stays, BrokerTakes, BrokerAnswers, Repeats, Releases, historyVars
    <2> QED BY <2>1 DEF KeptInv
  <1>2. CASE Empties
    BY <1>2 DEF Empties, KeptInv
  <1>3. CASE Records
    BY <1>3, SetPendingKeeps, MarkedKept DEF Records, Pendings, historyVars
  <1>4. ASSUME NEW m \in Msgs, NEW id \in Draw[m], Queues(m, id) PROVE KeptInv'
    BY <1>4, QueuesGrows, GrownKept DEF Queues
  <1>5. ASSUME NEW m \in Msgs, NEW id \in Draw[m], NEW qos \in 0 .. 2, Transmits(m, id, qos) PROVE KeptInv'
    BY <1>5, TransmitsGrows, GrownKept DEF Transmits
  <1>6. ASSUME NEW m \in Msgs, NEW id \in Draw[m], Throws(m, id) PROVE KeptInv'
    <2>1. UNCHANGED outbox /\ status[m] = "idle" /\ \A n \in Msgs : status'[n] = IF n = m THEN "gone" ELSE status[n]
      BY <1>6 DEF Throws, TypeOK
    <2>2. \A i \in DOMAIN outbox : outbox[i].m \in Msgs
      BY ItemTyped
    <2> QED BY <2>1, <2>2 DEF KeptInv
  <1>7. ASSUME NEW i \in DOMAIN outbox, Expires(i) PROVE KeptInv'
    BY <1>7, DeletionShrinks, ShrunkKept DEF Expires
  <1>8. ASSUME NEW i \in DOMAIN outbox, Acknowledges(i) PROVE KeptInv'
    BY <1>8, DeletionShrinks, ShrunkKept DEF Acknowledges
  <1>9. ASSUME NEW i \in DOMAIN outbox, Dispatches(i) PROVE KeptInv'
    <2>1. CASE Shrunk(i) /\ status' = [status EXCEPT ![outbox[i].m] = "gone"]
      BY <2>1, ShrunkKept
    <2>2. CASE Marked /\ UNCHANGED status
      BY <2>2, MarkedKept
    <2>3. CASE UNCHANGED <<outbox, status>>
      BY <2>3 DEF KeptInv
    <2> QED BY <1>9, <2>1, <2>2, <2>3, DispatchKinds DEF Dispatches
  <1> QED BY <1>1, <1>2, <1>3, <1>4, <1>5, <1>6, <1>7, <1>8, <1>9 DEF Kinds

\* No assumption on the identifiers is needed.
LEMMA KeptInvariant == Spec => [](TypeOK /\ KeptInv)
  <1>1. Init => KeptInv
    BY DEF Init, KeptInv
  <1>2. TypeOK /\ TypeOK' /\ KeptInv /\ [Next]_vars => KeptInv'
    BY NextKinds, KeptKept
  <1> QED BY <1>1, <1>2, TypeCorrect, PTL DEF Spec

\* mqtt_outbox.c and mqtt_client.c:1228-1242, 1217-1226: a message is in the outbox, once,
\* exactly while it is neither acknowledged nor given up, whatever identifiers are drawn.
THEOREM KeptOnceAlways == Spec => []KeptOnce
  <1>1. ASSUME KeptInv PROVE KeptOnce
    <2>1. ASSUME NEW m \in Msgs, status[m] = "kept"
          PROVE  \E i \in DOMAIN outbox : \A j \in DOMAIN outbox : outbox[j].m = m <=> j = i
      BY <1>1, <2>1 DEF KeptInv
    <2>2. ASSUME NEW m \in Msgs, status[m] # "kept" PROVE \A i \in DOMAIN outbox : outbox[i].m # m
      BY <1>1, <2>2 DEF KeptInv
    <2> QED BY <2>1, <2>2 DEF KeptOnce
  <1> QED BY <1>1, KeptInvariant, PTL
=============================================================================
