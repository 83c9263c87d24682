---------------------------- MODULE DeliveryProofs ----------------------------
(***************************************************************************)
(* What becomes of the messages of MqttClient when no identifier is drawn  *)
(* for two of them: acknowledged messages were delivered, repeats carry    *)
(* the DUP flag, QoS 2 is taken once a session, and the client implements  *)
(* Delivery. One invariant, kept by every kind of step, gives all four.    *)
(***************************************************************************)
EXTENDS MqttClientProofs

USE TypeAssumption, DrawAssumption, BoundsAssumption
USE DEF sessionVars, historyVars

-------------------------------------------------------------------------------
(* What holds of the messages when no identifier is drawn for two of them.   *)

\* The client does not see to it: the run "twins" shows what happens when two
\* messages in flight have the same identifier.
Disjoint == \A m, n \in Msgs : m # n => Draw[m] \cap Draw[n] = {}

Acks          == {"SUBACK", "PUBACK", "PUBREC", "PUBCOMP"}
IdsOf(list)   == {list[k].id : k \in DOMAIN list}
UsedIds       == IdsOf(up) \cup IdsOf(down) \cup IdsOf(outbox) \cup unreleased
Carries(k, m) == up[k].type \in MsgTypes /\ up[k].m = m
Frees(k, m)   == up[k].type = "PUBREL" /\ up[k].id \in Draw[m]
Known(id)     == \A m \in Msgs : id \in Draw[m] => m \in delivered

\* An item is made of its message.
ItemInv ==
  \A i \in DOMAIN outbox :
    /\ outbox[i].id \in Draw[outbox[i].m] /\ outbox[i].type = Type[outbox[i].m]
    /\ outbox[i].type = "PUBLISH" => outbox[i].qos = QoS[outbox[i].m]
    /\ outbox[i].type = "PUBLISH" /\ outbox[i].pending = "TRANSMITTED" => outbox[i].qos > 0

\* A message has one identifier, none before it is handed over.
IdsInv ==
  /\ \A m \in Msgs : \A x, y \in UsedIds \cap Draw[m] : x = y
  /\ \A m \in Msgs : status[m] = "idle" => UsedIds \cap Draw[m] = {} /\ m \notin delivered

SentInv ==
  /\ \A k \in DOMAIN up : up[k].type \in MsgTypes => up[k].id \in Draw[up[k].m] /\ up[k].type = Type[up[k].m]
  /\ inSession \subseteq delivered

\* Only what was taken is answered, waits to be released, and is acknowledged.
KnownInv ==
  /\ \A k \in DOMAIN down : down[k].type \in Acks => Known(down[k].id)
  /\ \A k \in DOMAIN up : up[k].type = "PUBREL" => Known(up[k].id)
  /\ \A id \in unreleased : Known(id)
  /\ \A i \in DOMAIN outbox : outbox[i].pending = "ACKNOWLEDGED" => outbox[i].m \in delivered
  /\ \A m \in Msgs : status[m] = "acked" => m \in delivered

\* A PUBLISH without the DUP flag is the first of its message,
FirstInv ==
  \A k \in DOMAIN up : up[k].type = "PUBLISH" /\ ~ up[k].dup =>
    up[k].m \notin delivered /\ \A j \in 1 .. k - 1 : ~ Carries(j, up[k].m)

\* and an item that is QUEUED was never written.
QueuedInv ==
  \A i \in DOMAIN outbox : outbox[i].pending = "QUEUED" /\ outbox[i].type = "PUBLISH" =>
    outbox[i].m \notin delivered /\ \A k \in DOMAIN up : ~ Carries(k, outbox[i].m)

\* Behind its PUBREL a message is not written again.
ReleaseInv ==
  \A k \in DOMAIN up : \A m \in Msgs : Frees(k, m) =>
    /\ \A i \in DOMAIN outbox : outbox[i].m = m => outbox[i].pending = "ACKNOWLEDGED"
    /\ \A j \in DOMAIN up : Carries(j, m) => j < k

\* While a message of QoS 2 may be written again in the session, it waits for its release.
UnreleasedInv ==
  \A m \in inSession : Type[m] = "PUBLISH" /\ QoS[m] = 2 =>
    /\ \A k \in DOMAIN up : Carries(k, m) => up[k].id \in unreleased
    /\ \A i \in DOMAIN outbox : outbox[i].m = m /\ outbox[i].pending # "ACKNOWLEDGED" =>
         outbox[i].id \in unreleased

DeliveryInv ==
  /\ TypeOK /\ KeptInv
  /\ ItemInv /\ IdsInv /\ SentInv /\ KnownInv /\ FirstInv /\ QueuedInv /\ ReleaseInv /\ UnreleasedInv

-------------------------------------------------------------------------------
(* What the kinds of steps do to the packets, one by one.                    *)

UpOld(k)    == k \in DOMAIN up /\ up'[k] = up[k]
DownOld(k)  == \E l \in DOMAIN down : down'[k] = down[l]
NoneSent    == \A k \in DOMAIN up' : UpOld(k)
OnlySent(p) == \A k \in DOMAIN up' : UpOld(k) \/ (k = Len(up) + 1 /\ up'[k] = p)
NoneBack    == \A k \in DOMAIN down' : DownOld(k)
SessionKept == UNCHANGED <<unreleased, inSession>> \/ (unreleased' = {} /\ inSession' = {})

\* The first packet is read, and the others move up.
Shifted ==
  /\ 1 \in DOMAIN up /\ up[1] = Head(up)
  /\ \A k \in DOMAIN up' : k \in Nat /\ k + 1 \in DOMAIN up /\ up'[k] = up[k + 1]

\* The places of a list without its head.
LEMMA TailAt ==
  ASSUME NEW S, NEW s \in Seq(S), s # <<>>
  PROVE  /\ 1 \in DOMAIN s /\ s[1] = Head(s)
         /\ \A k \in DOMAIN Tail(s) : k \in Nat /\ k + 1 \in DOMAIN s /\ Tail(s)[k] = s[k + 1]
  <1>1. Len(s) \in Nat /\ Len(s) # 0 /\ DOMAIN s = 1 .. Len(s)
    OBVIOUS
  <1>2. Tail(s) \in Seq(S) /\ Len(Tail(s)) = Len(s) - 1 /\ \A k \in 1 .. Len(Tail(s)) : Tail(s)[k] = s[k + 1]
    BY HeadTailProperties
  <1>3. DOMAIN Tail(s) = 1 .. Len(s) - 1
    BY <1>2
  <1> QED BY <1>1, <1>2, <1>3

\* The places of a list with one more element.
LEMMA AppendAt ==
  ASSUME NEW S, NEW s \in Seq(S), NEW e, NEW k \in DOMAIN Append(s, e)
  PROVE  (k \in DOMAIN s /\ Append(s, e)[k] = s[k]) \/ (k = Len(s) + 1 /\ Append(s, e)[k] = e)
  <1> DEFINE T == S \cup {e}
  <1>1. s \in Seq(T) /\ e \in T
    OBVIOUS
  <1> HIDE DEF T
  <1>2. /\ Append(s, e) \in Seq(T) /\ Len(Append(s, e)) = Len(s) + 1
        /\ \A i \in 1 .. Len(s) : Append(s, e)[i] = s[i]
        /\ Append(s, e)[Len(s) + 1] = e
    BY <1>1, AppendProperties
  <1>3. Len(s) \in Nat /\ DOMAIN s = 1 .. Len(s) /\ DOMAIN Append(s, e) = 1 .. Len(s) + 1
    BY <1>1, <1>2
  <1>4. k \in 1 .. Len(s) \/ k = Len(s) + 1
    BY <1>3
  <1> QED BY <1>2, <1>3, <1>4

\* When a packet is received, those left were there before.
LEMMA ReceivedAt ==
  ASSUME TypeOK, down # <<>>, down' = Tail(down)
  PROVE  NoneBack /\ \E l \in DOMAIN down : down[l] = Head(down)
  <1>1. down \in Seq(Answers)
    BY DEF TypeOK
  <1>2. /\ 1 \in DOMAIN down /\ down[1] = Head(down)
        /\ \A k \in DOMAIN down' : k + 1 \in DOMAIN down /\ down'[k] = down[k + 1]
    BY <1>1, TailAt
  <1> QED BY <1>2 DEF NoneBack, DownOld

\* Each effect on the packets, one by one.
LEMMA EffectsAt ==
  ASSUME TypeOK
  PROVE  /\ Quiet \/ Lost \/ Received => NoneSent /\ NoneBack /\ SessionKept
         /\ \A p : NoneSent => OnlySent(p)
         /\ \A p : Sent(p) => OnlySent(p) /\ NoneBack /\ SessionKept
  <1>0. up \in Seq(Sends \cup Control)
    BY DEF TypeOK
  <1>1. ASSUME Quiet PROVE NoneSent /\ NoneBack /\ SessionKept
    BY <1>1 DEF Quiet, NoneSent, NoneBack, SessionKept, UpOld, DownOld
  <1>2. ASSUME Lost PROVE NoneSent /\ NoneBack /\ SessionKept
    BY <1>2 DEF Lost, NoneSent, NoneBack, SessionKept, UpOld, DownOld
  <1>3. ASSUME Received PROVE NoneSent /\ NoneBack /\ SessionKept
    BY <1>3, ReceivedAt DEF Received, NoneSent, SessionKept, UpOld
  <1>4. ASSUME NEW p, NoneSent PROVE OnlySent(p)
    BY <1>4 DEF NoneSent, OnlySent
  <1>5. ASSUME NEW p, Sent(p) PROVE OnlySent(p) /\ NoneBack /\ SessionKept
    <2>1. up' = Append(up, p) /\ UNCHANGED <<down, unreleased, inSession>>
      BY <1>5 DEF Sent
    <2>2. OnlySent(p)
      BY <1>0, <2>1, AppendAt DEF OnlySent, UpOld
    <2> QED BY <2>1, <2>2 DEF NoneBack, DownOld, SessionKept
  <1> QED BY <1>1, <1>2, <1>3, <1>4, <1>5

\* A step that does nothing to a message.
LEMMA StaysAt ==
  ASSUME TypeOK, Stays
  PROVE  /\ UNCHANGED <<outbox, status, delivered>> /\ SessionKept
         /\ \A k \in DOMAIN up' : UpOld(k) \/ (up'[k].type \in {"PINGREQ", "PUBACK"} /\ up'[k].id = 0)
         /\ \A k \in DOMAIN down' : DownOld(k) \/ (down'[k].type \in {"PUBLISH0", "PUBLISH1"} /\ down'[k].id = 0)
  <1>0. UNCHANGED <<outbox, status, delivered>> /\ down \in Seq(Answers)
    BY DEF Stays, historyVars, TypeOK
  <1>1. CASE Quiet \/ Lost \/ Received
    BY <1>0, <1>1, EffectsAt DEF NoneSent, NoneBack
  <1>2. ASSUME NEW type \in {"PINGREQ", "PUBACK"}, Sent(Packet(type, 0))
        PROVE  /\ SessionKept /\ NoneBack
               /\ \A k \in DOMAIN up' : UpOld(k) \/ (up'[k].type \in {"PINGREQ", "PUBACK"} /\ up'[k].id = 0)
    <2>1. OnlySent(Packet(type, 0)) /\ NoneBack /\ SessionKept
      BY <1>2, EffectsAt
    <2> QED BY <2>1 DEF OnlySent, Packet
  <1>3. ASSUME NEW type \in {"PUBLISH0", "PUBLISH1"}, down' = Append(down, Packet(type, 0)),
               UNCHANGED <<up, unreleased, inSession>>
        PROVE  /\ SessionKept /\ NoneSent
               /\ \A k \in DOMAIN down' : DownOld(k) \/ (down'[k].type \in {"PUBLISH0", "PUBLISH1"} /\ down'[k].id = 0)
    <2>1. \A k \in DOMAIN down' : DownOld(k) \/ down'[k] = Packet(type, 0)
      BY <1>0, <1>3, AppendAt DEF DownOld
    <2>2. SessionKept /\ NoneSent
      BY <1>3 DEF SessionKept, NoneSent, UpOld
    <2> QED BY <2>1, <2>2 DEF Packet
  <1> QED BY <1>0, <1>1, <1>2, <1>3 DEF Stays, NoneSent, NoneBack

\* The broker takes a message of the device, or has it already.
LEMMA TakesAt ==
  ASSUME TypeOK, BrokerTakes
  PROVE  /\ UNCHANGED <<outbox, status>> /\ Shifted /\ Head(up).type \in MsgTypes
         /\ Head(up).m \in Msgs /\ Head(up).id \in Ids
         /\ \/ delivered' = delivered \cup {Head(up).m} /\ inSession' = inSession \cup {Head(up).m}
            \/ /\ UNCHANGED <<delivered, inSession>> /\ Head(up).id \in unreleased
               /\ Type[Head(up).m] = "PUBLISH" /\ QoS[Head(up).m] = 2
         /\ IF Type[Head(up).m] = "PUBLISH" /\ QoS[Head(up).m] = 2
            THEN unreleased' = unreleased \cup {Head(up).id}
            ELSE UNCHANGED unreleased
         /\ \A k \in DOMAIN down' : DownOld(k) \/ (down'[k].type \in Acks /\ down'[k].id = Head(up).id)
  <1>0. /\ up # <<>> /\ Head(up).type \in MsgTypes /\ up' = Tail(up) /\ UNCHANGED <<outbox, status>>
        /\ up \in Seq(Sends \cup Control) /\ down \in Seq(Answers)
    BY DEF BrokerTakes, TypeOK
  <1>1. Shifted
    BY <1>0, TailAt DEF Shifted
  <1>2. Head(up).m \in Msgs /\ Head(up).id \in Ids
    <2>1. Head(up) \in Sends \cup Control
      BY <1>0, HeadTyped
    <2> QED BY <1>0, <2>1 DEF Sends, Control, MsgTypes
  <1> DEFINE m == Head(up).m
             id == Head(up).id
  <1>3. \/ Type[m] = "SUBSCRIBE" /\ Take(m) /\ Answer("SUBACK") /\ UNCHANGED unreleased
        \/ Type[m] = "PUBLISH" /\ QoS[m] = 0 /\ Take(m) /\ UNCHANGED <<down, unreleased>>
        \/ Type[m] = "PUBLISH" /\ QoS[m] = 1 /\ Take(m) /\ Answer("PUBACK") /\ UNCHANGED unreleased
        \/ /\ Type[m] = "PUBLISH" /\ QoS[m] = 2 /\ Answer("PUBREC")
           /\ unreleased' = unreleased \cup {id}
           /\ IF id \in unreleased THEN UNCHANGED <<delivered, inSession>> ELSE Take(m)
    BY DEF BrokerTakes
  <1>4. down' = down \/ \E type \in Acks : down' = Append(down, Packet(type, id))
    BY <1>3 DEF Answer, Acks
  <1>5. \A k \in DOMAIN down' : DownOld(k) \/ (down'[k].type \in Acks /\ down'[k].id = id)
    <2>1. CASE down' = down
      BY <2>1 DEF DownOld
    <2>2. ASSUME NEW type \in Acks, down' = Append(down, Packet(type, id))
          PROVE  \A k \in DOMAIN down' : DownOld(k) \/ (down'[k].type \in Acks /\ down'[k].id = id)
      <3>1. \A k \in DOMAIN down' : DownOld(k) \/ down'[k] = Packet(type, id)
        BY <1>0, <2>2, AppendAt DEF DownOld
      <3> QED BY <3>1 DEF Packet
    <2> QED BY <1>4, <2>1, <2>2
  <1>6. \/ delivered' = delivered \cup {m} /\ inSession' = inSession \cup {m}
        \/ UNCHANGED <<delivered, inSession>> /\ id \in unreleased /\ Type[m] = "PUBLISH" /\ QoS[m] = 2
    BY <1>3 DEF Take
  <1>7. IF Type[m] = "PUBLISH" /\ QoS[m] = 2 THEN unreleased' = unreleased \cup {id} ELSE UNCHANGED unreleased
    BY <1>3
  <1> QED BY <1>0, <1>1, <1>2, <1>5, <1>6, <1>7

\* The broker answers a packet that carries no message.
LEMMA AnswersAt ==
  ASSUME TypeOK, BrokerAnswers
  PROVE  /\ UNCHANGED <<outbox, status, delivered, inSession>> /\ Shifted /\ Head(up).type \notin MsgTypes
         /\ IF Head(up).type = "PUBREL" THEN unreleased' = unreleased \ {Head(up).id} ELSE UNCHANGED unreleased
         /\ \A k \in DOMAIN down' :
              \/ DownOld(k)
              \/ /\ down'[k].id = Head(up).id
                 /\ down'[k].type \in Acks => Head(up).type = "PUBREL"
  <1>0. /\ up # <<>> /\ Head(up).type \notin MsgTypes /\ up' = Tail(up)
        /\ UNCHANGED <<outbox, status, delivered, inSession>>
        /\ up \in Seq(Sends \cup Control) /\ down \in Seq(Answers)
    BY DEF BrokerAnswers, TypeOK, historyVars
  <1>1. Shifted
    BY <1>0, TailAt DEF Shifted
  <1> DEFINE id == Head(up).id
  <1>3. \/ Head(up).type = "PUBREL" /\ Answer("PUBCOMP") /\ unreleased' = unreleased \ {id}
        \/ Head(up).type = "PINGREQ" /\ Answer("PINGRESP") /\ UNCHANGED unreleased
        \/ Head(up).type = "PUBACK" /\ UNCHANGED <<down, unreleased>>
    BY DEF BrokerAnswers
  <1>4. \/ down' = down \/ down' = Append(down, Packet("PINGRESP", id))
        \/ Head(up).type = "PUBREL" /\ down' = Append(down, Packet("PUBCOMP", id))
    BY <1>3 DEF Answer
  <1>5. \A k \in DOMAIN down' :
          DownOld(k) \/ (down'[k].id = id /\ (down'[k].type \in Acks => Head(up).type = "PUBREL"))
    <2>1. CASE down' = down
      BY <2>1 DEF DownOld
    <2>2. ASSUME NEW type \in {"PINGRESP", "PUBCOMP"}, down' = Append(down, Packet(type, id)),
                 type = "PUBCOMP" => Head(up).type = "PUBREL"
          PROVE  \A k \in DOMAIN down' :
                   DownOld(k) \/ (down'[k].id = id /\ (down'[k].type \in Acks => Head(up).type = "PUBREL"))
      <3>1. \A k \in DOMAIN down' : DownOld(k) \/ down'[k] = Packet(type, id)
        BY <1>0, <2>2, AppendAt DEF DownOld
      <3> QED BY <2>2, <3>1 DEF Packet, Acks
    <2> QED BY <1>4, <2>1, <2>2
  <1>6. IF Head(up).type = "PUBREL" THEN unreleased' = unreleased \ {id} ELSE UNCHANGED unreleased
    BY <1>3
  <1> QED BY <1>0, <1>1, <1>5, <1>6

\* The device receives a PUBREC, and may send the PUBREL.
LEMMA RecordsAt ==
  ASSUME TypeOK, Records
  PROVE  /\ OnlySent(Packet("PUBREL", Head(down).id)) /\ NoneBack /\ SessionKept
         /\ UNCHANGED <<status, delivered>>
         /\ \E l \in DOMAIN down : down[l].type = "PUBREC" /\ down[l].id = Head(down).id
  <1> DEFINE p == Packet("PUBREL", Head(down).id)
  <1>0. up \in Seq(Sends \cup Control) /\ (up' = up \/ up' = Append(up, p))
    BY DEF TypeOK, Records
  <1>1. NoneBack /\ \E l \in DOMAIN down : down[l].type = "PUBREC" /\ down[l].id = Head(down).id
    BY ReceivedAt DEF Records
  <1>2. UNCHANGED <<unreleased, inSession, status, delivered>>
    BY DEF Records, historyVars
  <1> HIDE DEF p
  <1>3. OnlySent(p)
    BY <1>0, AppendAt DEF OnlySent, UpOld
  <1> QED BY <1>1, <1>2, <1>3 DEF SessionKept, p

-------------------------------------------------------------------------------
(* What the kinds of steps do to the items, one by one.                      *)

\* An item that was there before, in the same pending state.
ItemOld(j) ==
  \E i \in DOMAIN outbox : SameItem(outbox'[j], outbox[i]) /\ outbox'[j].pending = outbox[i].pending

\* After a deletion every item left was there before, elsewhere.
LEMMA ShrunkAt ==
  ASSUME TypeOK, TypeOK', NEW i \in DOMAIN outbox, Shrunk(i), NEW j \in DOMAIN outbox'
  PROVE  \E k \in DOMAIN outbox : k # i /\ outbox'[j] = outbox[k]
  <1>1. DOMAIN outbox' = 1 .. Len(outbox) - 1 /\ DOMAIN outbox = 1 .. Len(outbox) /\ Len(outbox) \in Nat
    BY OutboxTyped DEF Shrunk, TypeOK
  <1>2. CASE j < i
    <2>1. j \in DOMAIN outbox /\ j # i /\ outbox'[j] = outbox[j]
      BY <1>1, <1>2 DEF Shrunk
    <2> QED BY <2>1
  <1>3. CASE ~ (j < i)
    <2>1. j + 1 \in DOMAIN outbox /\ j + 1 # i /\ outbox'[j] = outbox[j + 1]
      BY <1>1, <1>3 DEF Shrunk
    <2> QED BY <2>1
  <1> QED BY <1>2, <1>3

\* An identifier is that of one item at most.
LEMMA OneItem ==
  ASSUME Disjoint, DeliveryInv, NEW i \in DOMAIN outbox, NEW j \in DOMAIN outbox, outbox[i].id = outbox[j].id
  PROVE  i = j
  <1>1. outbox[i].m \in Msgs /\ outbox[j].m \in Msgs
    BY ItemTyped DEF DeliveryInv
  <1>2. outbox[i].id \in Draw[outbox[i].m] /\ outbox[j].id \in Draw[outbox[j].m]
    BY DEF DeliveryInv, ItemInv
  <1>3. outbox[i].m = outbox[j].m
    BY <1>1, <1>2 DEF Disjoint
  <1> QED BY <1>3 DEF DeliveryInv, KeptInv

\* outbox_set_pending marks the items of that identifier.
LEMMA PendingAt ==
  ASSUME Disjoint, DeliveryInv, TypeOK', NEW id, NEW pending \in Pendings, outbox' = SetPending(outbox, id, pending)
  PROVE  /\ DOMAIN outbox' = DOMAIN outbox
         /\ \A j \in DOMAIN outbox :
              /\ SameItem(outbox'[j], outbox[j])
              /\ outbox'[j].pending = IF outbox[j].id = id THEN pending ELSE outbox[j].pending
  <1>0. TypeOK
    BY DEF DeliveryInv
  <1>1. /\ Marked
        /\ \A j \in 1 .. Len(outbox) :
              outbox'[j].pending = IF j = Get(outbox, id) THEN pending ELSE outbox[j].pending
    BY <1>0, SetPendingKeeps
  <1>2. DOMAIN outbox = 1 .. Len(outbox) /\ DOMAIN outbox' = 1 .. Len(outbox)
    BY <1>0, <1>1, OutboxTyped DEF Marked, TypeOK
  <1>3. /\ Get(outbox, id) = 0 => \A j \in DOMAIN outbox : outbox[j].id # id
        /\ Get(outbox, id) # 0 => Get(outbox, id) \in DOMAIN outbox /\ outbox[Get(outbox, id)].id = id
    BY <1>0, OutboxTyped, GetFinds
  <1>4. ASSUME NEW j \in DOMAIN outbox PROVE j = Get(outbox, id) <=> outbox[j].id = id
    <2>1. j # 0
      BY <1>2
    <2> QED BY <1>3, <2>1, OneItem
  <1> QED BY <1>1, <1>2, <1>4 DEF Marked

\* Identifiers of what is in flight are in use; zero is never drawn.
LEMMA InUse ==
  /\ \A k \in DOMAIN up : up[k].id \in UsedIds
  /\ \A k \in DOMAIN down : down[k].id \in UsedIds
  /\ \A i \in DOMAIN outbox : outbox[i].id \in UsedIds
  /\ unreleased \subseteq UsedIds
  /\ \A m \in Msgs : 0 \notin Draw[m]
  <1>1. \A m \in Msgs : 0 \notin Draw[m]
    BY DrawAssumption
  <1> QED BY <1>1 DEF UsedIds, IdsOf

\* Of a message that was not handed over nothing is in flight.
LEMMA IdleIsNew ==
  ASSUME DeliveryInv, NEW m \in Msgs, status[m] = "idle"
  PROVE  /\ m \notin delivered /\ unreleased \cap Draw[m] = {}
         /\ \A k \in DOMAIN up : ~ Carries(k, m) /\ ~ Frees(k, m)
         /\ \A k \in DOMAIN down : down[k].id \notin Draw[m]
         /\ \A i \in DOMAIN outbox : outbox[i].m # m /\ outbox[i].id \notin Draw[m]
  <1>1. UsedIds \cap Draw[m] = {} /\ m \notin delivered
    BY DEF DeliveryInv, IdsInv
  <1>2. \A i \in DOMAIN outbox : outbox[i].id \in Draw[outbox[i].m]
    BY DEF DeliveryInv, ItemInv
  <1>3. \A k \in DOMAIN up : Carries(k, m) => up[k].id \in Draw[m]
    BY DEF DeliveryInv, SentInv, Carries
  <1> QED BY <1>1, <1>2, <1>3, InUse DEF Frees

\* A step that hands over a message,
Hands(m, id) ==
  /\ status[m] = "idle" /\ status'[m] \in {"kept", "gone"} /\ \A n \in Msgs : n # m => status'[n] = status[n]
  /\ UNCHANGED delivered /\ NoneBack /\ SessionKept /\ OnlySent(Carrying(m, id, FALSE))
  /\ \A j \in DOMAIN outbox' :
       \/ ItemOld(j)
       \/ /\ outbox'[j].m = m /\ outbox'[j].id = id /\ outbox'[j].type = Type[m]
          /\ Type[m] = "PUBLISH" => outbox'[j].qos = QoS[m]
          /\ \/ outbox'[j].pending = "QUEUED" /\ NoneSent
             \/ outbox'[j].pending = "TRANSMITTED" /\ (Type[m] = "PUBLISH" => outbox'[j].qos > 0)

\* is every step that queues, transmits or throws a message;
LEMMA HandsAt ==
  ASSUME DeliveryInv, TypeOK', NEW m \in Msgs, NEW id \in Draw[m],
         Queues(m, id) \/ Throws(m, id) \/ \E qos \in 0 .. 2 : Transmits(m, id, qos)
  PROVE  Hands(m, id)
  <1>0. TypeOK
    BY DEF DeliveryInv
  <1> DEFINE n == Len(outbox)
             new == outbox'[n + 1]
  <1>1. DOMAIN outbox = 1 .. n /\ n \in Nat /\ DOMAIN outbox' = 1 .. Len(outbox')
    BY <1>0, OutboxTyped DEF TypeOK
  <1>2. ASSUME NEW s \in {"kept", "gone"}, status' = [status EXCEPT ![m] = s]
        PROVE  status'[m] \in {"kept", "gone"} /\ \A k \in Msgs : k # m => status'[k] = status[k]
    BY <1>0, <1>2 DEF TypeOK
  <1>3. CASE Queues(m, id)
    <2>1. /\ Grown(m, id, QoS[m]) /\ new.pending = "QUEUED"
          /\ \A j \in 1 .. n : outbox'[j] = outbox[j]
      BY <1>0, <1>3, QueuesGrows
    <2>2. \A j \in DOMAIN outbox' : j \in DOMAIN outbox \/ j = n + 1
      BY <1>1, <2>1 DEF Grown
    <2>3. \A j \in DOMAIN outbox : ItemOld(j)
      BY <1>1, <2>1 DEF ItemOld, SameItem
    <2>4. NoneSent /\ NoneBack /\ SessionKept /\ OnlySent(Carrying(m, id, FALSE))
      BY <1>0, <1>3, EffectsAt DEF Queues
    <2>5. new.m = m /\ new.id = id /\ new.type = Type[m] /\ new.qos = QoS[m]
      BY <2>1 DEF Grown
    <2> QED BY <1>2, <1>3, <2>1, <2>2, <2>3, <2>4, <2>5 DEF Queues, Hands
  <1>4. CASE Throws(m, id)
    <2>1. NoneBack /\ SessionKept /\ OnlySent(Carrying(m, id, FALSE))
      BY <1>0, <1>4, EffectsAt DEF Throws
    <2>2. \A j \in DOMAIN outbox' : ItemOld(j)
      BY <1>4 DEF Throws, ItemOld, SameItem
    <2> QED BY <1>2, <1>4, <2>1, <2>2 DEF Throws, Hands
  <1>5. ASSUME NEW qos \in 0 .. 2, Transmits(m, id, qos) PROVE Hands(m, id)
    <2>0. \A j \in DOMAIN outbox : outbox[j].id # id
      BY <1>5, IdleIsNew DEF Transmits
    <2>1. /\ Grown(m, id, qos) /\ new.pending = "TRANSMITTED"
          /\ \A j \in 1 .. n : outbox'[j].pending = outbox[j].pending
      BY <1>0, <1>5, <2>0, TransmitsGrows
    <2>2. \A j \in DOMAIN outbox' : j \in DOMAIN outbox \/ j = n + 1
      BY <1>1, <2>1 DEF Grown
    <2>3. \A j \in DOMAIN outbox : ItemOld(j)
      BY <1>1, <2>1 DEF ItemOld, Grown
    <2>4. NoneBack /\ SessionKept /\ OnlySent(Carrying(m, id, FALSE))
      BY <1>0, <1>5, EffectsAt DEF Transmits
    <2>5. new.m = m /\ new.id = id /\ new.type = Type[m] /\ new.qos = qos
      BY <2>1 DEF Grown
    <2>6. Type[m] = "PUBLISH" => qos = QoS[m] /\ qos > 0
      BY <1>5 DEF Transmits
    <2> HIDE DEF new, n
    <2> QED BY <1>2, <1>5, <2>1, <2>2, <2>3, <2>4, <2>5, <2>6 DEF Transmits, Hands, new
  <1> QED BY <1>3, <1>4, <1>5

\* and one that hands over and writes none, but may delete some.
Passive ==
  /\ \A j \in DOMAIN outbox' : ItemOld(j)
  /\ \A k \in DOMAIN up' : UpOld(k) \/ (up'[k].type \in {"PINGREQ", "PUBACK"} /\ up'[k].id = 0)
  /\ \A k \in DOMAIN down' : DownOld(k) \/ (down'[k].type \in {"PUBLISH0", "PUBLISH1"} /\ down'[k].id = 0)
  /\ SessionKept /\ UNCHANGED delivered
  /\ \A n \in Msgs : status'[n] \in {status[n], "gone"} \/ (status'[n] = "acked" /\ n \in delivered)

\* is every step that receives, loses, expires or acknowledges.
LEMMA PassiveAt ==
  ASSUME DeliveryInv, TypeOK', Stays \/ Empties \/ \E i \in DOMAIN outbox : Expires(i) \/ Acknowledges(i)
  PROVE  Passive
  <1>0. TypeOK
    BY DEF DeliveryInv
  <1>1. CASE Stays
    <2>1. \A j \in DOMAIN outbox' : ItemOld(j)
      BY <1>0, <1>1, StaysAt DEF ItemOld, SameItem
    <2> QED BY <1>0, <1>1, <2>1, StaysAt DEF Passive
  <1>2. CASE Empties
    <2>1. NoneSent /\ NoneBack /\ SessionKept
      BY <1>0, <1>2, EffectsAt DEF Empties
    <2>2. DOMAIN outbox' = {} /\ UNCHANGED delivered
      BY <1>2 DEF Empties
    <2>3. \A n \in Msgs : status'[n] \in {status[n], "gone"}
      BY <1>2 DEF Empties
    <2> QED BY <2>1, <2>2, <2>3 DEF Passive, NoneSent, NoneBack
  <1>3. ASSUME NEW i \in DOMAIN outbox, Expires(i) \/ Acknowledges(i) PROVE Passive
    <2>1. NoneSent /\ NoneBack /\ SessionKept /\ UNCHANGED delivered
      BY <1>0, <1>3, EffectsAt DEF Expires, Acknowledges
    <2>2. Shrunk(i)
      BY <1>0, <1>3, DeletionShrinks DEF Expires, Acknowledges
    <2>3. \A j \in DOMAIN outbox' : ItemOld(j)
      BY <1>0, <2>2, ShrunkAt DEF ItemOld, SameItem
    <2>4. outbox[i].m \in Msgs
      BY <1>0, ItemTyped
    <2>5. CASE Expires(i)
      <3>1. \A n \in Msgs : status'[n] \in {status[n], "gone"}
        BY <1>0, <2>5 DEF Expires, TypeOK
      <3> QED BY <2>1, <2>3, <3>1 DEF Passive, NoneSent, NoneBack
    <2>6. CASE Acknowledges(i)
      <3>1. PICK l \in DOMAIN down : down[l] = Head(down)
        BY <1>0, <2>6, ReceivedAt DEF Acknowledges, Received
      <3>2. down[l].type \in Acks /\ down[l].id = outbox[i].id
        BY <2>6, <3>1 DEF Acknowledges, Acks
      <3>3. outbox[i].id \in Draw[outbox[i].m]
        BY DEF DeliveryInv, ItemInv
      <3>4. outbox[i].m \in delivered
        BY <2>4, <3>2, <3>3 DEF DeliveryInv, KnownInv, Known
      <3>5. \A n \in Msgs : status'[n] = IF n = outbox[i].m THEN "acked" ELSE status[n]
        BY <1>0, <2>6 DEF Acknowledges, TypeOK
      <3> QED BY <2>1, <2>3, <3>4, <3>5 DEF Passive, NoneSent, NoneBack
    <2> QED BY <1>3, <2>5, <2>6
  <1> QED BY <1>1, <1>2, <1>3

\* Item d is written for the first time: it is marked, or deleted.
LEMMA DispatchesAt ==
  ASSUME Disjoint, DeliveryInv, TypeOK', NEW d \in DOMAIN outbox, Dispatches(d)
  PROVE  /\ OnlySent(Resend(d)) /\ NoneBack /\ SessionKept /\ UNCHANGED delivered
         /\ \A n \in Msgs : status'[n] \in {status[n], "gone"}
         /\ \A j \in DOMAIN outbox' : \E i \in DOMAIN outbox :
              /\ SameItem(outbox'[j], outbox[i])
              /\ \/ outbox'[j].pending = outbox[i].pending /\ (i # d \/ outbox[d].type # "PUBLISH")
                 \/ i = d /\ outbox'[j].pending = "TRANSMITTED" /\ outbox[d].qos > 0
  <1>0. TypeOK
    BY DEF DeliveryInv
  <1>1. OnlySent(Resend(d)) /\ NoneBack /\ SessionKept /\ UNCHANGED delivered
    BY <1>0, EffectsAt DEF Dispatches
  <1> DEFINE Moved(j, i) ==
        /\ SameItem(outbox'[j], outbox[i])
        /\ \/ outbox'[j].pending = outbox[i].pending /\ (i # d \/ outbox[d].type # "PUBLISH")
           \/ i = d /\ outbox'[j].pending = "TRANSMITTED" /\ outbox[d].qos > 0
  <1>2. CASE Shrunk(d) /\ status' = [status EXCEPT ![outbox[d].m] = "gone"]
    <2>1. \A j \in DOMAIN outbox' : \E i \in DOMAIN outbox : Moved(j, i)
      BY <1>0, <1>2, ShrunkAt DEF SameItem
    <2>2. \A n \in Msgs : status'[n] \in {status[n], "gone"}
      BY <1>0, <1>2 DEF TypeOK
    <2> QED BY <1>1, <2>1, <2>2
  <1>3. CASE outbox[d].qos > 0 /\ outbox' = SetPending(outbox, outbox[d].id, "TRANSMITTED") /\ UNCHANGED status
    <2>1. /\ DOMAIN outbox' = DOMAIN outbox
          /\ \A j \in DOMAIN outbox :
               /\ SameItem(outbox'[j], outbox[j])
               /\ outbox'[j].pending = IF outbox[j].id = outbox[d].id THEN "TRANSMITTED" ELSE outbox[j].pending
      BY <1>3, PendingAt DEF Pendings
    <2>2. \A j \in DOMAIN outbox : Moved(j, j)
      BY <1>3, <2>1, OneItem
    <2>3. \A j \in DOMAIN outbox' : \E i \in DOMAIN outbox : Moved(j, i)
      BY <2>1, <2>2
    <2> QED BY <1>1, <1>3, <2>3
  <1>4. CASE ~ (outbox[d].type = "PUBLISH") /\ UNCHANGED <<outbox, status>>
    <2>1. \A j \in DOMAIN outbox' : Moved(j, j)
      BY <1>4 DEF SameItem
    <2>2. \A j \in DOMAIN outbox' : \E i \in DOMAIN outbox : Moved(j, i)
      BY <1>4, <2>1
    <2> QED BY <1>1, <1>4, <2>2
  <1> QED BY <1>0, <1>2, <1>3, <1>4, DispatchKinds DEF Dispatches

\* A retransmission sends its item again and changes nothing else.
LEMMA RepeatsAt ==
  ASSUME DeliveryInv, NEW i \in DOMAIN outbox, Repeats(i)
  PROVE  OnlySent(Resend(i)) /\ NoneBack /\ SessionKept /\ UNCHANGED <<outbox, status, delivered>>
  BY EffectsAt DEF Repeats, DeliveryInv, historyVars

\* So does the retransmission of a PUBREL.
LEMMA ReleasesAt ==
  ASSUME DeliveryInv, NEW i \in DOMAIN outbox, Releases(i)
  PROVE  OnlySent(Packet("PUBREL", outbox[i].id)) /\ NoneBack /\ SessionKept /\ UNCHANGED <<outbox, status, delivered>>
  BY EffectsAt DEF Releases, DeliveryInv, historyVars

\* A PUBREC marks the items of its identifier as received.
LEMMA RecordsMarks ==
  ASSUME Disjoint, DeliveryInv, TypeOK', Records
  PROVE  /\ DOMAIN outbox' = DOMAIN outbox
         /\ \A j \in DOMAIN outbox :
              /\ SameItem(outbox'[j], outbox[j])
              /\ outbox'[j].pending = IF outbox[j].id = Head(down).id THEN "ACKNOWLEDGED" ELSE outbox[j].pending
  BY PendingAt DEF Records, Pendings

\* The message and the flag of what is written from item i.
LEMMA ResendAt ==
  ASSUME DeliveryInv, NEW i \in DOMAIN outbox
  PROVE  /\ Resend(i).type = Type[outbox[i].m] /\ Resend(i).id = outbox[i].id /\ Resend(i).m = outbox[i].m
         /\ outbox[i].m \in Msgs /\ outbox[i].id \in Draw[outbox[i].m] /\ outbox[i].type = Type[outbox[i].m]
         /\ outbox[i].pending = "TRANSMITTED" /\ outbox[i].type = "PUBLISH" => Resend(i).dup
  <1>1. outbox[i].m \in Msgs /\ outbox[i].id \in Draw[outbox[i].m] /\ outbox[i].type = Type[outbox[i].m]
    BY ItemTyped DEF DeliveryInv, ItemInv
  <1>2. outbox[i].type = "PUBLISH" /\ outbox[i].pending = "TRANSMITTED" => outbox[i].qos > 0
    BY DEF DeliveryInv, ItemInv
  <1> QED BY <1>1, <1>2 DEF Resend, Carrying

-------------------------------------------------------------------------------
(* Every kind of step keeps every part of the invariant.                     *)

Steps ==
  \/ Passive \/ Records \/ BrokerTakes \/ BrokerAnswers
  \/ \E m \in Msgs : \E id \in Draw[m] : Hands(m, id)
  \/ \E i \in DOMAIN outbox : Dispatches(i) \/ Repeats(i) \/ Releases(i)

\* The kinds fall into these steps.
LEMMA KindsAreSteps == ASSUME DeliveryInv, TypeOK', Kinds PROVE Steps
  <1>1. CASE Stays \/ Empties \/ \E i \in DOMAIN outbox : Expires(i) \/ Acknowledges(i)
    BY <1>1, PassiveAt DEF Steps
  <1>2. ASSUME NEW m \in Msgs, NEW id \in Draw[m],
               Queues(m, id) \/ Throws(m, id) \/ \E qos \in 0 .. 2 : Transmits(m, id, qos)
        PROVE  Steps
    BY <1>2, HandsAt DEF Steps
  <1> QED BY <1>1, <1>2 DEF Kinds, Steps

\* Items are still made of their messages.
LEMMA ItemKept == ASSUME Disjoint, DeliveryInv, TypeOK', Steps PROVE ItemInv'
  <1> DEFINE Good(m, id, type, qos, pending) ==
        /\ id \in Draw[m] /\ type = Type[m]
        /\ type = "PUBLISH" => qos = QoS[m]
        /\ type = "PUBLISH" /\ pending = "TRANSMITTED" => qos > 0
             GoodItem(i) == Good(outbox'[i].m, outbox'[i].id, outbox'[i].type, outbox'[i].qos, outbox'[i].pending)
  <1>0. \A i \in DOMAIN outbox : Good(outbox[i].m, outbox[i].id, outbox[i].type, outbox[i].qos, outbox[i].pending)
    BY DEF DeliveryInv, ItemInv
  <1>a. (\A i \in DOMAIN outbox' : GoodItem(i)) => ItemInv'
    BY DEF ItemInv
  <1>b. \A j : ItemOld(j) => GoodItem(j)
    BY <1>0 DEF ItemOld, SameItem
  <1>1. CASE Passive
    BY <1>1, <1>a, <1>b DEF Passive
  <1>2. CASE BrokerTakes \/ BrokerAnswers \/ \E i \in DOMAIN outbox : Repeats(i) \/ Releases(i)
    <2>1. UNCHANGED outbox
      BY <1>2 DEF BrokerTakes, BrokerAnswers, Repeats, Releases
    <2> QED BY <2>1, <1>0, <1>a
  <1>3. CASE Records
    <2>1. \A j \in DOMAIN outbox' : GoodItem(j)
      BY <1>0, <1>3, RecordsMarks DEF SameItem
    <2> QED BY <2>1, <1>a
  <1>4. ASSUME NEW m \in Msgs, NEW id \in Draw[m], Hands(m, id) PROVE ItemInv'
    <2>1. \A j \in DOMAIN outbox' : GoodItem(j)
      BY <1>b, <1>4 DEF Hands
    <2> QED BY <2>1, <1>a
  <1>5. ASSUME NEW d \in DOMAIN outbox, Dispatches(d) PROVE ItemInv'
    <2>1. \A j \in DOMAIN outbox' : \E i \in DOMAIN outbox :
              /\ SameItem(outbox'[j], outbox[i])
              /\ \/ outbox'[j].pending = outbox[i].pending
                 \/ i = d /\ outbox'[j].pending = "TRANSMITTED" /\ outbox[d].qos > 0
      BY <1>5, DispatchesAt
    <2>2. \A j \in DOMAIN outbox' : GoodItem(j)
      BY <1>0, <2>1 DEF SameItem
    <2> QED BY <2>2, <1>a
  <1> QED BY <1>1, <1>2, <1>3, <1>4, <1>5 DEF Steps

\* A step uses the identifiers in use, zero, and the one it draws.
LEMMA UsedIdsStep ==
  ASSUME Disjoint, DeliveryInv, TypeOK', Steps
  PROVE  \/ /\ UsedIds' \subseteq UsedIds \cup {0}
            /\ \A n \in Msgs : status'[n] = "idle" => status[n] = "idle"
            /\ BrokerTakes \/ UNCHANGED delivered
         \/ \E m \in Msgs : \E id \in Draw[m] :
              /\ UsedIds' \subseteq UsedIds \cup {id} /\ UNCHANGED delivered
              /\ status[m] = "idle" /\ status'[m] # "idle"
              /\ \A n \in Msgs : n # m => status'[n] = status[n]
  <1>0. TypeOK
    BY DEF DeliveryInv
  <1> DEFINE Within(X) ==
        /\ \A k \in DOMAIN up' : up'[k].id \in X
        /\ \A k \in DOMAIN down' : down'[k].id \in X
        /\ \A i \in DOMAIN outbox' : outbox'[i].id \in X
        /\ unreleased' \subseteq X
  <1>a. \A X : Within(X) => UsedIds' \subseteq X
    BY DEF UsedIds, IdsOf
  <1>b. /\ \A k : UpOld(k) => up'[k].id \in UsedIds
        /\ \A k : DownOld(k) => down'[k].id \in UsedIds
        /\ \A j : ItemOld(j) => outbox'[j].id \in UsedIds
        /\ SessionKept => unreleased' \subseteq UsedIds
    BY InUse DEF UpOld, DownOld, ItemOld, SameItem, SessionKept
  <1>c. Shifted => Head(up).id \in UsedIds /\ \A k \in DOMAIN up' : up'[k].id \in UsedIds
    BY InUse DEF Shifted
  <1>1. CASE Passive
    <2>1. Within(UsedIds \cup {0})
      BY <1>b, <1>1 DEF Passive
    <2>2. \A n \in Msgs : status'[n] = "idle" => status[n] = "idle"
      BY <1>1 DEF Passive
    <2>3. UNCHANGED delivered
      BY <1>1 DEF Passive
    <2> HIDE DEF Within
    <2> QED BY <1>a, <2>1, <2>2, <2>3
  <1>2. CASE BrokerTakes
    <2>1. Within(UsedIds)
      BY <1>0, <1>2, <1>b, <1>c, TakesAt, InUse
    <2>2. UNCHANGED status
      BY <1>2 DEF BrokerTakes
    <2> HIDE DEF Within
    <2> QED BY <1>2, <1>a, <2>1, <2>2
  <1>3. CASE BrokerAnswers
    <2>1. Within(UsedIds)
      BY <1>0, <1>3, <1>b, <1>c, AnswersAt, InUse
    <2>2. UNCHANGED <<status, delivered>>
      BY <1>0, <1>3, AnswersAt
    <2> HIDE DEF Within
    <2> QED BY <1>a, <2>1, <2>2
  <1>4. CASE Records
    <2>1. Head(down).id \in UsedIds
      BY <1>0, <1>4, RecordsAt, InUse
    <2>2. \A k \in DOMAIN up' : up'[k].id \in UsedIds
      BY <1>0, <1>4, <1>b, <2>1, RecordsAt DEF OnlySent, Packet
    <2>3. \A j \in DOMAIN outbox' : outbox'[j].id \in UsedIds
      BY <1>4, RecordsMarks, InUse DEF SameItem
    <2>4. Within(UsedIds)
      BY <1>0, <1>4, <1>b, <2>2, <2>3, RecordsAt DEF NoneBack
    <2>5. UNCHANGED <<status, delivered>>
      BY <1>0, <1>4, RecordsAt
    <2> HIDE DEF Within
    <2> QED BY <1>a, <2>4, <2>5
  <1>5. ASSUME NEW i \in DOMAIN outbox, Repeats(i)
        PROVE  UsedIds' \subseteq UsedIds /\ UNCHANGED <<status, delivered>>
    <2>1. OnlySent(Resend(i)) /\ NoneBack /\ SessionKept /\ UNCHANGED <<outbox, status, delivered>>
      BY <1>5, RepeatsAt
    <2>2. Resend(i).id \in UsedIds
      BY ResendAt, InUse
    <2>3. Within(UsedIds)
      BY <1>b, <2>1, <2>2, InUse DEF OnlySent, NoneBack
    <2> HIDE DEF Within
    <2> QED BY <1>a, <2>1, <2>3
  <1>6. ASSUME NEW i \in DOMAIN outbox, Releases(i)
        PROVE  UsedIds' \subseteq UsedIds /\ UNCHANGED <<status, delivered>>
    <2>1. /\ OnlySent(Packet("PUBREL", outbox[i].id)) /\ NoneBack /\ SessionKept
          /\ UNCHANGED <<outbox, status, delivered>>
      BY <1>6, ReleasesAt
    <2>2. Packet("PUBREL", outbox[i].id).id \in UsedIds
      BY InUse DEF Packet
    <2>3. Within(UsedIds)
      BY <1>b, <2>1, <2>2, InUse DEF OnlySent, NoneBack
    <2> HIDE DEF Within
    <2> QED BY <1>a, <2>1, <2>3
  <1>7. ASSUME NEW d \in DOMAIN outbox, Dispatches(d)
        PROVE  /\ UsedIds' \subseteq UsedIds /\ UNCHANGED delivered
               /\ \A n \in Msgs : status'[n] = "idle" => status[n] = "idle"
    <2>1. /\ OnlySent(Resend(d)) /\ NoneBack /\ SessionKept /\ UNCHANGED delivered
          /\ \A n \in Msgs : status'[n] \in {status[n], "gone"}
          /\ \A j \in DOMAIN outbox' : \E i \in DOMAIN outbox : SameItem(outbox'[j], outbox[i])
      BY <1>7, DispatchesAt
    <2>2. Resend(d).id \in UsedIds
      BY ResendAt, InUse
    <2>3. Within(UsedIds)
      BY <1>b, <2>1, <2>2, InUse DEF OnlySent, NoneBack, SameItem
    <2>4. \A n \in Msgs : status'[n] = "idle" => status[n] = "idle"
      BY <2>1
    <2> HIDE DEF Within
    <2> QED BY <1>a, <2>1, <2>3, <2>4
  <1>8. ASSUME NEW m \in Msgs, NEW id \in Draw[m], Hands(m, id)
        PROVE  /\ UsedIds' \subseteq UsedIds \cup {id} /\ UNCHANGED delivered
               /\ status[m] = "idle" /\ status'[m] # "idle"
               /\ \A n \in Msgs : n # m => status'[n] = status[n]
    <2>1. Within(UsedIds \cup {id})
      BY <1>b, <1>8 DEF Hands, OnlySent, NoneBack, Carrying
    <2>2. /\ UNCHANGED delivered /\ status[m] = "idle" /\ status'[m] # "idle"
          /\ \A n \in Msgs : n # m => status'[n] = status[n]
      BY <1>8 DEF Hands
    <2> HIDE DEF Within
    <2> QED BY <1>a, <2>1, <2>2
  <1> HIDE DEF Within
  <1> QED BY <1>1, <1>2, <1>3, <1>4, <1>5, <1>6, <1>7, <1>8 DEF Steps

\* Messages still have one identifier, and none before they are handed over.
LEMMA IdsKept == ASSUME Disjoint, DeliveryInv, TypeOK', Steps PROVE IdsInv'
  <1>0. IdsInv /\ TypeOK
    BY DEF DeliveryInv
  <1>1. CASE /\ UsedIds' \subseteq UsedIds \cup {0}
             /\ \A n \in Msgs : status'[n] = "idle" => status[n] = "idle"
             /\ BrokerTakes \/ UNCHANGED delivered
    <2>1. \A m \in Msgs : UsedIds' \cap Draw[m] \subseteq UsedIds \cap Draw[m]
      BY <1>1, InUse
    <2>2. ASSUME BrokerTakes, NEW m \in Msgs, m \in delivered', m \notin delivered PROVE status[m] # "idle"
      <3>1. m = Head(up).m /\ Head(up).type \in MsgTypes /\ 1 \in DOMAIN up /\ up[1] = Head(up)
        BY <1>0, <2>2, TakesAt DEF Shifted
      <3>2. Carries(1, m)
        BY <3>1 DEF Carries
      <3> QED BY <3>1, <3>2, IdleIsNew
    <2>3. \A m \in Msgs : status'[m] = "idle" => m \notin delivered'
      BY <1>0, <1>1, <2>2 DEF IdsInv
    <2> QED BY <1>0, <1>1, <2>1, <2>3 DEF IdsInv
  <1>2. ASSUME NEW m \in Msgs, NEW id \in Draw[m],
               UsedIds' \subseteq UsedIds \cup {id}, UNCHANGED delivered,
               status[m] = "idle", status'[m] # "idle",
               \A n \in Msgs : n # m => status'[n] = status[n]
        PROVE  IdsInv'
    <2>1. \A n \in Msgs : n # m => UsedIds' \cap Draw[n] \subseteq UsedIds \cap Draw[n]
      BY <1>2 DEF Disjoint
    <2>2. UsedIds' \cap Draw[m] \subseteq {id}
      BY <1>0, <1>2 DEF IdsInv
    <2>3. ASSUME NEW n \in Msgs, NEW x \in UsedIds' \cap Draw[n], NEW y \in UsedIds' \cap Draw[n] PROVE x = y
      <3>1. CASE n = m
        BY <2>2, <3>1
      <3>2. CASE n # m
        BY <1>0, <2>1, <3>2 DEF IdsInv
      <3> QED BY <3>1, <3>2
    <2>4. \A n \in Msgs : status'[n] = "idle" => UsedIds' \cap Draw[n] = {} /\ n \notin delivered'
      BY <1>0, <1>2, <2>1 DEF IdsInv
    <2> QED BY <2>3, <2>4 DEF IdsInv
  <1> QED BY <1>1, <1>2, UsedIdsStep

\* After the step: a message has been taken, a packet carries one.
KnownNow(id)     == \A m \in Msgs : id \in Draw[m] => m \in delivered'
CarriesNow(k, m) == up'[k].type \in MsgTypes /\ up'[k].m = m

\* The packets of a step that are not on their way yet.
LEMMA WrittenAt ==
  ASSUME DeliveryInv, TypeOK'
  PROVE  /\ DOMAIN up = 1 .. Len(up) /\ Len(up) \in Nat /\ DOMAIN up' = 1 .. Len(up') /\ Len(up') \in Nat
         /\ \A id : Packet("PUBREL", id).type = "PUBREL" /\ Packet("PUBREL", id).id = id
         /\ \A m \in Msgs : Type[m] \in MsgTypes
         /\ "PUBLISH" \in MsgTypes /\ "PUBREL" \notin MsgTypes /\ "PINGREQ" \notin MsgTypes /\ "PUBACK" \notin MsgTypes
  <1>1. DOMAIN up = 1 .. Len(up) /\ Len(up) \in Nat /\ DOMAIN up' = 1 .. Len(up') /\ Len(up') \in Nat
    BY DEF DeliveryInv, TypeOK
  <1>2. \A m \in Msgs : Type[m] \in MsgTypes
    OBVIOUS
  <1> QED BY <1>1, <1>2 DEF Packet, MsgTypes

\* The fields of a packet that carries a message.
LEMMA CarryingAt ==
  ASSUME NEW m \in Msgs, NEW id
  PROVE  /\ Carrying(m, id, FALSE).type = Type[m] /\ Carrying(m, id, FALSE).type # "PUBREL"
         /\ Carrying(m, id, FALSE).id = id /\ Carrying(m, id, FALSE).m = m
  <1>1. Type[m] \in MsgTypes
    OBVIOUS
  <1> QED BY <1>1 DEF Carrying, MsgTypes

\* What is sent when a message is handed over.
LEMMA HandsSends ==
  ASSUME NEW m \in Msgs, NEW id, Hands(m, id), NEW k \in DOMAIN up'
  PROVE  \/ UpOld(k)
         \/ k = Len(up) + 1 /\ up'[k].type = Type[m] /\ up'[k].type # "PUBREL" /\ up'[k].id = id /\ up'[k].m = m
  <1>1. UpOld(k) \/ (k = Len(up) + 1 /\ up'[k] = Carrying(m, id, FALSE))
    BY DEF Hands, OnlySent
  <1>2. Type[m] # "PUBREL"
    BY DEF MsgTypes
  <1> QED BY <1>1, <1>2 DEF Carrying

\* Packets still carry the identifiers of their messages.
LEMMA SentKept == ASSUME Disjoint, DeliveryInv, TypeOK', Steps PROVE SentInv'
  <1>0. SentInv /\ TypeOK
    BY DEF DeliveryInv
  <1> DEFINE Good(p) == p.type \in MsgTypes => p.id \in Draw[p.m] /\ p.type = Type[p.m]
  <1>a. (\A k \in DOMAIN up' : Good(up'[k])) /\ inSession' \subseteq delivered' => SentInv'
    BY DEF SentInv
  <1>b. \A k : UpOld(k) => Good(up'[k])
    BY <1>0 DEF UpOld, SentInv
  <1>c. SessionKept /\ UNCHANGED delivered => inSession' \subseteq delivered'
    BY <1>0 DEF SentInv, SessionKept
  <1>d. Shifted => \A k \in DOMAIN up' : Good(up'[k])
    BY <1>0 DEF SentInv, Shifted
  <1>e. \A p : OnlySent(p) /\ Good(p) => \A k \in DOMAIN up' : Good(up'[k])
    BY <1>b DEF OnlySent
  <1>f. \A type \in {"PINGREQ", "PUBACK"} : type \notin MsgTypes
    BY DEF MsgTypes
  <1>1. CASE Passive
    <2>1. \A k \in DOMAIN up' : Good(up'[k])
      BY <1>1, <1>b, <1>f DEF Passive
    <2> QED BY <1>1, <1>a, <1>c, <2>1 DEF Passive
  <1>2. CASE BrokerTakes
    <2>1. inSession' \subseteq delivered'
      BY <1>0, <1>2, TakesAt DEF SentInv
    <2> QED BY <1>0, <1>2, <1>a, <1>d, <2>1, TakesAt
  <1>3. CASE BrokerAnswers
    <2>1. inSession' \subseteq delivered'
      BY <1>0, <1>3, AnswersAt DEF SentInv
    <2> QED BY <1>0, <1>3, <1>a, <1>d, <2>1, AnswersAt
  <1>4. CASE Records
    <2>1. Good(Packet("PUBREL", Head(down).id))
      BY WrittenAt
    <2> HIDE DEF Good
    <2> QED BY <1>0, <1>4, <1>a, <1>c, <1>e, <2>1, RecordsAt
  <1>5. ASSUME NEW m \in Msgs, NEW id \in Draw[m], Hands(m, id) PROVE SentInv'
    <2>1. \A k \in DOMAIN up' : Good(up'[k])
      BY <1>5, <1>b, HandsSends
    <2> QED BY <1>5, <1>a, <1>c, <2>1 DEF Hands
  <1>6. ASSUME NEW i \in DOMAIN outbox, Dispatches(i) \/ Repeats(i) PROVE SentInv'
    <2>1. Good(Resend(i))
      BY ResendAt
    <2> HIDE DEF Good
    <2> QED BY <1>6, <1>a, <1>c, <1>e, <2>1, DispatchesAt, RepeatsAt
  <1>7. ASSUME NEW i \in DOMAIN outbox, Releases(i) PROVE SentInv'
    <2>1. Good(Packet("PUBREL", outbox[i].id))
      BY WrittenAt
    <2> HIDE DEF Good
    <2> QED BY <1>7, <1>a, <1>c, <1>e, <2>1, ReleasesAt
  <1> QED BY <1>1, <1>2, <1>3, <1>4, <1>5, <1>6, <1>7 DEF Steps

\* An identifier of a message that was taken is known.
LEMMA TakenIsKnown ==
  ASSUME Disjoint, NEW m \in Msgs, NEW id \in Draw[m]
  PROVE  (m \in delivered => Known(id)) /\ (m \in delivered' => KnownNow(id))
  BY DEF Disjoint, Known, KnownNow

\* What is answered, released or acknowledged was taken.
LEMMA KnownKept == ASSUME Disjoint, DeliveryInv, TypeOK', Steps PROVE KnownInv'
  <1>0. KnownInv /\ TypeOK
    BY DEF DeliveryInv
  <1> DEFINE
        Backs    == \A k \in DOMAIN down' : down'[k].type \in Acks => KnownNow(down'[k].id)
        Freed   == \A k \in DOMAIN up' : up'[k].type = "PUBREL" => KnownNow(up'[k].id)
        Waits    == \A id \in unreleased' : KnownNow(id)
        Marks    == \A j \in DOMAIN outbox' : outbox'[j].pending = "ACKNOWLEDGED" => outbox'[j].m \in delivered'
        Acked    == \A m \in Msgs : status'[m] = "acked" => m \in delivered'
  <1>a. Backs /\ Freed /\ Waits /\ Marks /\ Acked => KnownInv'
    BY DEF KnownInv, Known, KnownNow
  <1>b. delivered \subseteq delivered'
    BY <1>0, TakesAt, AnswersAt, RecordsAt, DispatchesAt, RepeatsAt, ReleasesAt DEF Steps, Passive, Hands
  <1>c. \A id : Known(id) => KnownNow(id)
    BY <1>b DEF Known, KnownNow
  <1>d. /\ \A k : DownOld(k) /\ down'[k].type \in Acks => KnownNow(down'[k].id)
        /\ \A k : UpOld(k) /\ up'[k].type = "PUBREL" => KnownNow(up'[k].id)
        /\ \A j : ItemOld(j) /\ outbox'[j].pending = "ACKNOWLEDGED" => outbox'[j].m \in delivered'
    BY <1>0, <1>b, <1>c DEF KnownInv, DownOld, UpOld, ItemOld, SameItem
  <1>e. /\ SessionKept => Waits
        /\ NoneBack => Backs
        /\ UNCHANGED outbox => Marks
        /\ UNCHANGED status => Acked
        /\ Shifted => Freed
    BY <1>0, <1>b, <1>c, <1>d DEF KnownInv, SessionKept, NoneBack, Shifted
  <1>f. \A p : OnlySent(p) /\ (p.type = "PUBREL" => KnownNow(p.id)) => Freed
    BY <1>d DEF OnlySent
  <1>1. CASE Passive
    <2>1. Backs /\ Freed
      BY <1>1, <1>d DEF Passive, Acks
    <2>2. Marks /\ Acked
      BY <1>0, <1>1, <1>b, <1>d DEF Passive, KnownInv
    <2> HIDE DEF Backs, Freed, Waits, Marks, Acked
    <2> QED BY <1>1, <1>a, <1>e, <2>1, <2>2 DEF Passive
  <1>2. CASE BrokerTakes
    <2> DEFINE m == Head(up).m
               id == Head(up).id
    <2>1. m \in Msgs /\ id \in Draw[m]
      BY <1>0, <1>2, TakesAt DEF DeliveryInv, SentInv, Shifted
    <2>2. KnownNow(id)
      <3>1. CASE m \in delivered'
        BY <2>1, <3>1, TakenIsKnown
      <3>2. CASE id \in unreleased
        BY <1>0, <1>c, <3>2 DEF KnownInv
      <3> QED BY <1>0, <1>2, <3>1, <3>2, TakesAt
    <2>3. unreleased' \subseteq unreleased \cup {id} /\ UNCHANGED <<outbox, status>> /\ Shifted
      BY <1>0, <1>2, TakesAt
    <2>4. Waits
      BY <1>0, <1>c, <2>2, <2>3 DEF KnownInv
    <2>5. Backs
      BY <1>0, <1>2, <1>d, <2>2, TakesAt
    <2> HIDE DEF Backs, Freed, Waits, Marks, Acked
    <2> QED BY <1>a, <1>e, <2>3, <2>4, <2>5
  <1>3. CASE BrokerAnswers
    <2>1. Head(up).type = "PUBREL" => KnownNow(Head(up).id)
      BY <1>0, <1>3, <1>c, AnswersAt DEF KnownInv, Shifted
    <2>2. Backs
      BY <1>0, <1>3, <1>d, <2>1, AnswersAt
    <2>3. Waits
      BY <1>0, <1>3, <1>c, AnswersAt DEF KnownInv
    <2> HIDE DEF Backs, Freed, Waits, Marks, Acked
    <2> QED BY <1>0, <1>3, <1>a, <1>e, <2>2, <2>3, AnswersAt
  <1>4. CASE Records
    <2>1. Known(Head(down).id)
      BY <1>0, <1>4, RecordsAt DEF KnownInv, Acks
    <2>2. Freed
      BY <1>0, <1>4, <1>c, <1>f, <2>1, RecordsAt, WrittenAt
    <2>3. ASSUME NEW j \in DOMAIN outbox', outbox'[j].pending = "ACKNOWLEDGED" PROVE outbox'[j].m \in delivered'
      <3>1. j \in DOMAIN outbox /\ outbox'[j].m = outbox[j].m
        BY <1>4, RecordsMarks DEF SameItem
      <3>2. CASE outbox[j].id = Head(down).id
        BY <1>b, <2>1, <3>1, <3>2, ResendAt DEF Known
      <3>3. CASE outbox[j].id # Head(down).id
        BY <1>0, <1>4, <1>b, <2>3, <3>1, <3>3, RecordsMarks DEF KnownInv
      <3> QED BY <3>2, <3>3
    <2>4. Marks
      BY <2>3
    <2> HIDE DEF Backs, Freed, Waits, Marks, Acked
    <2> QED BY <1>0, <1>4, <1>a, <1>e, <2>2, <2>4, RecordsAt
  <1>5. ASSUME NEW m \in Msgs, NEW id \in Draw[m], Hands(m, id) PROVE KnownInv'
    <2>0. Carrying(m, id, FALSE).type # "PUBREL"
      BY CarryingAt
    <2>1. Freed
      BY <1>5, <1>f, <2>0 DEF Hands
    <2>2. Marks
      BY <1>5, <1>d DEF Hands
    <2>3. Acked
      BY <1>0, <1>5, <1>b DEF Hands, KnownInv
    <2> HIDE DEF Backs, Freed, Waits, Marks, Acked
    <2> QED BY <1>5, <1>a, <1>e, <2>1, <2>2, <2>3 DEF Hands
  <1>6. ASSUME NEW i \in DOMAIN outbox, OnlySent(Resend(i)) PROVE Freed
    BY <1>6, <1>f, ResendAt, WrittenAt DEF MsgTypes
  <1>7. ASSUME NEW i \in DOMAIN outbox, Dispatches(i) PROVE KnownInv'
    <2>1. Freed
      BY <1>6, <1>7, DispatchesAt
    <2>2. Marks
      BY <1>0, <1>7, <1>b, DispatchesAt DEF KnownInv, SameItem
    <2>3. Acked
      BY <1>0, <1>7, <1>b, DispatchesAt DEF KnownInv
    <2> HIDE DEF Backs, Freed, Waits, Marks, Acked
    <2> QED BY <1>7, <1>a, <1>e, <2>1, <2>2, <2>3, DispatchesAt
  <1>8. ASSUME NEW i \in DOMAIN outbox, Repeats(i) PROVE KnownInv'
    <2> HIDE DEF Backs, Freed, Waits, Marks, Acked
    <2> QED BY <1>6, <1>8, <1>a, <1>e, RepeatsAt
  <1>9. ASSUME NEW i \in DOMAIN outbox, Releases(i) PROVE KnownInv'
    <2>1. Known(outbox[i].id)
      BY <1>0, <1>9, ResendAt, TakenIsKnown DEF Releases, KnownInv
    <2>2. Freed
      BY <1>9, <1>c, <1>f, <2>1, ReleasesAt, WrittenAt
    <2> HIDE DEF Backs, Freed, Waits, Marks, Acked
    <2> QED BY <1>9, <1>a, <1>e, <2>2, ReleasesAt
  <1> QED BY <1>1, <1>2, <1>3, <1>4, <1>5, <1>7, <1>8, <1>9 DEF Steps

\* A step that sends at most one packet, which is the first of its message when it has no DUP flag,
LEMMA FirstSent ==
  ASSUME DeliveryInv, TypeOK', UNCHANGED delivered,
         \A k \in DOMAIN up' :
           \/ UpOld(k) \/ up'[k].type \notin MsgTypes
           \/ /\ k = Len(up) + 1
              /\ up'[k].type = "PUBLISH" /\ ~ up'[k].dup =>
                   up'[k].m \notin delivered /\ \A j \in DOMAIN up : ~ Carries(j, up'[k].m)
  PROVE  FirstInv'
  <1>1. SUFFICES ASSUME NEW k \in DOMAIN up', up'[k].type = "PUBLISH", ~ up'[k].dup
                 PROVE  up'[k].m \notin delivered /\ \A j \in 1 .. k - 1 : ~ CarriesNow(j, up'[k].m)
    BY DEF FirstInv, Carries, CarriesNow
  <1>2. \A j \in 1 .. k - 1 : j \in DOMAIN up' /\ j < k
    BY WrittenAt
  <1>3. CASE UpOld(k)
    <2>1. up[k].m \notin delivered /\ \A j \in 1 .. k - 1 : ~ Carries(j, up[k].m)
      BY <1>1, <1>3 DEF UpOld, DeliveryInv, FirstInv
    <2>2. \A j \in 1 .. k - 1 : UpOld(j) \/ up'[j].type \notin MsgTypes
      BY <1>2, <1>3, WrittenAt DEF UpOld
    <2> QED BY <1>3, <2>1, <2>2 DEF UpOld, Carries, CarriesNow
  <1>4. CASE ~ UpOld(k)
    <2>1. /\ k = Len(up) + 1
          /\ up'[k].m \notin delivered /\ \A j \in DOMAIN up : ~ Carries(j, up'[k].m)
      BY <1>1, <1>4, WrittenAt
    <2>2. \A j \in 1 .. k - 1 : UpOld(j) \/ up'[j].type \notin MsgTypes
      BY <1>2, <2>1, WrittenAt
    <2> QED BY <2>1, <2>2 DEF UpOld, Carries, CarriesNow
  <1> QED BY <1>3, <1>4

\* and one that reads a packet.
LEMMA FirstRead ==
  ASSUME DeliveryInv, TypeOK', Shifted,
         UNCHANGED delivered \/ (delivered' = delivered \cup {Head(up).m} /\ Head(up).type \in MsgTypes)
  PROVE  FirstInv'
  <1>1. SUFFICES ASSUME NEW k \in DOMAIN up', up'[k].type = "PUBLISH", ~ up'[k].dup
                 PROVE  up'[k].m \notin delivered' /\ \A j \in 1 .. k - 1 : ~ CarriesNow(j, up'[k].m)
    BY DEF FirstInv, Carries, CarriesNow
  <1>2. k \in 1 .. Len(up') /\ Len(up') \in Nat /\ k + 1 \in DOMAIN up /\ up'[k] = up[k + 1] /\ 1 \in 1 .. (k + 1) - 1
    BY WrittenAt DEF Shifted
  <1>3. up[k + 1].m \notin delivered /\ \A j \in 1 .. (k + 1) - 1 : ~ Carries(j, up[k + 1].m)
    BY <1>1, <1>2 DEF DeliveryInv, FirstInv
  <1>4. up[k + 1].m \notin delivered'
    BY <1>2, <1>3 DEF Carries, Shifted
  <1>5. ASSUME NEW j \in 1 .. k - 1 PROVE ~ CarriesNow(j, up'[k].m)
    <2>1. j \in DOMAIN up' /\ j + 1 \in 1 .. (k + 1) - 1
      BY <1>2, WrittenAt
    <2>2. up'[j] = up[j + 1]
      BY <2>1 DEF Shifted
    <2> QED BY <1>2, <1>3, <2>1, <2>2 DEF Carries, CarriesNow
  <1> QED BY <1>2, <1>4, <1>5

\* A PUBLISH without the DUP flag is still the first of its message.
LEMMA FirstKept == ASSUME Disjoint, DeliveryInv, TypeOK', Steps PROVE FirstInv'
  <1>0. TypeOK
    BY DEF DeliveryInv
  <1>1. CASE Passive
    BY <1>1, FirstSent DEF Passive, MsgTypes
  <1>2. CASE BrokerTakes
    BY <1>0, <1>2, TakesAt, FirstRead
  <1>3. CASE BrokerAnswers
    BY <1>0, <1>3, AnswersAt, FirstRead
  <1>4. CASE Records
    BY <1>0, <1>4, RecordsAt, WrittenAt, FirstSent DEF OnlySent
  <1>5. ASSUME NEW m \in Msgs, NEW id \in Draw[m], Hands(m, id) PROVE FirstInv'
    <2>1. UNCHANGED delivered /\ OnlySent(Carrying(m, id, FALSE)) /\ m \notin delivered
      BY <1>5, IdleIsNew DEF Hands
    <2>2. Carrying(m, id, FALSE).m = m /\ \A k \in DOMAIN up : ~ Carries(k, m)
      BY <1>5, IdleIsNew, CarryingAt DEF Hands
    <2> QED BY <2>1, <2>2, FirstSent DEF OnlySent
  <1>6. ASSUME NEW i \in DOMAIN outbox, Dispatches(i) PROVE FirstInv'
    <2>1. outbox[i].type = "PUBLISH" =>
            outbox[i].m \notin delivered /\ \A k \in DOMAIN up : ~ Carries(k, outbox[i].m)
      BY <1>6 DEF Dispatches, DeliveryInv, QueuedInv
    <2> QED BY <1>6, <2>1, DispatchesAt, ResendAt, FirstSent DEF OnlySent
  <1>7. ASSUME NEW i \in DOMAIN outbox, Repeats(i) PROVE FirstInv'
    <2>1. outbox[i].type = "PUBLISH" => Resend(i).dup
      BY <1>7, ResendAt DEF Repeats
    <2> QED BY <1>7, <2>1, RepeatsAt, ResendAt, FirstSent DEF OnlySent
  <1>8. ASSUME NEW i \in DOMAIN outbox, Releases(i) PROVE FirstInv'
    BY <1>8, ReleasesAt, WrittenAt, FirstSent DEF OnlySent
  <1> QED BY <1>1, <1>2, <1>3, <1>4, <1>5, <1>6, <1>7, <1>8 DEF Steps

\* An item that is QUEUED was still never written.
LEMMA QueuedKept == ASSUME Disjoint, DeliveryInv, TypeOK', Steps PROVE QueuedInv'
  <1>0. TypeOK /\ QueuedInv
    BY DEF DeliveryInv
  <1> DEFINE New(m) == m \notin delivered' /\ \A k \in DOMAIN up' : ~ (up'[k].type \in MsgTypes /\ up'[k].m = m)
             Was(m) == m \notin delivered /\ \A k \in DOMAIN up : ~ Carries(k, m)
  <1>a. (\A j \in DOMAIN outbox' : outbox'[j].pending = "QUEUED" /\ outbox'[j].type = "PUBLISH" => New(outbox'[j].m))
        => QueuedInv'
    BY DEF QueuedInv, Carries
  <1>b. \A i \in DOMAIN outbox : outbox[i].pending = "QUEUED" /\ outbox[i].type = "PUBLISH" => Was(outbox[i].m)
    BY <1>0 DEF QueuedInv
  <1>c. \A j : ItemOld(j) /\ outbox'[j].pending = "QUEUED" /\ outbox'[j].type = "PUBLISH" => Was(outbox'[j].m)
    BY <1>b DEF ItemOld, SameItem
  <1>d. ASSUME NEW m, Was(m), UNCHANGED delivered,
               \A k \in DOMAIN up' : UpOld(k) \/ ~ (up'[k].type \in MsgTypes /\ up'[k].m = m)
        PROVE  New(m)
    BY <1>d DEF UpOld, Carries
  <1>e. ASSUME NEW m, Was(m), Shifted,
               UNCHANGED delivered \/ (delivered' = delivered \cup {Head(up).m} /\ Head(up).type \in MsgTypes)
        PROVE  New(m)
    BY <1>e DEF Shifted, Carries
  <1> HIDE DEF New, Was
  <1>1. CASE Passive
    BY <1>1, <1>a, <1>c, <1>d DEF Passive, MsgTypes
  <1>2. CASE BrokerTakes
    BY <1>0, <1>2, <1>a, <1>b, <1>e, TakesAt
  <1>3. CASE BrokerAnswers
    BY <1>0, <1>3, <1>a, <1>b, <1>e, AnswersAt
  <1>4. CASE Records
    <2>1. \A k \in DOMAIN up' : UpOld(k) \/ up'[k].type \notin MsgTypes
      BY <1>0, <1>4, RecordsAt, WrittenAt DEF OnlySent
    <2>2. \A j \in DOMAIN outbox' : outbox'[j].pending = "QUEUED" /\ outbox'[j].type = "PUBLISH" => Was(outbox'[j].m)
      BY <1>4, <1>b, RecordsMarks DEF SameItem
    <2> QED BY <1>0, <1>4, <1>a, <1>d, <2>1, <2>2, RecordsAt
  <1>5. ASSUME NEW m \in Msgs, NEW id \in Draw[m], Hands(m, id) PROVE QueuedInv'
    <2>0. UNCHANGED delivered
      BY <1>5 DEF Hands
    <2>1. ASSUME NEW j \in DOMAIN outbox', outbox'[j].pending = "QUEUED", outbox'[j].type = "PUBLISH", ItemOld(j)
          PROVE  New(outbox'[j].m)
      <3>1. outbox'[j].m # m
        BY <1>5, <2>1, IdleIsNew DEF Hands, ItemOld, SameItem
      <3>2. \A k \in DOMAIN up' : UpOld(k) \/ ~ (up'[k].type \in MsgTypes /\ up'[k].m = outbox'[j].m)
        BY <1>5, <3>1, HandsSends
      <3> QED BY <1>c, <1>d, <2>0, <2>1, <3>2
    <2>2. ASSUME NEW j \in DOMAIN outbox', outbox'[j].m = m, NoneSent PROVE New(outbox'[j].m)
      <3>1. Was(m)
        BY <1>5, IdleIsNew DEF Hands, Was
      <3> QED BY <1>d, <2>0, <2>2, <3>1 DEF NoneSent
    <2> QED BY <1>5, <1>a, <2>1, <2>2 DEF Hands
  <1>6. ASSUME NEW d \in DOMAIN outbox, Dispatches(d) PROVE QueuedInv'
    <2>0. UNCHANGED delivered
      BY <1>6, DispatchesAt
    <2>1. ASSUME NEW j \in DOMAIN outbox', outbox'[j].pending = "QUEUED", outbox'[j].type = "PUBLISH"
          PROVE  New(outbox'[j].m)
      <3>1. PICK i \in DOMAIN outbox :
              /\ SameItem(outbox'[j], outbox[i]) /\ outbox[i].pending = "QUEUED"
              /\ i # d \/ outbox[d].type # "PUBLISH"
        BY <1>6, <2>1, DispatchesAt
      <3>2. outbox[i].m # outbox[d].m
        BY <2>1, <3>1 DEF SameItem, DeliveryInv, KeptInv
      <3>3. \A k \in DOMAIN up' : UpOld(k) \/ ~ (up'[k].type \in MsgTypes /\ up'[k].m = outbox[i].m)
        BY <1>6, <3>2, DispatchesAt, ResendAt DEF OnlySent
      <3>4. Was(outbox[i].m) /\ outbox'[j].m = outbox[i].m
        BY <1>b, <2>1, <3>1 DEF SameItem
      <3> QED BY <1>d, <2>0, <3>3, <3>4
    <2> QED BY <1>a, <2>1
  <1>7. ASSUME NEW d \in DOMAIN outbox, Repeats(d) PROVE QueuedInv'
    <2>1. UNCHANGED <<outbox, delivered>>
      BY <1>7, RepeatsAt
    <2>2. ASSUME NEW i \in DOMAIN outbox, outbox[i].pending = "QUEUED", outbox[i].type = "PUBLISH"
          PROVE  New(outbox[i].m)
      <3>1. outbox[i].m # outbox[d].m
        BY <1>7, <2>2 DEF Repeats, DeliveryInv, KeptInv
      <3>2. \A k \in DOMAIN up' : UpOld(k) \/ ~ (up'[k].type \in MsgTypes /\ up'[k].m = outbox[i].m)
        BY <1>7, <3>1, RepeatsAt, ResendAt DEF OnlySent
      <3> QED BY <1>b, <1>d, <2>1, <2>2, <3>2
    <2> QED BY <1>a, <2>1, <2>2
  <1>8. ASSUME NEW i \in DOMAIN outbox, Releases(i) PROVE QueuedInv'
    <2>1. \A k \in DOMAIN up' : UpOld(k) \/ up'[k].type \notin MsgTypes
      BY <1>8, ReleasesAt, WrittenAt DEF OnlySent
    <2>2. UNCHANGED <<outbox, delivered>>
      BY <1>8, ReleasesAt
    <2> QED BY <1>a, <1>b, <1>d, <2>1, <2>2
  <1> QED BY <1>1, <1>2, <1>3, <1>4, <1>5, <1>6, <1>7, <1>8 DEF Steps

\* Behind its PUBREL a message is still not written again.
LEMMA ReleaseKept == ASSUME Disjoint, DeliveryInv, TypeOK', Steps PROVE ReleaseInv'
  <1>0. TypeOK /\ ReleaseInv
    BY DEF DeliveryInv
  <1> DEFINE
        NowMarked(m)   == \A j \in DOMAIN outbox' : outbox'[j].m = m => outbox'[j].pending = "ACKNOWLEDGED"
        Before(k, m) == \A j \in DOMAIN up' : CarriesNow(j, m) => j < k
        FreesNow(k, m) == up'[k].type = "PUBREL" /\ up'[k].id \in Draw[m]
        WasMarked(m) == \A i \in DOMAIN outbox : outbox[i].m = m => outbox[i].pending = "ACKNOWLEDGED"
  <1>a. (\A k \in DOMAIN up' : \A m \in Msgs : FreesNow(k, m) => NowMarked(m) /\ Before(k, m)) => ReleaseInv'
    BY DEF ReleaseInv, Carries, CarriesNow, Frees
  <1>b. ASSUME NEW k, NEW m \in Msgs, UpOld(k), FreesNow(k, m),
               \A j \in DOMAIN up' : UpOld(j) \/ ~ CarriesNow(j, m)
        PROVE  WasMarked(m) /\ Before(k, m)
    <2>1. k \in DOMAIN up /\ Frees(k, m)
      BY <1>b DEF UpOld, Frees
    <2>2. WasMarked(m) /\ \A j \in DOMAIN up : Carries(j, m) => j < k
      BY <1>0, <2>1 DEF ReleaseInv
    <2> QED BY <1>b, <2>2 DEF UpOld, Carries, CarriesNow
  <1>c. ASSUME NEW m, WasMarked(m), \A j \in DOMAIN outbox' : ItemOld(j) PROVE NowMarked(m)
    BY <1>c DEF ItemOld, SameItem
  <1>d. ASSUME Shifted, UNCHANGED outbox PROVE ReleaseInv'
    <2>1. ASSUME NEW k \in DOMAIN up', NEW m \in Msgs, FreesNow(k, m) PROVE NowMarked(m) /\ Before(k, m)
      <3>1. k \in Nat /\ k + 1 \in DOMAIN up /\ Frees(k + 1, m)
        BY <1>d, <2>1 DEF Shifted, Frees
      <3>2. WasMarked(m) /\ \A j \in DOMAIN up : Carries(j, m) => j < k + 1
        BY <1>0, <3>1 DEF ReleaseInv
      <3>3. ASSUME NEW j \in DOMAIN up', CarriesNow(j, m) PROVE j < k
        <4>1. j \in Nat /\ j + 1 \in DOMAIN up /\ Carries(j + 1, m)
          BY <1>d, <3>3 DEF Shifted, Carries, CarriesNow
        <4> QED BY <3>1, <3>2, <4>1
      <3> QED BY <1>d, <3>2, <3>3
    <2> QED BY <1>a, <2>1
  <1>e. ASSUME NEW j \in DOMAIN up' PROVE j < Len(up) + 1 \/ ~ UpOld(j)
    BY WrittenAt DEF UpOld
  <1> HIDE DEF NowMarked, Before, FreesNow, WasMarked
  <1>1. CASE Passive
    <2>1. ASSUME NEW k \in DOMAIN up', NEW m \in Msgs, FreesNow(k, m) PROVE NowMarked(m) /\ Before(k, m)
      <3>1. UpOld(k) /\ \A j \in DOMAIN up' : UpOld(j) \/ ~ CarriesNow(j, m)
        BY <1>1, <2>1 DEF Passive, FreesNow, CarriesNow, MsgTypes
      <3> QED BY <1>1, <1>b, <1>c, <2>1, <3>1 DEF Passive
    <2> QED BY <1>a, <2>1
  <1>2. CASE BrokerTakes
    BY <1>0, <1>2, <1>d, TakesAt
  <1>3. CASE BrokerAnswers
    BY <1>0, <1>3, <1>d, AnswersAt
  <1>4. CASE Records
    <2>0. \A m : \A j \in DOMAIN up' : UpOld(j) \/ ~ CarriesNow(j, m)
      BY <1>0, <1>4, RecordsAt, WrittenAt DEF OnlySent, CarriesNow
    <2>1. ASSUME NEW k \in DOMAIN up', NEW m \in Msgs, FreesNow(k, m) PROVE NowMarked(m) /\ Before(k, m)
      <3>1. CASE UpOld(k)
        <4>1. WasMarked(m) /\ Before(k, m)
          BY <1>b, <2>0, <2>1, <3>1
        <4>2. NowMarked(m)
          BY <1>4, <4>1, RecordsMarks DEF SameItem, NowMarked, WasMarked
        <4> QED BY <4>1, <4>2
      <3>2. CASE ~ UpOld(k)
        <4>1. k = Len(up) + 1 /\ Head(down).id \in Draw[m]
          BY <1>0, <1>4, <2>1, <3>2, RecordsAt, WrittenAt DEF OnlySent, FreesNow
        <4>2. Before(k, m)
          BY <1>e, <2>0, <4>1 DEF Before
        <4>3. ASSUME NEW j \in DOMAIN outbox', outbox'[j].m = m PROVE outbox'[j].pending = "ACKNOWLEDGED"
          <5>1. j \in DOMAIN outbox /\ outbox[j].m = m
            BY <1>4, <4>3, RecordsMarks DEF SameItem
          <5>2. outbox[j].id \in Draw[m] /\ outbox[j].id \in UsedIds /\ Head(down).id \in UsedIds
            BY <1>0, <1>4, <5>1, ResendAt, RecordsAt, InUse
          <5>3. outbox[j].id = Head(down).id
            BY <4>1, <5>2 DEF DeliveryInv, IdsInv
          <5> QED BY <1>4, <5>1, <5>3, RecordsMarks
        <4> QED BY <4>2, <4>3 DEF NowMarked
      <3> QED BY <3>1, <3>2
    <2> QED BY <1>a, <2>1
  <1>5. ASSUME NEW n \in Msgs, NEW id \in Draw[n], Hands(n, id) PROVE ReleaseInv'
    <2>1. ASSUME NEW k \in DOMAIN up', NEW m \in Msgs, FreesNow(k, m) PROVE NowMarked(m) /\ Before(k, m)
      <3>1. UpOld(k)
        BY <1>5, <2>1, HandsSends DEF FreesNow
      <3>2. m # n
        BY <1>5, <2>1, <3>1, IdleIsNew DEF Hands, UpOld, Frees, FreesNow
      <3>3. \A j \in DOMAIN up' : UpOld(j) \/ ~ CarriesNow(j, m)
        BY <1>5, <3>2, HandsSends DEF CarriesNow
      <3>4. WasMarked(m) /\ Before(k, m)
        BY <1>b, <2>1, <3>1, <3>3
      <3>5. NowMarked(m)
        BY <1>5, <3>2, <3>4 DEF Hands, NowMarked, WasMarked, ItemOld, SameItem
      <3> QED BY <3>4, <3>5
    <2> QED BY <1>a, <2>1
  <1>6. ASSUME NEW d \in DOMAIN outbox, Dispatches(d) \/ Repeats(d) PROVE ReleaseInv'
    <2>0. OnlySent(Resend(d)) /\ outbox[d].pending # "ACKNOWLEDGED"
      BY <1>6, DispatchesAt, RepeatsAt DEF Dispatches, Repeats
    <2>1. ASSUME NEW k \in DOMAIN up', NEW m \in Msgs, FreesNow(k, m) PROVE NowMarked(m) /\ Before(k, m)
      <3>1. UpOld(k)
        BY <2>0, <2>1, ResendAt, WrittenAt DEF OnlySent, FreesNow
      <3>2. WasMarked(m)
        BY <1>0, <2>1, <3>1 DEF UpOld, Frees, FreesNow, ReleaseInv, WasMarked
      <3>3. outbox[d].m # m
        BY <2>0, <3>2 DEF WasMarked
      <3>4. \A j \in DOMAIN up' : UpOld(j) \/ ~ CarriesNow(j, m)
        BY <2>0, <3>3, ResendAt DEF OnlySent, CarriesNow
      <3>5. Before(k, m)
        BY <1>b, <2>1, <3>1, <3>4
      <3>6. CASE Dispatches(d)
        <4>1. \A j \in DOMAIN outbox' : \E i \in DOMAIN outbox :
                SameItem(outbox'[j], outbox[i]) /\ (outbox'[j].pending = outbox[i].pending \/ i = d)
          BY <3>6, DispatchesAt
        <4>2. NowMarked(m)
          BY <3>2, <3>3, <4>1 DEF SameItem, NowMarked, WasMarked
        <4> QED BY <3>5, <4>2
      <3>7. CASE Repeats(d)
        BY <3>2, <3>5, <3>7, RepeatsAt DEF NowMarked, WasMarked
      <3> QED BY <1>6, <3>6, <3>7
    <2> QED BY <1>a, <2>1
  <1>7. ASSUME NEW i \in DOMAIN outbox, Releases(i) PROVE ReleaseInv'
    <2>0. OnlySent(Packet("PUBREL", outbox[i].id)) /\ UNCHANGED outbox /\ outbox[i].pending = "ACKNOWLEDGED"
      BY <1>7, ReleasesAt DEF Releases
    <2>a. \A m : \A j \in DOMAIN up' : UpOld(j) \/ ~ CarriesNow(j, m)
      BY <2>0, WrittenAt DEF OnlySent, CarriesNow
    <2>1. ASSUME NEW k \in DOMAIN up', NEW m \in Msgs, FreesNow(k, m) PROVE NowMarked(m) /\ Before(k, m)
      <3>1. CASE UpOld(k)
        BY <1>b, <2>0, <2>a, <2>1, <3>1 DEF NowMarked, WasMarked
      <3>2. CASE ~ UpOld(k)
        <4>1. k = Len(up) + 1 /\ outbox[i].id \in Draw[m]
          BY <2>0, <2>1, <3>2, WrittenAt DEF OnlySent, FreesNow
        <4>2. outbox[i].m = m
          BY <4>1, ResendAt DEF Disjoint
        <4>3. NowMarked(m)
          BY <2>0, <4>2 DEF NowMarked, DeliveryInv, KeptInv
        <4>4. Before(k, m)
          BY <1>e, <2>a, <4>1 DEF Before
        <4> QED BY <4>3, <4>4
      <3> QED BY <3>1, <3>2
    <2> QED BY <1>a, <2>1
  <1> QED BY <1>1, <1>2, <1>3, <1>4, <1>5, <1>6, <1>7 DEF Steps

\* Messages of QoS 2 that may be written again still wait for their release.
LEMMA UnreleasedKept == ASSUME Disjoint, DeliveryInv, TypeOK', Steps PROVE UnreleasedInv'
  <1>0. TypeOK /\ UnreleasedInv
    BY DEF DeliveryInv
  <1> DEFINE
        Now(m) == /\ \A k \in DOMAIN up' : CarriesNow(k, m) => up'[k].id \in unreleased'
                  /\ \A j \in DOMAIN outbox' : outbox'[j].m = m /\ outbox'[j].pending # "ACKNOWLEDGED" =>
                       outbox'[j].id \in unreleased'
        Was(m) == /\ \A k \in DOMAIN up : Carries(k, m) => up[k].id \in unreleased
                  /\ \A i \in DOMAIN outbox : outbox[i].m = m /\ outbox[i].pending # "ACKNOWLEDGED" =>
                       outbox[i].id \in unreleased
        Exactly(m) == Type[m] = "PUBLISH" /\ QoS[m] = 2
  <1>a. (\A m \in inSession' : Exactly(m) => Now(m)) => UnreleasedInv'
    BY DEF UnreleasedInv, Carries, CarriesNow
  <1>b. \A m \in inSession : Exactly(m) => Was(m)
    BY <1>0 DEF UnreleasedInv
  <1>c. ASSUME SessionKept, \A m \in inSession : Was(m) /\ UNCHANGED <<unreleased, inSession>> => Now(m)
        PROVE  UnreleasedInv'
    <2>1. \A m \in inSession' : UNCHANGED <<unreleased, inSession>>
      BY <1>c DEF SessionKept
    <2> HIDE DEF Now, Was
    <2> QED BY <1>a, <1>b, <1>c, <2>1 DEF SessionKept
  <1>d. ASSUME NEW m, Was(m), UNCHANGED unreleased,
               \A k \in DOMAIN up' : UpOld(k) \/ ~ CarriesNow(k, m) \/ up'[k].id \in unreleased,
               \A j \in DOMAIN outbox' : \/ ItemOld(j) \/ outbox'[j].m # m
                                         \/ outbox'[j].pending = "ACKNOWLEDGED" \/ outbox'[j].id \in unreleased
        PROVE  Now(m)
    BY <1>d DEF UpOld, ItemOld, SameItem, Carries, CarriesNow
  <1> HIDE DEF Now, Was, Exactly
  <1>1. CASE Passive
    <2>1. \A m : \A k \in DOMAIN up' : UpOld(k) \/ ~ CarriesNow(k, m)
      BY <1>1 DEF Passive, CarriesNow, MsgTypes
    <2> QED BY <1>1, <1>c, <1>d, <2>1 DEF Passive
  <1>2. CASE BrokerTakes
    <2> DEFINE h == Head(up).m
               id == Head(up).id
    <2>1. /\ inSession' \subseteq inSession \cup {h} /\ unreleased \subseteq unreleased' /\ UNCHANGED outbox /\ Shifted
          /\ Exactly(h) => id \in unreleased'
      BY <1>0, <1>2, TakesAt DEF Exactly
    <2>2. ASSUME NEW m \in inSession, Exactly(m) PROVE Now(m)
      <3>1. Was(m)
        BY <1>b, <2>2
      <3> QED BY <2>1, <3>1 DEF Was, Now, Shifted, Carries, CarriesNow
    <2>3. ASSUME Exactly(h) PROVE Now(h)
      <3>1. h \in Msgs /\ id \in UsedIds /\ id \in Draw[h]
        BY <1>0, <1>2, <2>1, TakesAt, InUse DEF Shifted, DeliveryInv, SentInv
      <3>2. ASSUME NEW k \in DOMAIN up', CarriesNow(k, h) PROVE up'[k].id = id
        <4>1. up'[k].id \in UsedIds /\ up'[k].id \in Draw[h]
          BY <2>1, <3>2, InUse DEF Shifted, CarriesNow, DeliveryInv, SentInv
        <4> QED BY <3>1, <4>1 DEF DeliveryInv, IdsInv
      <3>3. ASSUME NEW j \in DOMAIN outbox', outbox'[j].m = h PROVE outbox'[j].id = id
        <4>1. outbox'[j].id \in UsedIds /\ outbox'[j].id \in Draw[h]
          BY <2>1, <3>3, InUse, ResendAt
        <4> QED BY <3>1, <4>1 DEF DeliveryInv, IdsInv
      <3> QED BY <2>1, <2>3, <3>2, <3>3 DEF Now
    <2> QED BY <1>a, <2>1, <2>2, <2>3
  <1>3. CASE BrokerAnswers
    <2> DEFINE id == Head(up).id
    <2>1. /\ UNCHANGED <<outbox, inSession>> /\ Shifted
          /\ IF Head(up).type = "PUBREL" THEN unreleased' = unreleased \ {id} ELSE UNCHANGED unreleased
      BY <1>0, <1>3, AnswersAt
    <2>2. ASSUME NEW m \in inSession, Exactly(m) PROVE Now(m)
      <3>0. m \in Msgs
        BY <1>0 DEF TypeOK
      <3>1. Was(m)
        BY <1>b, <2>2
      <3>2. CASE UNCHANGED unreleased
        BY <2>1, <3>1, <3>2 DEF Was, Now, Shifted, Carries, CarriesNow
      <3>3. CASE Head(up).type = "PUBREL" /\ unreleased' = unreleased \ {id}
        <4>1. id \in Draw[m] => Frees(1, m)
          BY <2>1, <3>3 DEF Shifted, Frees
        <4>2. id \in Draw[m] => /\ \A i \in DOMAIN outbox : outbox[i].m = m => outbox[i].pending = "ACKNOWLEDGED"
                                /\ \A j \in DOMAIN up : Carries(j, m) => j < 1
          BY <2>1, <3>0, <4>1 DEF Shifted, DeliveryInv, ReleaseInv
        <4>3. ASSUME NEW k \in DOMAIN up', CarriesNow(k, m) PROVE up'[k].id \in unreleased'
          <5>1. k \in Nat /\ k + 1 \in DOMAIN up /\ Carries(k + 1, m) /\ up'[k].id = up[k + 1].id
            BY <2>1, <4>3 DEF Shifted, Carries, CarriesNow
          <5>2. up[k + 1].id \in unreleased /\ up[k + 1].id \in Draw[m]
            BY <3>1, <5>1 DEF Was, Carries, DeliveryInv, SentInv
          <5>3. ~ (k + 1 < 1)
            BY <5>1
          <5>4. up[k + 1].id # id
            BY <4>2, <5>1, <5>2, <5>3
          <5> QED BY <3>3, <5>1, <5>2, <5>4
        <4>4. ASSUME NEW j \in DOMAIN outbox, outbox[j].m = m, outbox[j].pending # "ACKNOWLEDGED"
              PROVE  outbox[j].id \in unreleased'
          <5>1. outbox[j].id \in unreleased /\ outbox[j].id \in Draw[m]
            BY <3>1, <4>4, ResendAt DEF Was
          <5>2. outbox[j].id # id
            BY <4>2, <4>4, <5>1
          <5> QED BY <3>3, <5>1, <5>2
        <4> QED BY <2>1, <4>3, <4>4 DEF Now
      <3> QED BY <2>1, <3>2, <3>3
    <2> QED BY <1>a, <2>1, <2>2
  <1>4. CASE Records
    <2>1. \A m : \A k \in DOMAIN up' : UpOld(k) \/ ~ CarriesNow(k, m)
      BY <1>0, <1>4, RecordsAt, WrittenAt DEF OnlySent, CarriesNow
    <2>2. \A j \in DOMAIN outbox' : ItemOld(j) \/ outbox'[j].pending = "ACKNOWLEDGED"
      BY <1>4, RecordsMarks DEF ItemOld
    <2> QED BY <1>0, <1>4, <1>c, <1>d, <2>1, <2>2, RecordsAt
  <1>5. ASSUME NEW n \in Msgs, NEW id \in Draw[n], Hands(n, id) PROVE UnreleasedInv'
    <2>1. n \notin inSession
      BY <1>5, IdleIsNew DEF Hands, DeliveryInv, SentInv
    <2>2. ASSUME NEW m \in inSession, Was(m), UNCHANGED <<unreleased, inSession>> PROVE Now(m)
      <3>1. m # n
        BY <2>1
      <3>2. \A k \in DOMAIN up' : UpOld(k) \/ ~ CarriesNow(k, m)
        BY <1>5, <3>1, HandsSends DEF CarriesNow
      <3>3. \A j \in DOMAIN outbox' : ItemOld(j) \/ outbox'[j].m # m
        BY <1>5, <3>1 DEF Hands
      <3> QED BY <1>d, <2>2, <3>2, <3>3
    <2> QED BY <1>5, <1>c, <2>2 DEF Hands
  <1>6. ASSUME NEW d \in DOMAIN outbox, Dispatches(d) \/ Repeats(d) PROVE UnreleasedInv'
    <2>1. OnlySent(Resend(d)) /\ SessionKept /\ outbox[d].pending # "ACKNOWLEDGED"
      BY <1>6, DispatchesAt, RepeatsAt DEF Dispatches, Repeats
    <2>2. \A j \in DOMAIN outbox' : ItemOld(j) \/ SameItem(outbox'[j], outbox[d])
      <3>1. CASE Dispatches(d)
        BY <3>1, DispatchesAt DEF ItemOld
      <3>2. CASE Repeats(d)
        BY <3>2, RepeatsAt DEF ItemOld, SameItem
      <3> QED BY <1>6, <3>1, <3>2
    <2>3. ASSUME NEW m \in inSession, Was(m), UNCHANGED <<unreleased, inSession>> PROVE Now(m)
      <3>1. outbox[d].m = m => outbox[d].id \in unreleased
        BY <2>1, <2>3 DEF Was
      <3>2. \A k \in DOMAIN up' : UpOld(k) \/ ~ CarriesNow(k, m) \/ up'[k].id \in unreleased
        BY <2>1, <3>1, ResendAt DEF OnlySent, CarriesNow
      <3>3. \A j \in DOMAIN outbox' : ItemOld(j) \/ outbox'[j].m # m \/ outbox'[j].id \in unreleased
        BY <2>2, <3>1 DEF SameItem
      <3> QED BY <1>d, <2>3, <3>2, <3>3
    <2> QED BY <1>c, <2>1, <2>3
  <1>7. ASSUME NEW i \in DOMAIN outbox, Releases(i) PROVE UnreleasedInv'
    <2>1. \A m : \A k \in DOMAIN up' : UpOld(k) \/ ~ CarriesNow(k, m)
      BY <1>7, ReleasesAt, WrittenAt DEF OnlySent, CarriesNow
    <2>2. \A j \in DOMAIN outbox' : ItemOld(j)
      BY <1>7, ReleasesAt DEF ItemOld, SameItem
    <2> QED BY <1>7, <1>c, <1>d, <2>1, <2>2, ReleasesAt
  <1> QED BY <1>1, <1>2, <1>3, <1>4, <1>5, <1>6, <1>7 DEF Steps

\* The invariant holds in every behaviour, when identifiers are not shared.
LEMMA DeliveryInvariant == ASSUME Disjoint PROVE Spec => []DeliveryInv
  <1>1. ASSUME TypeOK, Init PROVE DeliveryInv
    <2>1. DOMAIN outbox = {} /\ DOMAIN up = {} /\ DOMAIN down = {} /\ unreleased = {} /\ inSession = {} /\ delivered = {}
      BY <1>1 DEF Init
    <2>2. KeptInv
      BY <1>1 DEF Init, KeptInv
    <2>3. UsedIds = {}
      BY <2>1 DEF UsedIds, IdsOf
    <2>4. \A m \in Msgs : status[m] # "acked"
      BY <1>1 DEF Init
    <2> QED BY <1>1, <2>1, <2>2, <2>3, <2>4
      DEF DeliveryInv, ItemInv, IdsInv, SentInv, KnownInv, FirstInv, QueuedInv, ReleaseInv, UnreleasedInv
  <1>2. ASSUME TypeOK', DeliveryInv, [Next]_vars PROVE DeliveryInv'
    <2>1. TypeOK /\ KeptInv
      BY <1>2 DEF DeliveryInv
    <2>2. Kinds
      BY <1>2, <2>1, NextKinds
    <2>3. Steps /\ KeptInv'
      BY <1>2, <2>1, <2>2, KindsAreSteps, KeptKept
    <2> QED BY <1>2, <2>3, ItemKept, IdsKept, SentKept, KnownKept, FirstKept, QueuedKept, ReleaseKept, UnreleasedKept
      DEF DeliveryInv
  <1>3. TypeOK' /\ DeliveryInv /\ [Next]_vars => DeliveryInv'
    BY <1>2
  <1>4. TypeOK /\ Init => DeliveryInv
    BY <1>1
  <1> QED BY <1>3, <1>4, TypeCorrect, PTL DEF Spec

\* index.rst:49, mqtt_client.c:1463-1474, 1509-1523: whatever is acknowledged to the application
\* was taken by the broker, as long as no identifier is drawn for two messages.
THEOREM AcknowledgedWasDelivered == ASSUME Disjoint PROVE Spec => []AcknowledgedIsDelivered
  <1>1. DeliveryInv => AcknowledgedIsDelivered
    BY DEF DeliveryInv, KnownInv, AcknowledgedIsDelivered
  <1> QED BY <1>1, DeliveryInvariant, PTL

\* mqtt_client.c:1562-1566: with such identifiers, a PUBLISH the broker has taken before carries
\* the DUP flag when it arrives again.
THEOREM RepeatsAreAlwaysFlagged == ASSUME Disjoint PROVE Spec => []RepeatsAreFlagged
  <1>1. ASSUME DeliveryInv PROVE RepeatsAreFlagged
    <2>1. SUFFICES ASSUME up # <<>>, Head(up).type = "PUBLISH", Head(up).m \in delivered PROVE Head(up).dup
      BY DEF RepeatsAreFlagged
    <2>2. 1 \in DOMAIN up /\ up[1] = Head(up)
      BY <1>1, <2>1, TailAt DEF DeliveryInv, TypeOK
    <2> QED BY <1>1, <2>1, <2>2 DEF DeliveryInv, FirstInv
  <1> QED BY <1>1, DeliveryInvariant, PTL

\* mqtt_client.c:1475-1497, 1781-1790: with such identifiers, within a session the broker never takes
\* a message of QoS 2 twice, although PUBLISH and PUBREL are retransmitted at their own pace.
THEOREM TakenOnce == ASSUME Disjoint PROVE Spec => []TakenOncePerSession
  <1>1. ASSUME DeliveryInv PROVE TakenOncePerSession
    <2>1. SUFFICES ASSUME up # <<>>, Head(up).type = "PUBLISH", QoS[Head(up).m] = 2, Head(up).m \in inSession
                   PROVE  Head(up).id \in unreleased
      BY DEF TakenOncePerSession
    <2>2. 1 \in DOMAIN up /\ up[1] = Head(up)
      BY <1>1, <2>1, TailAt DEF DeliveryInv, TypeOK
    <2>3. Carries(1, Head(up).m) /\ Type[Head(up).m] = "PUBLISH"
      BY <1>1, <2>1, <2>2 DEF DeliveryInv, SentInv, Carries, MsgTypes
    <2> QED BY <1>1, <2>1, <2>2, <2>3 DEF DeliveryInv, UnreleasedInv
  <1> QED BY <1>1, DeliveryInvariant, PTL

-------------------------------------------------------------------------------
(* The client implements Delivery: every kind of step is one of its actions, *)
(* or leaves its variables alone.                                            *)

\* Deleting an item gives its message up.
LEMMA DeletionGivesUp ==
  ASSUME DeliveryInv, NEW i \in DOMAIN outbox, status' = [status EXCEPT ![outbox[i].m] = "gone"], UNCHANGED delivered
  PROVE  Promise!Next
  <1> DEFINE ms == {outbox[i].m}
  <1>1. ms \in SUBSET Msgs /\ status[outbox[i].m] = "kept"
    BY ItemTyped DEF DeliveryInv, KeptInv
  <1>2. status' = [m \in Msgs |-> IF m \in ms THEN "gone" ELSE status[m]]
    BY DEF DeliveryInv, TypeOK
  <1>3. \A m \in ms : status[m] = "kept"
    BY <1>1
  <1> HIDE DEF ms
  <1>4. Promise!GiveUp(ms)
    BY <1>2, <1>3 DEF Promise!GiveUp
  <1> QED BY <1>1, <1>4 DEF Promise!Next

\* A message that is new is handed over.
LEMMA NewIsHanded ==
  ASSUME NEW m \in Msgs, status[m] = "idle", NEW s \in {"kept", "gone"},
         status' = [status EXCEPT ![m] = s], UNCHANGED delivered
  PROVE  Promise!Next
  <1>1. Promise!Hand(m)
    BY DEF Promise!Hand
  <1> QED BY <1>1 DEF Promise!Next

\* Every step of the client is a step of Delivery, or changes none of its variables.
LEMMA StepsKeepPromise ==
  ASSUME Disjoint, DeliveryInv, TypeOK', Kinds
  PROVE  Promise!Next \/ UNCHANGED <<status, delivered>>
  <1>0. TypeOK
    BY DEF DeliveryInv
  <1>1. CASE Stays \/ Records \/ BrokerAnswers
    BY <1>1 DEF Stays, Records, BrokerAnswers, historyVars
  <1>2. CASE Empties
    <2> DEFINE ms == {m \in Msgs : status[m] = "kept"}
    <2>1. status' = [m \in Msgs |-> IF m \in ms THEN "gone" ELSE status[m]]
      BY <1>2 DEF Empties
    <2>2. \A m \in ms : status[m] = "kept"
      OBVIOUS
    <2>3. ms \in SUBSET Msgs /\ UNCHANGED delivered
      BY <1>2 DEF Empties
    <2> HIDE DEF ms
    <2>4. Promise!GiveUp(ms)
      BY <2>1, <2>2, <2>3 DEF Promise!GiveUp
    <2> QED BY <2>3, <2>4 DEF Promise!Next
  <1>3. CASE BrokerTakes
    <2> DEFINE m == Head(up).m
    <2>1. /\ m \in Msgs /\ Head(up).type \in MsgTypes /\ 1 \in DOMAIN up /\ up[1] = Head(up)
          /\ UNCHANGED status
          /\ (delivered' = delivered \cup {m}) \/ UNCHANGED delivered
      BY <1>0, <1>3, TakesAt DEF Shifted
    <2>2. Carries(1, m)
      BY <2>1 DEF Carries
    <2>3. status[m] # "idle"
      BY <2>1, <2>2, IdleIsNew
    <2> HIDE DEF m
    <2>4. CASE delivered' = delivered \cup {m}
      <3>1. Promise!Deliver(m)
        BY <2>1, <2>3, <2>4 DEF Promise!Deliver
      <3> QED BY <2>1, <3>1 DEF Promise!Next
    <2>5. CASE UNCHANGED delivered
      BY <2>1, <2>5
    <2> QED BY <2>1, <2>4, <2>5
  <1>4. ASSUME NEW m \in Msgs, NEW id \in Draw[m],
               Queues(m, id) \/ Throws(m, id) \/ \E qos \in 0 .. 2 : Transmits(m, id, qos)
        PROVE  Promise!Next
    BY <1>4, NewIsHanded DEF Queues, Throws, Transmits
  <1>5. ASSUME NEW i \in DOMAIN outbox, Expires(i) PROVE Promise!Next
    BY <1>5, DeletionGivesUp DEF Expires
  <1>6. ASSUME NEW i \in DOMAIN outbox, Acknowledges(i) PROVE Promise!Next
    <2> DEFINE m == outbox[i].m
    <2>1. m \in Msgs /\ status[m] = "kept"
      BY <1>0, ItemTyped DEF DeliveryInv, KeptInv
    <2>2. status' = [status EXCEPT ![m] = "acked"] /\ UNCHANGED delivered
      BY <1>6 DEF Acknowledges
    <2>3. Passive
      BY <1>6, PassiveAt
    <2>4. m \in delivered
      BY <1>0, <2>1, <2>2, <2>3 DEF Passive, TypeOK
    <2> HIDE DEF m
    <2>5. Promise!Acknowledge(m)
      BY <2>1, <2>2, <2>4 DEF Promise!Acknowledge
    <2> QED BY <2>1, <2>5 DEF Promise!Next
  <1>7. ASSUME NEW i \in DOMAIN outbox, Dispatches(i) PROVE Promise!Next \/ UNCHANGED <<status, delivered>>
    <2>1. UNCHANGED delivered
      BY <1>7 DEF Dispatches
    <2>2. status' = [status EXCEPT ![outbox[i].m] = "gone"] \/ UNCHANGED status
      BY <1>7 DEF Dispatches, Transmitted
    <2> QED BY <2>1, <2>2, DeletionGivesUp
  <1>8. ASSUME NEW i \in DOMAIN outbox, Repeats(i) \/ Releases(i) PROVE UNCHANGED <<status, delivered>>
    BY <1>8 DEF Repeats, Releases, historyVars
  <1> QED BY <1>1, <1>2, <1>3, <1>4, <1>5, <1>6, <1>7, <1>8 DEF Kinds

\* mqtt_client.c, lib/mqtt_outbox.c: with such identifiers the client keeps the promise of Delivery: a
\* message is kept until it is acknowledged or given up, and acknowledged only if it was delivered.
THEOREM ClientKeepsPromise == ASSUME Disjoint PROVE Spec => KeepsPromise
  <1>1. Init => Promise!Init
    BY DEF Init, Promise!Init
  <1>2. ASSUME DeliveryInv, TypeOK', [Next]_vars PROVE [Promise!Next]_<<status, delivered>>
    <2>1. Kinds
      BY <1>2, NextKinds DEF DeliveryInv
    <2> QED BY <1>2, <2>1, StepsKeepPromise
  <1>3. DeliveryInv /\ TypeOK' /\ [Next]_vars => [Promise!Next]_<<status, delivered>>
    BY <1>2
  <1> QED BY <1>1, <1>3, DeliveryInvariant, TypeCorrect, PTL DEF Spec, KeepsPromise, Promise!Spec
=============================================================================
