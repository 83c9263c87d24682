------------------------------ MODULE MqttClient ------------------------------
(***************************************************************************)
(* mqtt_client.c of the MQTT component: how the client's task and the      *)
(* callers of its API get messages from the outbox to the broker, over     *)
(* connections that die without notice, with the keepalive that finds out. *)
(* Callers and the task exclude each other by the client's recursive API   *)
(* lock, which the task holds from one poll of the socket to the next; the *)
(* handlers it runs meanwhile call the same API. Time is a choice: a       *)
(* timeout of the code may have elapsed, or not.                           *)
(***************************************************************************)
EXTENDS Outbox

CONSTANTS
  Msgs,      \* messages the application hands to the client, each once
  Type, QoS, \* of each message
  Draw,      \* of each message: the identifiers platform_random may draw for it
  Window,    \* bound: packets in flight when a timer sends another
  MaxSends,  \* bound: messages the broker publishes to the device
  MaxFaults  \* bound: connections that fail or die, messages that expire

ASSUME TypeAssumption   == Type \in [Msgs -> MsgTypes] /\ QoS \in [Msgs -> 0 .. 2]
ASSUME DrawAssumption   == \A m \in Msgs : Draw[m] # {} /\ Draw[m] \subseteq Nat \ {0}
ASSUME BoundsAssumption == Window \in Nat /\ MaxSends \in Nat /\ MaxFaults \in Nat

VARIABLES
  outbox,              \* the items kept, see Outbox
  state,               \* client->state
  wait_for_ping_resp,
  pc,                  \* where the task is: in "poll" the API lock is free
  conn,                \* the TCP session: "none", "alive", "dead" (not yet noticed)
  up, down,            \* packets on their way to the broker, and to the device
  unreleased,            \* the broker's QoS 2 identifiers: received, not yet released
  inSession,           \* history: messages the broker took in this session
  status, delivered,   \* history: what became of each message, see Delivery
  sent, faults         \* bounded counters of the environment

sessionVars == <<conn, up, down, unreleased, inSession>>
historyVars == <<status, delivered>>
vars == <<outbox, state, wait_for_ping_resp, pc, sessionVars, historyVars, sent, faults>>

Ids    == UNION {Draw[m] : m \in Msgs}
Items  == [m : Msgs, id : Ids, type : MsgTypes, qos : 0 .. 2, pending : Pendings]
\* Packets of the device name the message they carry; dup is their DUP flag.
Sends   == [type : MsgTypes, id : Ids, m : Msgs, dup : BOOLEAN]
Control == [type : {"PUBREL", "PUBACK", "PINGREQ"}, id : Ids \cup {0}]
Answers == [type : {"SUBACK", "PUBACK", "PUBREC", "PUBCOMP", "PINGRESP", "PUBLISH0", "PUBLISH1"},
            id : Ids \cup {0}]

\* mqtt_client_priv.h, mqtt_outbox.c:13-22: every field stays in its range.
TypeOK ==
  /\ outbox \in Seq(Items)
  /\ state \in {"INIT", "CONNECTED", "WAIT_RECONNECT", "DISCONNECTED"}
  /\ wait_for_ping_resp \in BOOLEAN
  /\ pc \in {"poll", "dispatch", "connected", "receive", "handler0", "handler1", "resend",
             "pubrel", "keepalive", "leaving", "ended"}
  /\ conn \in {"none", "alive", "dead"}
  /\ up \in Seq(Sends \cup Control) /\ down \in Seq(Answers)
  /\ unreleased \subseteq Ids /\ inSession \subseteq Msgs /\ delivered \subseteq Msgs
  /\ status \in [Msgs -> {"idle", "kept", "acked", "gone"}]
  /\ sent \in 0 .. MaxSends /\ faults \in 0 .. MaxFaults

\* esp_mqtt_client_start: the task is running, nothing is connected.
Init ==
  /\ outbox = <<>> /\ state = "INIT" /\ wait_for_ping_resp = FALSE /\ pc = "poll"
  /\ conn = "none" /\ up = <<>> /\ down = <<>> /\ unreleased = {} /\ inSession = {}
  /\ status = [m \in Msgs |-> "idle"] /\ delivered = {}
  /\ sent = 0 /\ faults = 0

Fault == faults < MaxFaults /\ faults' = faults + 1

-------------------------------------------------------------------------------
(* esp_mqtt_write and what follows its failure.                              *)

Packet(type, id) == [type |-> type, id |-> id]
Carrying(m, id, dup) == [type |-> Type[m], id |-> id, m |-> m, dup |-> dup]

\* A write to a dead session succeeds until TCP gives up, and is lost.
Write(packet) ==
  /\ conn # "none"
  /\ up' = IF conn = "alive" THEN Append(up, packet) ELSE up
  /\ UNCHANGED <<state, wait_for_ping_resp, conn, down, unreleased, inSession, faults>>

\* On a closed transport a write always fails, on a live one it may time out.
WriteFails == IF conn = "alive" THEN Fault ELSE UNCHANGED faults

\* Whatever was in flight is lost, and the broker forgets the clean session.
CloseSession ==
  conn' = "none" /\ up' = <<>> /\ down' = <<>> /\ unreleased' = {} /\ inSession' = {}

\* Mutant: the PINGREQ of the session is still awaited.
AbortKeepsPing == state' = "WAIT_RECONNECT" /\ CloseSession /\ UNCHANGED wait_for_ping_resp

\* esp_mqtt_abort_connection, from any state.
AbortConnection ==
  state' = "WAIT_RECONNECT" /\ wait_for_ping_resp' = FALSE /\ CloseSession

\* Most writes of the task abort the connection when they fail.
WriteOrAbort(packet) == Write(packet) \/ (WriteFails /\ AbortConnection)

\* PUBREL and SUBSCRIBE are written with the result ignored.
WriteAndIgnore(packet) ==
  Write(packet) \/ (WriteFails /\ UNCHANGED <<state, wait_for_ping_resp, sessionVars>>)

\* Nothing is written.
Idle == UNCHANGED <<state, wait_for_ping_resp, sessionVars, faults>>

-------------------------------------------------------------------------------
(* The API, called by any thread while the task polls, or by the handlers    *)
(* the task runs.                                                            *)

MayCall == pc \in {"poll", "connected", "handler0", "handler1", "leaving", "ended"}

\* Mutant: zero, which MQTT forbids, is not drawn again.
ZeroAllowed(m) == Draw[m] \cup {0}

\* append_message_id: a random number, drawn again while it is zero, and not
\* compared with the identifiers in use.
MessageIds(m) == Draw[m]

\* The message is queued, written, and marked when the write succeeds.
PublishKept(m, id) ==
  LET queued == Enqueue(outbox, m, id, Type[m], QoS[m])
  IN  \/ state # "CONNECTED" /\ outbox' = queued /\ Idle
      \/ /\ state = "CONNECTED"
         /\ outbox' = SetPending(queued, id, "TRANSMITTED")
         /\ Write(Carrying(m, id, FALSE))
      \/ /\ state = "CONNECTED"
         /\ outbox' = queued
         /\ WriteFails /\ AbortConnection

\* esp_mqtt_client_publish; of QoS 0, a message that cannot be written is lost.
Publish(m) ==
  /\ MayCall /\ status[m] = "idle" /\ Type[m] = "PUBLISH"
  /\ \E id \in MessageIds(m) :
       \/ /\ QoS[m] > 0 /\ PublishKept(m, id)
          /\ status' = [status EXCEPT ![m] = "kept"]
       \/ /\ QoS[m] = 0
          /\ IF state = "CONNECTED" THEN WriteOrAbort(Carrying(m, id, FALSE)) ELSE Idle
          /\ status' = [status EXCEPT ![m] = "gone"]
          /\ UNCHANGED outbox
  /\ UNCHANGED <<pc, delivered, sent>>

\* esp_mqtt_client_enqueue, with store: the task will write it.
EnqueueMessage(m) ==
  /\ MayCall /\ status[m] = "idle" /\ Type[m] = "PUBLISH"
  /\ \E id \in MessageIds(m) : outbox' = Enqueue(outbox, m, id, Type[m], QoS[m])
  /\ status' = [status EXCEPT ![m] = "kept"]
  /\ Idle /\ UNCHANGED <<pc, delivered, sent>>

\* esp_mqtt_client_subscribe, called by a handler, as the firmware does: the
\* state it checks before the lock is then the state under it. Marked before it
\* is written, and kept when the write fails. The QoS of its item is that of some message
\* before it (pending_publish_qos).
Subscribe(m) ==
  /\ pc \in {"connected", "handler0", "handler1"} /\ state = "CONNECTED"
  /\ status[m] = "idle" /\ Type[m] = "SUBSCRIBE"
  /\ \E id \in MessageIds(m), qos \in {0} \cup {QoS[n] : n \in Msgs} :
       /\ outbox' = SetPending(Enqueue(outbox, m, id, "SUBSCRIBE", qos), id, "TRANSMITTED")
       /\ WriteAndIgnore(Carrying(m, id, FALSE))
  /\ status' = [status EXCEPT ![m] = "kept"]
  /\ UNCHANGED <<pc, delivered, sent>>

Call(m) == Publish(m) \/ EnqueueMessage(m) \/ Subscribe(m)

-------------------------------------------------------------------------------
(* The task takes the lock; messages that are too old are deleted; then what *)
(* it does depends on the state. (A turn of the loop in which the reconnect  *)
(* timer has not elapsed changes nothing and is left out.)                   *)

Lock ==
  /\ pc = "poll" /\ pc' = "dispatch"
  /\ Idle /\ UNCHANGED <<outbox, historyVars, sent>>

\* mqtt_delete_expired_messages, one turn of its loop.
Expire(i) ==
  /\ pc = "dispatch" /\ i \in DOMAIN outbox /\ Fault
  /\ outbox' = DeleteItem(outbox, i)
  /\ status' = [status EXCEPT ![outbox[i].m] = "gone"]
  /\ UNCHANGED <<pc, state, wait_for_ping_resp, sessionVars, delivered, sent>>

\* MQTT_STATE_INIT without a transport: run is cleared, the lock given back,
NoTransport ==
  /\ pc = "dispatch" /\ state = "INIT" /\ Fault /\ pc' = "leaving"
  /\ UNCHANGED <<outbox, state, wait_for_ping_resp, sessionVars, historyVars, sent>>

\* and the outbox emptied without it when the loop has ended.
LoopEnds ==
  /\ pc = "leaving" /\ pc' = "ended" /\ state' = "DISCONNECTED" /\ outbox' = <<>>
  /\ status' = [m \in Msgs |-> IF status[m] = "kept" THEN "gone" ELSE status[m]]
  /\ UNCHANGED <<wait_for_ping_resp, sessionVars, delivered, sent, faults>>

\* The transport or the MQTT handshake fails.
ConnectFails ==
  /\ pc = "dispatch" /\ state = "INIT" /\ Fault
  /\ AbortConnection /\ pc' = "poll"
  /\ UNCHANGED <<outbox, historyVars, sent>>

\* CONNACK: a clean session on both sides, except for the outbox.
Connects ==
  /\ pc = "dispatch" /\ state = "INIT"
  /\ state' = "CONNECTED" /\ conn' = "alive" /\ wait_for_ping_resp' = FALSE /\ pc' = "connected"
  /\ UNCHANGED <<outbox, up, down, unreleased, inSession, historyVars, sent, faults>>

\* The CONNECTED handler is done calling the API.
ConnectedHandled ==
  /\ pc = "connected" /\ pc' = "poll"
  /\ Idle /\ UNCHANGED <<outbox, historyVars, sent>>

\* MQTT_STATE_WAIT_RECONNECT, when the timer has elapsed.
Reconnects ==
  /\ pc = "dispatch" /\ state = "WAIT_RECONNECT"
  /\ state' = "INIT" /\ pc' = "poll"
  /\ UNCHANGED <<outbox, wait_for_ping_resp, sessionVars, historyVars, sent, faults>>

\* MQTT_STATE_CONNECTED.
Connected ==
  /\ pc = "dispatch" /\ state = "CONNECTED" /\ pc' = "receive"
  /\ Idle /\ UNCHANGED <<outbox, historyVars, sent>>

\* The poll of the socket outside the lock reports an error.
PollFails ==
  /\ pc = "poll" /\ state = "CONNECTED" /\ conn = "dead"
  /\ AbortConnection
  /\ UNCHANGED <<outbox, pc, historyVars, sent, faults>>

Loop ==
  \/ Lock \/ NoTransport \/ LoopEnds \/ ConnectFails \/ Connects \/ ConnectedHandled \/ Reconnects \/ Connected
  \/ PollFails \/ \E i \in DOMAIN outbox : Expire(i)

-------------------------------------------------------------------------------
(* mqtt_process_receive.                                                     *)

NothingReceived ==
  /\ pc = "receive" /\ down = <<>> /\ pc' = "resend"
  /\ Idle /\ UNCHANGED <<outbox, historyVars, sent>>

ReceiveFails ==
  /\ pc = "receive" /\ conn = "dead"
  /\ AbortConnection /\ pc' = "poll"
  /\ UNCHANGED <<outbox, historyVars, sent, faults>>

Receive(types) ==
  pc = "receive" /\ down # <<>> /\ Head(down).type \in types

\* remove_initiator_message: SUBACK, PUBACK and PUBCOMP delete the message they
\* answer, when it is still there; it is then reported as acknowledged.
RemoveInitiator(id, type) ==
  LET i == Initiator(outbox, id, type)
  IN  IF i = 0 THEN UNCHANGED <<outbox, status>>
      ELSE /\ outbox' = DeleteItem(outbox, i)
           /\ status' = [status EXCEPT ![outbox[i].m] = "acked"]

Answered == [SUBACK |-> "SUBSCRIBE", PUBACK |-> "PUBLISH", PUBCOMP |-> "PUBLISH"]

OnAcknowledgement ==
  /\ Receive({"SUBACK", "PUBACK", "PUBCOMP"})
  /\ RemoveInitiator(Head(down).id, Answered[Head(down).type])
  /\ down' = Tail(down) /\ pc' = "resend"
  /\ UNCHANGED <<state, wait_for_ping_resp, conn, up, unreleased, inSession, delivered, sent, faults>>

\* Mutant: PUBREC is answered and not noted.
OnPubrecForgotten ==
  /\ Receive({"PUBREC"})
  /\ \/ conn = "alive" /\ up' = Append(up, Packet("PUBREL", Head(down).id)) /\ UNCHANGED faults
     \/ WriteFails /\ UNCHANGED up
  /\ down' = Tail(down) /\ pc' = "resend"
  /\ UNCHANGED <<outbox, state, wait_for_ping_resp, conn, unreleased, inSession, historyVars, sent>>

\* PUBREC: the message is released, kept or not.
OnPubrec ==
  /\ Receive({"PUBREC"})
  /\ outbox' = SetPending(outbox, Head(down).id, "ACKNOWLEDGED")
  /\ \/ conn = "alive" /\ up' = Append(up, Packet("PUBREL", Head(down).id)) /\ UNCHANGED faults
     \/ WriteFails /\ UNCHANGED up
  /\ down' = Tail(down) /\ pc' = "resend"
  /\ UNCHANGED <<state, wait_for_ping_resp, conn, unreleased, inSession, historyVars, sent>>

OnPingresp ==
  /\ Receive({"PINGRESP"})
  /\ wait_for_ping_resp' = FALSE
  /\ down' = Tail(down) /\ pc' = "resend"
  /\ UNCHANGED <<outbox, state, conn, up, unreleased, inSession, historyVars, sent, faults>>

\* deliver_publish: the DATA handler runs, and may call the API.
OnPublish ==
  /\ Receive({"PUBLISH0", "PUBLISH1"})
  /\ down' = Tail(down)
  /\ pc' = IF Head(down).type = "PUBLISH0" THEN "handler0" ELSE "handler1"
  /\ UNCHANGED <<outbox, state, wait_for_ping_resp, conn, up, unreleased, inSession, historyVars,
                 sent, faults>>

\* Of QoS 0 there is nothing to acknowledge,
HandledQos0 ==
  /\ pc = "handler0" /\ pc' = "resend"
  /\ Idle /\ UNCHANGED <<outbox, historyVars, sent>>

\* of QoS 1 a PUBACK is written: when the handler lost the connection, it fails.
HandledQos1 ==
  /\ pc = "handler1"
  /\ \/ Write(Packet("PUBACK", 0)) /\ pc' = "resend"
     \/ WriteFails /\ AbortConnection /\ pc' = "poll"
  /\ UNCHANGED <<outbox, historyVars, sent>>

Process ==
  \/ NothingReceived \/ ReceiveFails \/ OnAcknowledgement \/ OnPubrec \/ OnPingresp \/ OnPublish
  \/ HandledQos0 \/ HandledQos1

-------------------------------------------------------------------------------
(* Transmission and retransmission: first what is QUEUED, one item a turn.   *)
(* The task goes on with the turn even when a write aborted the connection.  *)

First(pending) == Dequeue(outbox, pending)

\* A transmitted item is written with the DUP flag.
Resend(i) ==
  LET item == outbox[i]
  IN  Carrying(item.m, item.id,
               item.type = "PUBLISH" /\ item.qos > 0 /\ item.pending = "TRANSMITTED")

\* Mutant: an item that was written stays QUEUED.
TransmittedUnmarked(i) == UNCHANGED <<outbox, status>>

\* An item of QoS 0 is deleted once it is written, any other is marked.
Transmitted(i) ==
  IF outbox[i].type = "PUBLISH" /\ outbox[i].qos = 0
  THEN /\ outbox' = DeleteItem(outbox, i)
       /\ status' = [status EXCEPT ![outbox[i].m] = "gone"]
  ELSE /\ outbox' = IF outbox[i].qos > 0 THEN SetPending(outbox, outbox[i].id, "TRANSMITTED")
                    ELSE outbox
       /\ UNCHANGED status

TransmitQueued ==
  /\ pc = "resend" /\ pc' = "keepalive"
  /\ LET i == First("QUEUED")
     IN  /\ i # 0
         /\ \/ Write(Resend(i)) /\ Transmitted(i)
            \/ WriteFails /\ AbortConnection /\ UNCHANGED <<outbox, status>>
  /\ UNCHANGED <<delivered, sent>>

\* Bound: timers elapse when few packets are in flight.
Room == Len(up) + Len(down) < Window

\* The retransmission timer has not elapsed.
NotYetDue ==
  /\ pc = "resend" /\ First("QUEUED") = 0 /\ pc' = "keepalive"
  /\ Idle /\ UNCHANGED <<outbox, historyVars, sent>>

\* It has: the first item not yet acknowledged is written again,
Retransmit ==
  /\ pc = "resend" /\ First("QUEUED") = 0 /\ First("TRANSMITTED") # 0 /\ Room
  /\ WriteOrAbort(Resend(First("TRANSMITTED"))) /\ pc' = "pubrel"
  /\ UNCHANGED <<outbox, historyVars, sent>>

\* unless it is not old enough, or there is none;
NoRetransmit ==
  /\ pc = "resend" /\ First("QUEUED") = 0 /\ pc' = "pubrel"
  /\ Idle /\ UNCHANGED <<outbox, historyVars, sent>>

\* (mutant: PUBREL is never written again)
NeverReleasedAgain == FALSE /\ UNCHANGED vars

\* and the first one received but not completed is released again,
RetransmitPubrel ==
  /\ pc = "pubrel" /\ First("ACKNOWLEDGED") # 0 /\ Room
  /\ WriteOrAbort(Packet("PUBREL", outbox[First("ACKNOWLEDGED")].id)) /\ pc' = "keepalive"
  /\ UNCHANGED <<outbox, historyVars, sent>>

\* with the same exceptions.
NoPubrel ==
  /\ pc = "pubrel" /\ pc' = "keepalive"
  /\ Idle /\ UNCHANGED <<outbox, historyVars, sent>>

Outgoing ==
  \/ TransmitQueued \/ NotYetDue \/ Retransmit \/ NoRetransmit \/ RetransmitPubrel \/ NoPubrel

-------------------------------------------------------------------------------
(* process_keepalive, the end of a turn.                                     *)

\* Neither half the keepalive time without a PINGREQ nor all of it without a
\* PINGRESP have elapsed.
NoKeepalive ==
  /\ pc = "keepalive" /\ pc' = "poll"
  /\ Idle /\ UNCHANGED <<outbox, historyVars, sent>>

\* Mutant: nothing is awaited after the PINGREQ.
PingNotAwaited ==
  /\ pc = "keepalive" /\ ~wait_for_ping_resp /\ Room /\ pc' = "poll"
  /\ WriteOrAbort(Packet("PINGREQ", 0))
  /\ UNCHANGED <<outbox, historyVars, sent>>

Ping ==
  /\ pc = "keepalive" /\ ~wait_for_ping_resp /\ Room /\ pc' = "poll"
  /\ \/ /\ conn # "none"
        /\ up' = IF conn = "alive" THEN Append(up, Packet("PINGREQ", 0)) ELSE up
        /\ wait_for_ping_resp' = TRUE
        /\ UNCHANGED <<state, conn, down, unreleased, inSession, faults>>
     \/ WriteFails /\ AbortConnection
  /\ UNCHANGED <<outbox, historyVars, sent>>

NoPingresp ==
  /\ pc = "keepalive" /\ wait_for_ping_resp /\ pc' = "poll"
  /\ IF conn = "alive" THEN Fault ELSE UNCHANGED faults
  /\ AbortConnection
  /\ UNCHANGED <<outbox, historyVars, sent>>

Keepalive == NoKeepalive \/ Ping \/ NoPingresp

-------------------------------------------------------------------------------
(* The broker and the network (external).                                    *)

Answer(type) == down' = Append(down, Packet(type, Head(up).id))

Take(m) == delivered' = delivered \cup {m} /\ inSession' = inSession \cup {m}

\* A PUBLISH or SUBSCRIBE; one of QoS 2 is taken unless its identifier is
\* waiting for its release.
BrokerTakes ==
  /\ conn = "alive" /\ up # <<>> /\ Head(up).type \in MsgTypes
  /\ LET m == Head(up).m
     IN  \/ /\ Type[m] = "SUBSCRIBE" /\ Take(m) /\ Answer("SUBACK") /\ UNCHANGED unreleased
         \/ /\ Type[m] = "PUBLISH" /\ QoS[m] = 0 /\ Take(m) /\ UNCHANGED <<down, unreleased>>
         \/ /\ Type[m] = "PUBLISH" /\ QoS[m] = 1
            /\ Take(m) /\ Answer("PUBACK") /\ UNCHANGED unreleased
         \/ /\ Type[m] = "PUBLISH" /\ QoS[m] = 2 /\ Answer("PUBREC")
            /\ unreleased' = unreleased \cup {Head(up).id}
            /\ IF Head(up).id \in unreleased THEN UNCHANGED <<delivered, inSession>> ELSE Take(m)
  /\ up' = Tail(up)
  /\ UNCHANGED <<outbox, state, wait_for_ping_resp, pc, conn, status, sent, faults>>

BrokerAnswers ==
  /\ conn = "alive" /\ up # <<>> /\ Head(up).type \notin MsgTypes
  /\ \/ Head(up).type = "PUBREL" /\ Answer("PUBCOMP") /\ unreleased' = unreleased \ {Head(up).id}
     \/ Head(up).type = "PINGREQ" /\ Answer("PINGRESP") /\ UNCHANGED unreleased
     \/ Head(up).type = "PUBACK" /\ UNCHANGED <<down, unreleased>>
  /\ up' = Tail(up)
  /\ UNCHANGED <<outbox, state, wait_for_ping_resp, pc, conn, inSession, historyVars, sent, faults>>

BrokerPublishes(type) ==
  /\ conn = "alive" /\ sent < MaxSends
  /\ down' = Append(down, Packet(type, 0)) /\ sent' = sent + 1
  /\ UNCHANGED <<outbox, state, wait_for_ping_resp, pc, conn, up, unreleased, inSession, historyVars,
                 faults>>

\* The session dies, and the device is not told.
SessionDies ==
  /\ conn = "alive" /\ Fault
  /\ conn' = "dead" /\ up' = <<>> /\ down' = <<>>
  /\ UNCHANGED <<outbox, state, wait_for_ping_resp, pc, unreleased, inSession, historyVars, sent>>

-------------------------------------------------------------------------------
Next ==
  \/ \E m \in Msgs : Call(m)
  \/ Loop \/ Process \/ Outgoing \/ Keepalive
  \/ BrokerTakes \/ BrokerAnswers \/ \E type \in {"PUBLISH0", "PUBLISH1"} : BrokerPublishes(type)
  \/ SessionDies

Spec == Init /\ [][Next]_vars

\* The task takes its turns, its timers elapse again and again, and the broker
\* reads what it is sent. Nothing is assumed of callers, nor of faults, whose
\* bound says they end.
Fairness ==
  /\ WF_vars(Loop) /\ WF_vars(Process) /\ WF_vars(Outgoing) /\ WF_vars(Keepalive)
  /\ SF_vars(Retransmit) /\ SF_vars(NoRetransmit) /\ SF_vars(RetransmitPubrel)
  /\ SF_vars(Ping) /\ SF_vars(NoPingresp)
  /\ WF_vars(BrokerTakes) /\ WF_vars(BrokerAnswers)

FairSpec == Spec /\ Fairness

-------------------------------------------------------------------------------
(* Correctness.                                                              *)

\* mqtt_outbox.c and mqtt_client.c:1228-1242, 1217-1226: a message is in the
\* outbox, once, exactly while it is neither acknowledged nor given up.
KeptOnce ==
  \A m \in Msgs :
    IF status[m] = "kept" THEN \E i \in DOMAIN outbox : \A j \in DOMAIN outbox :
                                 outbox[j].m = m <=> j = i
    ELSE \A i \in DOMAIN outbox : outbox[i].m # m

\* index.rst:49, mqtt_client.c:1463-1474, 1509-1523: whatever is acknowledged to the
\* application was taken by the broker, whichever calls, retransmissions,
\* aborts and expiries came between.
AcknowledgedIsDelivered == \A m \in Msgs : status[m] = "acked" => m \in delivered

\* mqtt_client.c:1562-1566: a PUBLISH the broker has taken before carries
\* the DUP flag when it arrives again.
RepeatsAreFlagged ==
  up # <<>> /\ Head(up).type = "PUBLISH" /\ Head(up).m \in delivered => Head(up).dup

\* mqtt_client.c:1475-1497, 1781-1790: within a session the broker never
\* takes a message of QoS 2 twice, although the task retransmits PUBLISH and
\* PUBREL at its own pace.
TakenOncePerSession ==
  up # <<>> /\ Head(up).type = "PUBLISH" /\ QoS[Head(up).m] = 2 /\ Head(up).m \in inSession
    => Head(up).id \in unreleased

\* mqtt_client.c:699-725, 754, 858: a PINGRESP is awaited only in the session in
\* which the PINGREQ was written, else the next session would be cut short.
PingOfThisSession == wait_for_ping_resp => state = "CONNECTED"

\* The client keeps the promise stated in Delivery.
Promise == INSTANCE Delivery
KeepsPromise == Promise!Spec

\* index.rst:49-51: a kept message does not stay in the outbox for ever: it is
\* delivered and acknowledged once connections stop failing, though only the
\* first unacknowledged message is retransmitted. (Messages expire as faults.)
OutboxDrains == <>[](outbox = <<>> \/ state = "DISCONNECTED")

\* mqtt_client.c:699-725: the keepalive finds a session that died silently.
DeadIsNoticed == conn = "dead" ~> conn # "dead"
===============================================================================
