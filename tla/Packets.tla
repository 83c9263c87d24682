------------------------------ MODULE Packets ------------------------------
(***************************************************************************)
(* What one MQTT client, of version 3.1.1 or 5, builds in its one output   *)
(* buffer call after call and session after session, what it keeps in the  *)
(* outbox, and what it makes of the PUBLISHes it receives.                 *)
(*                                                                         *)
(* Every call holds the API lock, so a call is a step; a publish larger    *)
(* than the buffer is written in fragments, one step each, with the lock   *)
(* held (`sending').  Any write may fail: the connection is then aborted.  *)
(* The two directions share the session only; Uses can keep them apart.    *)
(***************************************************************************)
EXTENDS Codec

CONSTANTS
    Infos,       \* configurations of the client: what its CONNECT carries
    Messages,    \* messages published or put in the outbox by the application
    Filters,     \* topic filters, by length
    Share,       \* bytes that a shared subscription (is_share_subscribe) adds to a filter
    Incoming,    \* PUBLISHes of the broker: topic is a length, and names the topic
    AliasMaxima, \* values of topic_alias_maximum the application sets
    MaxItems,    \* bound on the outbox
    Uses,        \* bound: the directions one application uses, among "out" and "in"
    Unkept       \* bound: the messages that the outbox may not take

ASSUME UsesAssumption ==
    /\ Uses \subseteq SUBSET {"out", "in"} /\ Unkept \subseteq Messages
    /\ MaxItems \in Nat /\ AliasMaxima \subseteq Nat /\ Filters \subseteq Nat /\ Share \in Nat

ASSUME MessagesAssumption ==
    /\ Infos \subseteq [client_id : Nat, will_topic : Nat, will_message : Nat, username : Nat,
                        password : Nat, properties : Nat]
    /\ Messages \subseteq [topic : Nat, qos : 0..2, payload : Nat, null : BOOLEAN, properties : Nat]
    /\ \A m \in Messages : m.null => m.payload = 0
    /\ Incoming \subseteq [topic : Nat, alias : Nat, qos : 0..2, payload : Nat, properties : Nat]
    /\ \A p \in Incoming : p.topic = 0 => p.alias > 0

VARIABLES
    version,  \* information.protocol_ver
    info,     \* the rest of connection->information
    state,    \* "wait" or "connected": client->state
    outbound, \* connection->outbound_message, the part that outlives a packet
    outbox,   \* the items of the outbox, oldest first
    sending,  \* the publish that esp_mqtt_client_publish is writing, or None
    packet,   \* the packet this step put on the wire, or None
    left,     \* history: "total" once a message that was given up left its total behind, until
              \* that and all that was built meanwhile is gone
    peer_topic_alias,    \* the topic of every alias of the broker's, 0 when not listed
    topic_alias_maximum, \* connect_property_info.topic_alias_maximum
    event     \* the MQTT_EVENT_DATA of this step and what the broker meant, or None

(* The broker's side of the session, and the application's choice.         *)
VARIABLES
    use,      \* what the application uses the client for
    granted,  \* the alias maximum this session's CONNECT announced
    aliases   \* the broker's own table

vars == <<version, info, use, state, outbound, outbox, sending, packet, left,
          peer_topic_alias, topic_alias_maximum, event, granted, aliases>>
inVars  == <<peer_topic_alias, topic_alias_maximum, granted, aliases>>

None == [type |-> "none"]
Aliases == UNION {1..maximum : maximum \in AliasMaxima}
NoAliases == [a \in Aliases |-> 0]

-----------------------------------------------------------------------------
(* esp_mqtt_client_init: the outbound message is zeroed.                   *)
Init ==
    /\ version \in Versions /\ info \in Infos /\ use \in Uses /\ state = "wait"
    /\ outbound = [total |-> 0, offset |-> 0]
    /\ outbox = <<>> /\ sending = None /\ packet = None /\ left = "nothing"
    /\ peer_topic_alias = NoAliases /\ topic_alias_maximum = 0
    /\ granted = 0 /\ aliases = NoAliases /\ event = None

NoOutput == packet' = None /\ event' = None

(* A packet written in one piece.                                          *)
Whole(type, built, chunks, payload) ==
    [type |-> type, says |-> built.says, written |-> built.length, chunks |-> chunks, payload |-> payload]

(* esp_mqtt_abort_connection.                                              *)
Abort == state' = "wait" /\ packet' = None

(* esp_mqtt_write: either the packet is on the wire, or the connection is  *)
(* aborted.                                                                *)
WriteOrAbort(written) ==
    \/ packet' = written /\ UNCHANGED state
    \/ Abort

(* fini_message of a packet without data: fails when it does not fit.      *)
Build(fields) == FiniMessage(outbound, Size(fields))

-----------------------------------------------------------------------------
(* esp_mqtt_connect, the CONNACK included: a session starts.  The list of  *)
(* aliases outlives the sessions; the broker's begins empty.               *)
ConnectTo(accepted) ==
    LET fields == ConnectFields(version, info) IN
    /\ state = "wait" /\ sending = None
    /\ Fits(fields)
    /\ outbound' = Build(fields).outbound
    /\ packet' = Whole("connect", Build(fields), <<>>, 0)
    /\ IF accepted
       THEN /\ state' = "connected"
            /\ granted' = topic_alias_maximum /\ aliases' = NoAliases
       ELSE UNCHANGED <<state, granted, aliases>>
    /\ event' = None /\ UNCHANGED <<outbox, sending, peer_topic_alias, topic_alias_maximum>>

(* PINGREQ, PUBACK, PUBREC, PUBREL, PUBCOMP and DISCONNECT.                *)
ControlFields == {PingreqFields, AckFields(version), DisconnectFields(version, 0)}

SendControl ==
    /\ state = "connected" /\ sending = None
    /\ \E fields \in ControlFields :
          /\ Fits(fields)
          /\ outbound' = Build(fields).outbound
          /\ WriteOrAbort(Whole("control", Build(fields), <<>>, 0))
    /\ event' = None /\ UNCHANGED <<outbox, sending, inVars>>

(* mqtt_enqueue: the bytes of the buffer and those that are left.          *)
Item(pending, qos, p) == [pending |-> pending, qos |-> qos, packet |-> p]
Enqueue(item) == outbox' = Append(outbox, item)

(* esp_mqtt_client_subscribe_multiple and esp_mqtt_client_unsubscribe,     *)
(* from the lock on.  A failed write leaves the connection as it is.       *)
SubscribeOrUnsubscribe(fields) ==
    LET subscribe == Whole("control", Build(fields), <<>>, 0) IN
    /\ state = "connected" /\ sending = None /\ Len(outbox) < MaxItems
    /\ Fits(fields)
    /\ outbound' = Build(fields).outbound
    /\ Enqueue(Item("transmitted", 1, subscribe))
    /\ packet' \in {subscribe, None}
    /\ event' = None /\ UNCHANGED <<state, sending, inVars>>

Subscribe ==
    \E filters \in {<<f>> : f \in Filters} \cup (Filters \X Filters), p \in {0, Base}, share \in {0, Share} :
        SubscribeOrUnsubscribe(SubscribeFields(version, filters, p, share))
Unsubscribe ==
    \E f \in Filters, share \in {0, Share} :
        SubscribeOrUnsubscribe(UnsubscribeFields(version, f, 0, share))

-----------------------------------------------------------------------------
(* make_publish and the outbox part of mqtt_client_enqueue_publish: `built'*)
(* is the message in the buffer.  The chunks of an item are the parts of   *)
(* the payload its bytes hold, in order.                                   *)

Chunks(built, m) ==
    IF built.outbound.total = 0 THEN <<<<0, built.held>>>>
    ELSE LET first_fragment == built.length - built.outbound.offset
         IN <<<<0, built.held>>, <<first_fragment, m.payload>>>>

Stored(built, m) ==
    [type    |-> "publish", says |-> built.says, payload |-> m.payload,
     chunks  |-> Chunks(built, m),
     written |-> built.length + IF built.outbound.total = 0 THEN 0
                                ELSE m.payload - (built.length - built.outbound.offset)]

Built(m) == PublishMessage(version, m, outbound)
Creatable(m) == sending = None /\ Fits(PublishFields(version, m))

\* Mutant: nothing is cleared.
KeepTotal(message) == message

ClearTotal(message) == [message EXCEPT !.total = 0]

(* No memory for the item, or esp_mqtt_client_enqueue of QoS 0 without     *)
(* `store': -1 is returned, and the message is left as it was built, the   *)
(* total of one larger than the buffer included.                           *)
NotEnqueued(m) ==
    /\ Creatable(m)
    /\ outbound' = Built(m).outbound
    /\ left' = IF Built(m).outbound.total = 0 THEN left ELSE "total"
    /\ NoOutput /\ UNCHANGED <<state, outbox, sending, inVars>>

(* A message of 3.1.1 without data is taken for the rest of a larger one   *)
(* when a total was left over: a negative number of bytes would be copied, *)
(* and the model ends.                                                     *)
Storable(m) == version = 3 /\ m.null => outbound.total = 0

(* esp_mqtt_client_enqueue, with `store' for messages of QoS 0.            *)
EnqueueMessage(m) ==
    /\ Creatable(m) /\ Storable(m) /\ Len(outbox) < MaxItems
    /\ Enqueue(Item("queued", m.qos, Stored(Built(m), m)))
    /\ outbound' = ClearTotal(Built(m).outbound)
    /\ NoOutput /\ UNCHANGED <<state, sending, inVars>>

(* esp_mqtt_client_publish up to its loop; without a connection it ends at *)
(* cannot_publish.                                                         *)
PublishStored(m) ==
    IF m.qos = 0 THEN outbox' = outbox /\ outbound' = Built(m).outbound
    ELSE /\ Storable(m) /\ Len(outbox) < MaxItems
         /\ Enqueue(Item("queued", m.qos, Stored(Built(m), m)))
         /\ outbound' = ClearTotal(Built(m).outbound)

BeginPublish(m) ==
    /\ state = "connected" /\ Creatable(m)
    /\ PublishStored(m)
    /\ sending' = [type |-> "publish", qos |-> m.qos, payload |-> m.payload, says |-> Built(m).says,
                   length |-> Built(m).length, remaining_len |-> m.payload,
                   data |-> <<0, Built(m).held>>, chunks |-> <<>>, written |-> 0]
    /\ packet' = None
    /\ event' = None /\ UNCHANGED <<state, inVars>>

PublishOffline(m) ==
    /\ state # "connected" /\ Creatable(m)
    /\ IF m.qos = 0 THEN outbox' = outbox
       ELSE /\ Storable(m) /\ Len(outbox) < MaxItems
            /\ Enqueue(Item("queued", m.qos, Stored(Built(m), m)))
    /\ outbound' = ClearTotal(Built(m).outbound)
    /\ NoOutput /\ UNCHANGED <<state, sending, inVars>>

(* What the loop has sent of the data after a write of the whole buffer.   *)
DataSent == sending.length - outbound.offset

(* One turn of the loop whose write succeeds: the next fragment, or the    *)
(* end, where a message with an identifier becomes TRANSMITTED.            *)
Fragment ==
    LET chunks == Append(sending.chunks, sending.data)
        rest   == sending.remaining_len - DataSent
        size   == IF rest > BufferLength THEN BufferLength ELSE rest
        from   == sending.payload - rest
    IN
    /\ sending # None
    /\ outbound' = [total |-> 0, offset |-> 0]
    /\ IF rest > 0
       THEN /\ sending' = [sending EXCEPT !.remaining_len = rest, !.length = size,
                             !.data = <<from, from + size>>, !.chunks = chunks,
                             !.written = @ + sending.length]
            /\ packet' = None /\ UNCHANGED outbox
       ELSE /\ sending' = None
            /\ packet' = [type |-> "publish", says |-> sending.says, payload |-> sending.payload,
                          chunks |-> chunks, written |-> sending.written + sending.length]
            /\ outbox' = IF sending.qos = 0 THEN outbox
                         ELSE [outbox EXCEPT ![Len(outbox)].pending = "transmitted"]
    /\ event' = None /\ UNCHANGED <<state, inVars>>

\* Mutant: after a write that fails the loop goes on.
FragmentSkipped ==
    /\ sending # None
    /\ Abort
    /\ outbound' = ClearTotal(outbound)
    /\ event' = None /\ UNCHANGED <<outbox, sending, inVars>>

(* One turn whose write fails.  What the DISCONNECTED handlers publish from *)
(* within the abort is a step after this one: it sets its own total, but   *)
(* for a message of 3.1.1 without data (Storable), which is left out.      *)
FragmentFails ==
    /\ sending # None
    /\ Abort /\ sending' = None
    /\ outbound' = ClearTotal(outbound)
    /\ event' = None /\ UNCHANGED <<outbox, inVars>>

Publish == \E m \in Messages : BeginPublish(m) \/ PublishOffline(m) \/ EnqueueMessage(m)

-----------------------------------------------------------------------------
(* The task: mqtt_resend_queued writes the item's own bytes, and a QoS 0   *)
(* item leaves the outbox then.                                            *)
Without(i) == [j \in 1..(Len(outbox) - 1) |-> outbox[IF j < i THEN j ELSE j + 1]]

Oldest(pending, i) ==
    /\ i \in DOMAIN outbox /\ outbox[i].pending = pending
    /\ \A j \in 1..(i - 1) : outbox[j].pending # pending

ResendQueued(i) ==
    /\ state = "connected" /\ sending = None
    /\ \/ Oldest("queued", i)
       \/ Oldest("transmitted", i) /\ \A j \in DOMAIN outbox : outbox[j].pending # "queued"
    /\ \/ /\ packet' = outbox[i].packet /\ UNCHANGED state
          /\ outbox' = IF outbox[i].qos = 0 THEN Without(i)
                       ELSE [outbox EXCEPT ![i].pending = "transmitted"]
       \/ Abort /\ UNCHANGED outbox
    /\ event' = None /\ UNCHANGED <<outbound, sending, inVars>>

(* The broker acknowledges an item, or its time is over.                   *)
Acknowledged(i) ==
    /\ sending = None /\ i \in DOMAIN outbox
    /\ outbox' = Without(i)
    /\ NoOutput /\ UNCHANGED <<state, outbound, sending, inVars>>

(* The connection is lost or given up.                                     *)
ConnectionLost ==
    /\ state = "connected" /\ sending = None
    /\ Abort
    /\ event' = None /\ UNCHANGED <<outbound, outbox, sending, inVars>>

-----------------------------------------------------------------------------
(* esp_mqtt5_client_set_connect_property: a maximum of 0 changes nothing.  *)
SetConnectProperty(maximum) ==
    /\ version = 5 /\ sending = None
    /\ maximum > 0 /\ topic_alias_maximum' = maximum
    /\ NoOutput /\ UNCHANGED <<state, outbound, outbox, sending, peer_topic_alias, granted, aliases>>

\* Mutant: an alias that is listed is left as it is.
UpdateUnlisted(alias, topic) ==
    IF peer_topic_alias[alias] # 0 THEN peer_topic_alias ELSE [peer_topic_alias EXCEPT ![alias] = topic]

(* esp_mqtt5_client_update_topic_alias and esp_mqtt5_client_get_topic_alias*)
UpdateTopicAlias(alias, topic) == [peer_topic_alias EXCEPT ![alias] = topic]
GetTopicAlias(alias) == peer_topic_alias[alias]

(* esp_mqtt5_get_publish_data: the topic the application is told, or 0     *)
(* when the message cannot be delivered.                                   *)
TopicOf(p) ==
    IF version = 3 THEN (IF mqtt_get_publish_topic(p) = NULL THEN 0 ELSE p.topic)
    ELSE IF mqtt5_get_publish_property_payload(p) = NULL \/ p.alias > topic_alias_maximum THEN 0
    ELSE IF p.alias > 0 /\ p.topic = 0 THEN GetTopicAlias(p.alias)
    ELSE p.topic

Data(p) == IF version = 3 THEN mqtt_get_publish_data(p) ELSE mqtt5_get_publish_property_payload(p)

(* deliver_publish, the first event of a message; the rest of a message    *)
(* larger than the buffer is Framing's.  `meant' is the broker's topic.    *)
Deliver(p, meant) ==
    /\ event' = [type |-> "data", topic |-> TopicOf(p), meant |-> meant,
                 total |-> Data(p).len + Total(version, p) - ReadLength(version, p), payload |-> p.payload,
                 at |-> Data(p).at, behind |-> FixedHeader(version, p) + Size(PublishFields(version, p)),
                 id |-> HasId(version, p), qos |-> p.qos]
    /\ peer_topic_alias' = IF version = 5 /\ p.alias > 0 /\ p.topic > 0
                           THEN UpdateTopicAlias(p.alias, p.topic) ELSE peer_topic_alias
    /\ packet' = None /\ UNCHANGED state

(* The broker publishes: with the topic, with the topic and an alias for   *)
(* it, or with an alias it has given out in this session.                  *)
Receive(p) ==
    LET meant == IF p.topic > 0 THEN p.topic ELSE aliases[p.alias] IN
    /\ state = "connected" /\ sending = None
    /\ p.alias = 0 \/ (version = 5 /\ p.alias <= granted)
    /\ meant > 0
    /\ aliases' = IF p.alias > 0 THEN [aliases EXCEPT ![p.alias] = meant] ELSE aliases
    /\ IF TopicOf(p) > 0 THEN Deliver(p, meant)
       ELSE Abort /\ event' = None /\ UNCHANGED peer_topic_alias
    /\ UNCHANGED <<outbound, outbox, sending, topic_alias_maximum, granted>>

Out ==
    /\ "out" \in use
    /\ \/ Subscribe \/ Unsubscribe \/ Publish \/ Fragment \/ FragmentFails
       \/ \E i \in 1..MaxItems : ResendQueued(i) \/ Acknowledged(i)

In ==
    /\ "in" \in use
    /\ \/ \E maximum \in AliasMaxima : SetConnectProperty(maximum)
       \/ \E p \in Incoming : Receive(p)

Session == SendControl \/ ConnectionLost \/ \E accepted \in BOOLEAN : ConnectTo(accepted)

Refused == "out" \in use /\ \E m \in Unkept : NotEnqueued(m)

(* Nothing is left of a message that was given up.                         *)
Clean == outbound.total = 0 /\ outbox = <<>> /\ sending = None /\ packet = None

Next ==
    /\ \/ Refused
       \/ (Out \/ In \/ Session) /\ left' = IF Clean' THEN "nothing" ELSE left
    /\ UNCHANGED <<version, info, use>>

Spec == Init /\ [][Next]_vars
-----------------------------------------------------------------------------
(* Properties.                                                             *)

(* The types of the variables.                                             *)
TypeOK ==
    /\ version \in Versions /\ info \in Infos /\ state \in {"wait", "connected"}
    /\ outbound \in [total : Nat, offset : Nat] /\ left \in {"nothing", "total"}
    /\ Len(outbox) <= MaxItems
    /\ \A i \in DOMAIN outbox : outbox[i].packet.written \in Nat /\ outbox[i].pending \in {"queued", "transmitted"}
    /\ packet # None => packet.written \in Nat /\ packet.says \in Nat
    /\ sending # None => state = "connected" /\ sending.remaining_len \in Nat
    /\ peer_topic_alias \in [Aliases -> Nat] /\ topic_alias_maximum \in {0} \cup AliasMaxima

InOrder(p) ==
    /\ p.chunks # <<>> /\ p.chunks[Len(p.chunks)][2] = p.payload
    /\ \A i \in DOMAIN p.chunks : p.chunks[i][1] = IF i = 1 THEN 0 ELSE p.chunks[i - 1][2]
Framed(p) == p.written = p.says

(* A publish larger than the output buffer has on the wire, and every      *)
(* publish has in the outbox, exactly the bytes that its header announces, *)
(* with the payload whole and in order, whatever calls, failed writes and  *)
(* sessions left behind in the shared message before (mqtt_msg_publish,    *)
(* mqtt_client_enqueue_publish, the loop of esp_mqtt_client_publish),      *)
(* except after a message larger than the buffer that the outbox did not   *)
(* take: its total is left for those after it.                             *)
WholePublishes ==
    left = "nothing" =>
        /\ packet # None /\ packet.type = "publish" /\ packet.says > BufferLength
              => Framed(packet) /\ InOrder(packet)
        /\ \A i \in DOMAIN outbox :
              outbox[i].packet.type = "publish" => Framed(outbox[i].packet) /\ InOrder(outbox[i].packet)

(* mqtt_client.c:2266: a publish that failed or was skipped is cleared out, *)
(* so that a packet without a payload, CONNECT first of all, announces its *)
(* own length: one that announces more makes the broker wait for bytes     *)
(* that never come (fini_message).                                         *)
AnnouncesItself ==
    /\ packet # None /\ packet.type # "publish" => Framed(packet)
    /\ \A i \in DOMAIN outbox : outbox[i].packet.type # "publish" => Framed(outbox[i].packet)

(* It does, through fragments, failed writes, skipped messages and new     *)
(* sessions, except after a message larger than the buffer that the outbox *)
(* did not take, whose total nothing clears (mqtt_client.c:2146-2151).     *)
ControlFramed == left = "nothing" => AnnouncesItself

(* Reading a CONNECT by its flags, as a broker does, gives every text to   *)
(* the field it was configured for, and no password comes without a user   *)
(* name (the comment at mqtt_msg_connect's empty user name).               *)
ConnectOrder(flags) ==
    <<"protocol">> \o Maybe(version = 5, <<"properties">>) \o <<"client_id">>
    \o Maybe("will" \in flags, Maybe(version = 5, <<"will_properties">>) \o <<"will_topic", "will_message">>)
    \o Maybe("username" \in flags, <<"username">>) \o Maybe("password" \in flags, <<"password">>)

ConnectUnderstood ==
    LET fields == ConnectFields(version, info) IN
    /\ [i \in DOMAIN fields |-> fields[i].is] = ConnectOrder(ConnectFlags(info))
    /\ "password" \in ConnectFlags(info) => "username" \in ConnectFlags(info)

(* The application is told the topic the broker meant, through any history *)
(* of topic aliases over sessions and of maxima set meanwhile, and the     *)
(* first piece of the payload, the payload's length and the identifier are *)
(* found behind the topic and the properties (deliver_publish, the getters *)
(* of both codecs, esp_mqtt5_get_publish_data).                            *)
ReceivedAsMeant ==
    event # None =>
        /\ event.topic = event.meant
        /\ event.total = event.payload
        /\ event.payload > 0 => event.at = event.behind
        /\ event.id = (event.qos > 0)
=============================================================================
