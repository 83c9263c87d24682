------------------------------- MODULE Codec -------------------------------
(***************************************************************************)
(* lib/mqtt_msg.c and lib/mqtt5_msg.c: the packets the MQTT client builds  *)
(* in its output buffer, and what it makes of a PUBLISH in its input       *)
(* buffer.  A field of a packet is its name and the bytes it takes; the    *)
(* bytes themselves are left out.  `version' is 3 (3.1.1) or 5.            *)
(***************************************************************************)
EXTENDS Integers, Sequences

CONSTANTS
    Base,          \* what one byte of a variable length counts to (128 in the code)
    BufferLength,  \* bytes of the output buffer
    InBufferLength \* bytes of the input buffer

ASSUME BufferAssumption ==
    /\ Base \in Nat /\ Base > 1
    /\ BufferLength \in Nat /\ BufferLength > 15     \* the fixed part of CONNECT
    /\ InBufferLength \in Nat /\ InBufferLength > 5

MaxFixedHeader == 5
Versions == {3, 5}
NULL == [len |-> -1]

-----------------------------------------------------------------------------
(* Lengths and fields.                                                     *)

\* Bytes of the variable-length encoding of n: at most four. Packets of Base^4 bytes
\* and more, which the code refuses, are not built here.
LengthBytes(n) ==
    IF n < Base THEN 1
    ELSE IF n < Base * Base THEN 2
    ELSE IF n < Base * Base * Base THEN 3
    ELSE 4

Number(name, bytes) == [is |-> name, len |-> bytes]

\* append_string, and append_property with a length of two bytes.
String(name, length) == [is |-> name, len |-> 2 + length]

\* The properties of MQTT 5: the byte kept for their length is widened when they
\* turn out to need more (update_property_len_value).
Properties(version, name, length) ==
    IF version = 5 THEN <<[is |-> name, len |-> LengthBytes(length) + length]>> ELSE <<>>

Size(fields) ==
    LET upTo[n \in 0..Len(fields)] == IF n = 0 THEN 0 ELSE upTo[n - 1] + fields[n].len
    IN upTo[Len(fields)]

\* Every append checks the end of the buffer; the first that does not fit fails
\* the message.
Fits(fields) == MaxFixedHeader + Size(fields) <= BufferLength

Maybe(condition, fields) == IF condition THEN fields ELSE <<>>

-----------------------------------------------------------------------------
(* The fixed header.  outbound is the part of connection->outbound_message *)
(* that outlives a packet:                                                 *)
(*   total   fragmented_msg_total_length, 0 when the packet is complete    *)
(*   offset  fragmented_msg_data_offset; it falls with every packet built, *)
(*           and below zero all its values act alike, so it stops at zero  *)

Plus(n) == IF n > 0 THEN n ELSE 0

\* Mutant: the length of a message sent in fragments is that of its first one.
FiniFirstFragment(outbound, body) ==
    LET bytes == LengthBytes(body)
    IN [says |-> 1 + bytes + body, length |-> 1 + bytes + body,
        outbound |-> [outbound EXCEPT !.offset = Plus(@ - (MaxFixedHeader - 1 - bytes))]]

\* fini_message, for a packet with `body' bytes after the place kept for the
\* fixed header: what the header announces, and the bytes in the buffer.
FiniMessage(outbound, body) ==
    LET remaining == IF outbound.total # 0 THEN outbound.total - MaxFixedHeader ELSE body
        bytes     == LengthBytes(remaining)
        offs      == MaxFixedHeader - 1 - bytes
    IN [says     |-> 1 + bytes + remaining,
        length   |-> 1 + bytes + body,
        outbound |-> [outbound EXCEPT !.offset = Plus(@ - offs)]]

-----------------------------------------------------------------------------
(* The packets.                                                            *)

\* The will, the user name and the password are optional: their length is 0 when
\* they are NULL or empty.
ConnectFields(version, info) ==
    <<Number("protocol", 10)>>
    \o Properties(version, "properties", info.properties)
    \o <<String("client_id", info.client_id)>>
    \o Maybe(info.will_topic > 0,
             Properties(version, "will_properties", info.properties)
             \o <<String("will_topic", info.will_topic), String("will_message", info.will_message)>>)
    \o Maybe(info.username > 0 \/ info.password > 0, <<String("username", info.username)>>)
    \o Maybe(info.password > 0, <<String("password", info.password)>>)

\* Mutant: a password without a user name goes without the empty user name.
FlagsOfTexts(info) ==
    {flag \in {"will", "username", "password"} :
        \/ flag = "will"     /\ info.will_topic > 0
        \/ flag = "username" /\ info.username > 0
        \/ flag = "password" /\ info.password > 0}

ConnectFlags(info) ==
    {flag \in {"will", "username", "password"} :
        \/ flag = "will"     /\ info.will_topic > 0
        \/ flag = "username" /\ (info.username > 0 \/ info.password > 0)
        \/ flag = "password" /\ info.password > 0}

PublishFields(version, m) ==
    <<String("topic", m.topic)>>
    \o Maybe(m.qos > 0, <<Number("id", 2)>>)
    \o Properties(version, "properties", m.properties)

\* A shared subscription puts "$share/<name>/" before every filter: share is 0 for any other.
SubscribeFields(version, filters, properties, share) ==
    <<Number("id", 2)>> \o Properties(version, "properties", properties)
    \o [i \in 1..2 * Len(filters) |->
          IF i % 2 = 0 THEN Number("options", 1)
          ELSE String("filter", filters[(i + 1) \div 2] + (IF version = 5 THEN share ELSE 0))]

UnsubscribeFields(version, filter, properties, share) ==
    <<Number("id", 2)>> \o Properties(version, "properties", properties)
    \o <<String("filter", filter + (IF version = 5 THEN share ELSE 0))>>

\* PUBACK, PUBREC, PUBREL and PUBCOMP: of version 5 with a reason code.
AckFields(version) ==
    <<Number("id", 2)>> \o Maybe(version = 5, <<Number("reason", 1)>>) \o Properties(version, "properties", 0)

DisconnectFields(version, properties) ==
    Maybe(version = 5, <<Number("reason", 1)>>) \o Properties(version, "properties", properties)

\* mqtt_msg_pingreq serves both versions.
PingreqFields == <<>>

\* The rest of mqtt_msg_publish and mqtt5_msg_publish: the data behind the fields.
\* What does not fit is left to be sent in fragments, and `total' remembers it.
\* Without data the message of 3.1.1 leaves `total' alone.
PublishMessage(version, m, outbound) ==
    LET start  == MaxFixedHeader + Size(PublishFields(version, m))
        room   == BufferLength - start
        bodied == IF version = 3 /\ m.null THEN outbound
                  ELSE IF m.payload > room THEN [total |-> m.payload + start, offset |-> start]
                  ELSE [outbound EXCEPT !.total = 0]
        held   == IF m.payload > room THEN room ELSE m.payload
        packet == FiniMessage(bodied, start + held - MaxFixedHeader)
    IN [says |-> packet.says, length |-> packet.length, outbound |-> packet.outbound, held |-> held]

-----------------------------------------------------------------------------
(* A PUBLISH in the input buffer, cut off at its end when it is larger.    *)
(* p is what the broker wrote; the operators below see its lengths only.   *)

Remaining(version, p)  == Size(PublishFields(version, p)) + p.payload
FixedHeader(version, p) == 1 + LengthBytes(Remaining(version, p))
Total(version, p)      == FixedHeader(version, p) + Remaining(version, p)
ReadLength(version, p) == IF Total(version, p) > InBufferLength THEN InBufferLength ELSE Total(version, p)

AfterTopic(version, p) == FixedHeader(version, p) + 2 + p.topic
IdBytes(p) == IF p.qos > 0 THEN 2 ELSE 0

\* mqtt_get_publish_topic: its place and length.
mqtt_get_publish_topic(p) ==
    IF \/ FixedHeader(3, p) + 2 >= ReadLength(3, p)
       \/ AfterTopic(3, p) > ReadLength(3, p)
    THEN NULL
    ELSE [at |-> FixedHeader(3, p) + 2, len |-> p.topic]

\* mqtt_get_publish_data: the part of the payload that is in the buffer.
mqtt_get_publish_data(p) ==
    IF \/ FixedHeader(3, p) + 2 >= ReadLength(3, p)
       \/ AfterTopic(3, p) >= ReadLength(3, p)
       \/ p.qos > 0 /\ AfterTopic(3, p) + 2 >= ReadLength(3, p)
    THEN [at |-> 0, len |-> 0]
    ELSE LET data == AfterTopic(3, p) + IdBytes(p)
         IN [at |-> data, len |-> ReadLength(3, p) - data]

\* mqtt5_get_publish_property_payload: the same, behind the properties.
mqtt5_get_publish_property_payload(p) ==
    IF \/ AfterTopic(5, p) >= ReadLength(5, p)
       \/ p.qos > 0 /\ AfterTopic(5, p) + 2 >= ReadLength(5, p)
    THEN NULL
    ELSE LET data == AfterTopic(5, p) + IdBytes(p) + Size(Properties(5, "properties", p.properties))
         IN [at |-> data, len |-> ReadLength(5, p) - data]

\* mqtt_get_id and mqtt5_get_id of a PUBLISH: whether the identifier is found.
HasId(version, p) == p.qos > 0 /\ AfterTopic(version, p) + 2 <= ReadLength(version, p)
=============================================================================
