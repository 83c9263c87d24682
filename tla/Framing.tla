------------------------------- MODULE Framing -------------------------------
(***************************************************************************)
(* mqtt_client.c, the receiving side: how mqtt_message_receive cuts the    *)
(* byte stream of a connection into MQTT packets. The socket is polled, a  *)
(* read returns what has arrived, and a packet that is not complete is     *)
(* continued by the next call from nothing but in_buffer and               *)
(* in_buffer_read_len. A PUBLISH larger than the buffer is handed over in  *)
(* parts by deliver_publish, which waits for each of them.                 *)
(* Of the bytes the model keeps what the reader branches on: where the     *)
(* packets end, and which bytes have their top bit set.                    *)
(***************************************************************************)
EXTENDS Integers, Sequences

CONSTANTS
  Packets,  \* what the broker sends in a session after its CONNACK, in order
  Tops,     \* positions in the stream of the bytes with the bit 0x80 set
  Buf,      \* in_buffer_length
  Stalls,   \* bound: payload reads that time out (network_timeout_ms)
  Sessions  \* bound: connections made

\* id: a PUBLISH with an identifier (QoS 1 or 2); fixed: length of the fixed header; header: of all
\* headers, the topic, its two bytes of length and the identifier included; from, to: place in the stream.
Packet == [publish : BOOLEAN, id : BOOLEAN, fixed : 2 .. 5, header : Nat, from : Nat, to : Nat]

Boundary(n) == IF n = 0 THEN 0 ELSE Packets[n].to

ASSUME PacketAssumption ==
  /\ Packets \in Seq(Packet)
  /\ \A n \in 1 .. Len(Packets) :
       LET p == Packets[n] IN
         /\ p.from = Boundary(n - 1) /\ p.to >= p.from + p.header /\ p.header >= p.fixed
         /\ p.publish => p.header >= p.fixed + (IF p.id THEN 4 ELSE 2)
         \* bytes 1 .. fixed - 1 are the remaining length: all but the last have the bit
         /\ \A i \in 1 .. p.fixed - 1 : (p.from + i \in Tops) <=> (i < p.fixed - 1)
ASSUME BoundsAssumption == Buf \in Nat /\ Buf >= 9 /\ Tops \subseteq Nat /\ Stalls \in Nat /\ Sessions \in Nat \ {0}

VARIABLES
  pos,           \* bytes the transport has given out in this session
  read_len,      \* in_buffer_read_len
  previous,      \* previous_in_buffer_read_len of the call under way
  msg_read_len,  \* of deliver_publish
  pc,            \* "idle" between calls; the read under way; "aborted"
  handled,       \* packets processed in this session
  stalls, sessions

vars == <<pos, read_len, previous, msg_read_len, pc, handled, stalls, sessions>>

TypeOK ==
  /\ pos \in Nat /\ read_len \in 0 .. Buf /\ previous \in 0 .. Buf /\ msg_read_len \in Nat
  /\ pc \in {"idle", "first", "length", "topic", "body", "process", "payload", "aborted"}
  /\ handled \in 0 .. Len(Packets) /\ stalls \in 0 .. Stalls /\ sessions \in 0 .. Sessions

Init ==
  /\ pos = 0 /\ read_len = 0 /\ previous = 0 /\ msg_read_len = 0
  /\ pc = "idle" /\ handled = 0 /\ stalls = 0 /\ sessions = 1

---------------------------------------------------------------------------
\* esp_transport_read(len): some of what has arrived, 0 when nothing has in time.
Arriving(len) == {k \in 0 .. len : pos + k <= Boundary(Len(Packets))}
Took(k) == pos' = pos + k /\ read_len' = read_len + k

\* The packet in the buffer. Where the reader has lost the boundaries the model ends.
Current == Packets[handled + 1]
Total   == Current.to - Current.from
InStep  == pos = Boundary(handled) + read_len
TopicEnd == Current.header - (IF Current.id THEN 2 ELSE 0)
LastHasTop == pos - 1 \in Tops

Frame == UNCHANGED <<previous, msg_read_len, handled, stalls, sessions>>

\* The call returns and leaves the message in the buffer for the next one.
LeftInProgress == pc' = "idle"
\* Mutant: a mid-message timeout is never an error.
TimedOutIsNoError == pc' = "idle" /\ UNCHANGED <<pos, read_len>>
\* Mid-message timeout: an error when nothing came since the call before.
TimedOut ==
  /\ pc' = IF previous = read_len THEN "aborted" ELSE "idle"
  /\ UNCHANGED <<pos, read_len>>

\* Mutant: the size of the buffer is forgotten.
WholeTarget == Total
\* Messages larger than the buffer are read up to its end, if they are PUBLISHes.
Target == IF Buf < Total THEN Buf ELSE Total
\* What to do with the n bytes in the buffer once the remaining length is known. The
\* comparison counts fixed header, topic and identifier, but not the topic's two bytes of length.
AfterLength(n) ==
  IF Buf < Total /\ ~Current.publish THEN "aborted"
  ELSE IF Buf < Total /\ n < Current.fixed + 2 THEN "topic"
  ELSE IF Buf < Total /\ Buf < Current.header - 2 THEN "aborted"
  ELSE IF n < Target THEN "body" ELSE "process"

\* Does the call, finding n bytes, (still) read the remaining length?
ReadsLength(n, top) == n = 1 \/ (n < 6 /\ top)

\* mqtt_process_receive enters mqtt_message_receive.
Call ==
  /\ pc = "idle" /\ InStep /\ (handled < Len(Packets) \/ read_len = 0)
  /\ previous' = read_len
  /\ pc' = IF read_len = 0 THEN "first"
           ELSE IF ReadsLength(read_len, LastHasTop) THEN "length" ELSE AfterLength(read_len)
  /\ UNCHANGED <<pos, read_len, msg_read_len, handled, stalls, sessions>>

ReadFirst ==
  /\ pc = "first"
  /\ \E k \in Arriving(1) : Took(k) /\ pc' = IF k = 0 THEN "idle" ELSE "length"
  /\ Frame

ReadLength ==
  /\ pc = "length"
  /\ \/ TimedOut
     \/ /\ 1 \in Arriving(1)
        /\ Took(1)
        /\ pc' = IF read_len + 1 < 6 /\ pos \in Tops THEN "length" ELSE AfterLength(read_len + 1)
  /\ Frame

\* The length of the topic, to know how long the headers are.
ReadTopicLength ==
  /\ pc = "topic"
  /\ \/ TimedOut
     \/ \E k \in Arriving(read_len - Current.fixed + 2) \ {0} :
          /\ Took(k)
          /\ IF read_len + k < Current.fixed + 2 THEN LeftInProgress ELSE pc' = AfterLength(read_len + k)
  /\ Frame

ReadBody ==
  /\ pc = "body"
  /\ \/ TimedOut
     \/ \E k \in Arriving(Target - read_len) \ {0} :
          /\ Took(k)
          /\ IF read_len + k < Target THEN LeftInProgress ELSE pc' = "process"
  /\ Frame

\* The message is done with: the next byte is taken for the start of the next one.
Done == handled' = handled + 1 /\ read_len' = 0 /\ pc' = "idle"

\* mqtt_get_publish_topic returns NULL: no byte of topic or payload, or a topic cut off.
NoTopic == read_len <= Current.fixed + 2 \/ read_len < TopicEnd

\* Mutant: a topic that was cut off is handed over.
ProcessAnyTopic ==
  /\ pc = "process"
  /\ msg_read_len' = read_len
  /\ IF Current.publish /\ read_len < Total
       THEN pc' = "payload" /\ UNCHANGED <<handled, read_len>>
       ELSE Done
  /\ UNCHANGED <<pos, previous, stalls, sessions>>

\* The switch of mqtt_process_receive; deliver_publish gives up on a PUBLISH without its
\* topic, and waits for the rest of a payload once the part in the buffer was dispatched.
Process ==
  /\ pc = "process"
  /\ msg_read_len' = read_len
  /\ IF Current.publish /\ NoTopic THEN pc' = "aborted" /\ UNCHANGED <<handled, read_len>>
     ELSE IF Current.publish /\ read_len < Total
       THEN pc' = "payload" /\ UNCHANGED <<handled, read_len>>
     ELSE Done
  /\ UNCHANGED <<pos, previous, stalls, sessions>>

\* deliver_suback refuses its message, or the answer to a message cannot be written.
AnswerFails ==
  /\ pc = "process" /\ (Current.publish => Current.id /\ read_len >= Total) /\ pc' = "aborted"
  /\ UNCHANGED <<pos, read_len, previous, msg_read_len, handled, stalls, sessions>>

ReadPayload ==
  /\ pc = "payload"
  /\ \E k \in Arriving(IF Total - msg_read_len > Buf THEN Buf ELSE Total - msg_read_len) \ {0} :
       /\ pos' = pos + k /\ msg_read_len' = msg_read_len + k
       /\ IF msg_read_len + k < Total THEN UNCHANGED <<pc, handled, read_len>> ELSE Done
  /\ UNCHANGED <<previous, stalls, sessions>>

\* A timeout there is no error for deliver_publish, which returns ESP_OK.
PayloadStalls ==
  /\ pc = "payload" /\ stalls < Stalls
  /\ stalls' = stalls + 1 /\ Done
  /\ UNCHANGED <<pos, previous, msg_read_len, sessions>>

\* The transport reports an error or the end of the stream.
ReadFails ==
  /\ pc \in {"first", "length", "topic", "body", "payload"} /\ pc' = "aborted"
  /\ UNCHANGED <<pos, read_len, previous, msg_read_len, handled, stalls, sessions>>

\* Mutant: in_buffer_read_len survives the connection.
ReconnectKeepsPart ==
  /\ pc = "aborted" /\ sessions < Sessions
  /\ sessions' = sessions + 1
  /\ pos' = 0 /\ handled' = 0 /\ pc' = "idle"
  /\ UNCHANGED <<read_len, previous, msg_read_len, stalls>>

\* esp_mqtt_connect: a new stream, and nothing of the old one in the buffer.
Reconnect ==
  /\ pc = "aborted" /\ sessions < Sessions
  /\ sessions' = sessions + 1
  /\ pos' = 0 /\ handled' = 0 /\ read_len' = 0 /\ pc' = "idle"
  /\ UNCHANGED <<previous, msg_read_len, stalls>>

Receive == Call \/ ReadFirst \/ ReadLength \/ ReadTopicLength \/ ReadBody \/ Process \/ ReadPayload \/ PayloadStalls
Next == Receive \/ ReadFails \/ AnswerFails \/ Reconnect

\* The client's task polls for ever; esp_transport_read returns, with data or without.
Spec == Init /\ [][Next]_vars /\ WF_vars(Receive)

---------------------------------------------------------------------------
\* mqtt_client.c:1244-1253: between calls, what was taken off the stream is the
\* messages handled and the part in the buffer: however the bytes arrived, nothing
\* of the next message was swallowed, and nothing is left from a session before.
WholeMessages == stalls = 0 /\ pc = "idle" => InStep

\* mqtt_client.c:1302-1349: whatever the sizes of packet and buffer and however the
\* bytes arrive, nothing is read past the end of the buffer or of the message, and a
\* topic that is handed over is whole. The identifier was read with it, except when the
\* headers are one or two bytes longer than the buffer: mqtt_get_id then looks for it
\* behind the buffer's end.
WithinBuffer ==
  /\ read_len <= Buf
  /\ pc \in {"topic", "body", "process"} => read_len <= Total
  /\ pc = "payload" => TopicEnd <= Buf
  /\ pc = "process" /\ Current.publish /\ Current.id =>
       Current.header <= read_len \/ Current.header \in {Buf + 1, Buf + 2}

\* mqtt_client.c:1375-1382: a message that has begun is completed, or the
\* connection is given up: a broker that stops in the middle cannot hold the task.
NoHalfMessage == read_len > 0 ~> (read_len = 0 \/ pc = "aborted")

===============================================================================
