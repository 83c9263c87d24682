----------------------------- MODULE MCPackets -----------------------------
(* Packets with the messages and the configurations of its run.             *)
EXTENDS Packets

\* CONNECTs: with nothing, with a password and a will, with a user name and properties.
Nobody == [client_id |-> 1, will_topic |-> 0, will_message |-> 0, username |-> 0, password |-> 0, properties |-> 0]
MCInfos == {Nobody, [Nobody EXCEPT !.password = 2, !.will_topic = 1, !.will_message = 1, !.client_id = 0],
            [Nobody EXCEPT !.username = 1, !.password = 1, !.properties = 2]}

\* Publishes that fit, that fill two and three buffers, without data; topics of two
\* lengths, properties whose length takes one byte and two.
Message == [topic : {1}, qos : {0, 1}, payload : {0, 3, 30}, null : BOOLEAN, properties : {0}]
             \cup [topic : {4}, qos : {0, 1}, payload : {0, 70}, null : {FALSE}, properties : {9}]
MCMessages == {m \in Message : m.null => m.payload = 0}

\* One that fits is not taken, and one that does not.
MCUnkept == {m \in MCMessages : m.topic = 1 /\ m.payload \in {3, 30} /\ m.qos = 1}

\* Topics 1 and 2, by themselves and under the aliases 1 and 2; payloads that fit and do not.
MCIncoming == {p \in [topic : 0..2, alias : 0..2, qos : {0, 1}, payload : {0, 30}, properties : {3}] :
                  (p.topic = 0 => p.alias > 0)}

\* One application publishes, another listens.
MCUses == {{"out"}, {"in"}}
=============================================================================
