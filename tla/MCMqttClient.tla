----------------------------- MODULE MCMqttClient -----------------------------
(* MqttClient with the messages of its runs.                                 *)
EXTENDS MqttClient, TLC

CONSTANTS pub0, pub1, pub2, sub

\* One message of each QoS and a subscription, with identifiers of their own.
AllType  == [m \in {pub0, pub1, pub2, sub} |-> IF m = sub THEN "SUBSCRIBE" ELSE "PUBLISH"]
AllQoS   == pub0 :> 0 @@ pub1 :> 1 @@ pub2 :> 2 @@ sub :> 0
Distinct == pub0 :> {1} @@ pub1 :> {2} @@ pub2 :> {3} @@ sub :> {4}

\* The publishes meet the most faults; the subscription shares the outbox with a
\* message of QoS 2 in the liveness run.
SafeMsgs == {pub0, pub1, pub2}
SafeType == [m \in SafeMsgs |-> AllType[m]]
SafeQoS  == [m \in SafeMsgs |-> AllQoS[m]]
SafeDraw == [m \in SafeMsgs |-> Distinct[m]]

LiveMsgs == {pub2, sub}
LiveType == [m \in LiveMsgs |-> AllType[m]]
LiveQoS  == [m \in LiveMsgs |-> AllQoS[m]]
LiveDraw == [m \in LiveMsgs |-> Distinct[m]]

\* Two publishes of QoS 1 for which the same identifier is drawn.
TwinMsgs == {pub1, pub2}
TwinType == [m \in TwinMsgs |-> "PUBLISH"]
TwinQoS  == [m \in TwinMsgs |-> 1]
TwinDraw == [m \in TwinMsgs |-> {1}]
===============================================================================
