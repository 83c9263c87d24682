-------------------------- MODULE ConnectivityProofs --------------------------
(***************************************************************************)
(* Theorems of Connectivity, for every number of retries, every set of     *)
(* task slots and every bound on the environment.                          *)
(***************************************************************************)
EXTENDS Connectivity, SequenceTheorems, TLAPS

(***************************************************************************)
(* The inductive invariants.                                               *)
(***************************************************************************)

\* Who has a client: there is one from mqtt_start on, and the MQTT task is in a
\* handler only then; an abort that has not run its handler has set the state.
SessionInv ==
  /\ s_mqtt_client = "client" /\ dispatching = "none" => state = "CONNECTED"
  /\ dispatching # "none" => state = "WAIT_RECONNECT"
  /\ state # "NONE" <=> mainPc = "done"
  /\ mqttPc # "loop" => state # "NONE"

\* The driver and the handler take turns, so that the event queue holds what
\* the state of the link says, and attempts are counted exactly.
WifiInv ==
  /\ s_wifi_connected_once <=> "CONNECTED" \in s_wifi_event_group
  /\ mainPc \in {"start", "done"} => s_wifi_connected_once
  /\ link \in {"joining", "joined"} => evtQ = <<>>
  /\ link = "up" => (evtQ = <<>> /\ s_wifi_connected_once) \/ evtQ = <<"GOT_IP">>
  /\ link = "down" =>
       \/ evtQ = <<"STA_START">> /\ s_wifi_event_group = {}
       \/ evtQ = <<"DISCONNECTED">> \/ evtQ = <<"GOT_IP", "DISCONNECTED">>
       \/ evtQ = <<>> /\ "FAIL" \in s_wifi_event_group
  /\ "FAIL" \in s_wifi_event_group =>
       /\ link = "down" /\ evtQ = <<>> /\ ~s_wifi_connected_once
       /\ s_wifi_retry_num = MaxRetries
  /\ evtQ = <<"STA_START">> => joins = 0 /\ s_wifi_retry_num = 0
  /\ evtQ # <<"STA_START">> /\ ~s_wifi_connected_once => joins = s_wifi_retry_num + 1
  /\ joins <= MaxRetries + 1

Installed(t) == otaStatus[t] = "applied" /\ otaPc[t] \in {"check", "pass", "publish", "abort", "delay"}

\* What a busy task knows: its job is the last one accepted, its status comes
\* after what was reported, and it has changed the boot slot exactly when the
\* status it is to report is "applied".
TaskInv(t) ==
  Busy(t) =>
    /\ otaJob[t] = jobs
    /\ otaPc[t] = "delay" => otaStatus[t] = "applied"
    /\ otaPc[t] = "clear" => otaStatus[t] = "failed"
    /\ otaPc[t] = "download" => otaStatus[t] = "downloading"
    /\ otaPc[t] \in {"check", "pass", "publish"} /\ reported.job = jobs =>
         reported.rank < Rank[otaStatus[t]]
    /\ otaPc[t] = "abort" /\ reported.job = jobs => reported.rank <= Rank[otaStatus[t]]
    /\ otaPc[t] = "download" /\ reported.job = jobs => reported.rank <= 2
    /\ Installed(t) => bootSlot = jobs /\ running < jobs
    /\ ~Installed(t) => bootSlot = running /\ bootSlot < jobs

JobInv ==
  /\ \A t \in Tasks : TaskInv(t)
  /\ reported.job <= jobs /\ bootSlot <= jobs /\ running <= bootSlot
  /\ mqttPc = "accept" => reported.job < jobs
  /\ mqttPc \in {"create", "createFailed"} /\ reported.job = jobs => reported.rank <= 1
  /\ mqttPc \in {"accept", "create"} => bootSlot < jobs
  /\ mqttPc = "createFailed" => \A t \in Tasks : ~Busy(t)
  /\ (\A t \in Tasks : ~Busy(t)) => bootSlot = running

-------------------------------------------------------------------------------
(* Type correctness.                                                         *)

USE RetriesAssumption, BoundsAssumption, MsgsAssumption
USE DEF TypeOK, wifiVars, sessionVars, taskVars, otaVars, imageVars, envVars, Fault, At

\* What an MQTT API call changes.
SessionTyped ==
  /\ dispatching \in {"none", "DISCONNECTED"}
  /\ state \in {"NONE", "INIT", "CONNECTED", "WAIT_RECONNECT", "DISCONNECTED"}
  /\ conn \in {"none", "alive", "dead"}
  /\ subs \in SUBSET Topics
  /\ inbox \in Seq(Messages)

Reports == [job : Nat, rank : 0 .. 3]

\* An aborted connection leaves the session's variables in their sets.
LEMMA AbortTyped == AbortConnection => SessionTyped'
BY DEF AbortConnection, SessionTyped

\* So does a publish, whatever the state it is called in.
LEMMA PublishTyped ==
  ASSUME TypeOK, NEW queue \in Seq(Messages), Publish(queue)
  PROVE  SessionTyped'
BY AbortTyped DEF Publish, SessionTyped, SessionTypeOK

\* A report carries a job and a rank of the table.
LEMMA ReportTyped ==
  ASSUME NEW j \in Nat, NEW status \in Statuses
  PROVE  Report(j, status) \in Reports
BY DEF Report, Rank, Statuses, Reports

\* publish_ota_status in the MQTT task, with or without a handle.
LEMMA PublishOtaTyped ==
  ASSUME TypeOK, NEW queue \in Seq(Messages), NEW log \in Reports, PublishOtaStatus(queue, log)
  PROVE  SessionTyped' /\ reported' \in Reports
BY PublishTyped
   DEF PublishOtaStatus, SessionTyped, SessionTypeOK, QueueTypeOK, OtaTypeOK, Reports

\* Each step of the driver, the Wi-Fi handler or main keeps the types.
LEMMA WifiTypes ==
  ASSUME TypeOK, Driver \/ WifiHandler \/ Main
  PROVE  TypeOK'
<1> USE DEF WifiTypeOK, SessionTypeOK, OtaTypeOK, QueueTypeOK, OtaPcs, WifiEvents
<1>1. CASE JoinFails
  BY <1>1 DEF JoinFails
<1>2. CASE Joins
  BY <1>2 DEF Joins
<1>3. CASE DhcpBinds
  BY <1>3 DEF DhcpBinds
<1>4. CASE LinkLost
  BY <1>4 DEF LinkLost
<1>5. CASE OnStaStart
  BY <1>5 DEF OnStaStart, Handle, Connect
<1>6. CASE OnDisconnected
  <2>1. s_wifi_event_group' \in SUBSET {"CONNECTED", "FAIL"}
    BY <1>6 DEF OnDisconnected
  <2>2. s_wifi_retry_num' \in 0 .. MaxRetries
    BY <1>6 DEF OnDisconnected, RetriesLeft
  <2>3. joins' \in Nat /\ link' \in {"down", "joining", "joined", "up"}
    BY <1>6 DEF OnDisconnected, Connect
  <2>4. QueueTypeOK'
    BY <1>6 DEF OnDisconnected, Handle
  <2> QED BY <1>6, <2>1, <2>2, <2>3, <2>4 DEF OnDisconnected
<1>7. CASE OnGotIp
  BY <1>7 DEF OnGotIp, Handle
<1>8. CASE WaitEnds
  BY <1>8 DEF WaitEnds
<1>9. CASE MqttStart
  BY <1>9 DEF MqttStart
<1> QED
  BY <1>1, <1>2, <1>3, <1>4, <1>5, <1>6, <1>7, <1>8, <1>9 DEF Driver, WifiHandler, Main

\* Each step of the MQTT task outside the DATA handler keeps the types.
LEMMA SessionTypes ==
  ASSUME TypeOK, Session
  PROVE  TypeOK'
<1> USE DEF WifiTypeOK, SessionTypeOK, OtaTypeOK, QueueTypeOK, OtaPcs
<1>1. CASE ConnectFails
  BY <1>1, AbortTyped DEF ConnectFails, SessionTyped
<1>2. CASE ConnectSucceeds
  <2>1. SessionTyped'
    <3>1. CASE AbortConnection
      BY <3>1, AbortTyped
    <3>2. CASE ~AbortConnection
      <4>1. subs' \in SUBSET Topics
        BY <1>2, <3>2 DEF ConnectSucceeds, OnConnected
      <4>2. <<"json">> \in Seq(Messages) /\ <<>> \in Seq(Messages)
        BY DEF Messages
      <4>3. inbox' \in Seq(Messages)
        BY <1>2, <3>2, <4>2 DEF ConnectSucceeds, OnConnected
      <4> QED BY <1>2, <3>2, <4>1, <4>3 DEF ConnectSucceeds, OnConnected, SessionTyped
    <3> QED BY <3>1, <3>2
  <2>2. faults' \in 0 .. MaxFaults
    BY <1>2 DEF ConnectSucceeds, OnConnected
  <2>3. s_mqtt_client' = "client"
    BY <1>2 DEF ConnectSucceeds, OnConnected
  <2> QED BY <1>2, <2>1, <2>2, <2>3 DEF ConnectSucceeds, SessionTyped
<1>7. CASE DisconnectedHandled
  BY <1>7 DEF DisconnectedHandled, OnMqttDisconnected
<1>3. CASE Resubscribe
  BY <1>3 DEF Resubscribe
<1>4. CASE TaskAborts
  BY <1>4, AbortTyped DEF TaskAborts, SessionTyped
<1>5. CASE Reconnects
  BY <1>5 DEF Reconnects
<1>6. CASE TransportFails
  BY <1>6 DEF TransportFails
<1> QED BY <1>1, <1>2, <1>3, <1>4, <1>5, <1>6, <1>7 DEF Session

\* Each step of the DATA handler keeps the types.
LEMMA DataTypes ==
  ASSUME TypeOK, Data
  PROVE  TypeOK'
<1> USE DEF WifiTypeOK, SessionTypeOK, OtaTypeOK, QueueTypeOK, OtaPcs
<1>1. CASE OnRequest
  <2>1. Tail(inbox) \in Seq(Messages) /\ Echo(Tail(inbox)) \in Seq(Messages)
    BY <1>1 DEF OnRequest, Receive, Echo, Messages
  <2>2. SessionTyped'
    BY <1>1, <2>1, PublishTyped DEF OnRequest, SessionTyped
  <2> QED BY <1>1, <2>2 DEF OnRequest, SessionTyped
<1>2. CASE OnJson
  BY <1>2 DEF OnJson, Receive
<1>3. CASE OnCommandRefused
  <2>1. Tail(inbox) \in Seq(Messages)
    BY <1>3 DEF OnCommandRefused, Receive
  <2>2. SessionTyped' /\ reported' \in Reports
    BY <1>3, <2>1, PublishOtaTyped DEF OnCommandRefused, Reports
  <2> QED BY <1>3, <2>2 DEF OnCommandRefused, SessionTyped, Reports
<1>4. CASE OnCommandAccepted
  BY <1>4 DEF OnCommandAccepted, Receive
<1>5. CASE AcceptReported
  <2>1. SessionTyped' /\ reported' \in Reports
    BY <1>5, PublishOtaTyped, ReportTyped DEF AcceptReported, Statuses
  <2> QED BY <1>5, <2>1 DEF AcceptReported, SessionTyped, Reports
<1>6. ASSUME NEW t \in Tasks, TaskCreated(t) PROVE TypeOK'
  BY <1>6 DEF TaskCreated
<1>7. CASE TaskNotCreated
  <2>1. s_ota_in_progress' \in BOOLEAN
    BY <1>7, Zenon DEF TaskNotCreated
  <2> QED BY <1>7, <2>1 DEF TaskNotCreated
<1>8. CASE NotCreatedReported
  <2>1. SessionTyped' /\ reported' \in Reports
    BY <1>8, PublishOtaTyped, ReportTyped DEF NotCreatedReported, Statuses
  <2> QED BY <1>8, <2>1 DEF NotCreatedReported, SessionTyped, Reports
<1>9. CASE Acknowledge
  <2>1. SessionTyped'
    BY <1>9, AbortTyped DEF Acknowledge, SessionTyped
  <2> QED BY <1>9, <2>1 DEF Acknowledge, SessionTyped
<1> QED BY <1>1, <1>2, <1>3, <1>4, <1>5, <1>6, <1>7, <1>8, <1>9 DEF Data

\* A reset sets every variable of the RAM.
LEMMA ResetTypes ==
  ASSUME TypeOK, Reset, faults' \in 0 .. MaxFaults
  PROVE  TypeOK'
<1> USE DEF WifiTypeOK, SessionTypeOK, OtaTypeOK, QueueTypeOK, OtaPcs, WifiEvents
<1>1. s_ota_in_progress' \in BOOLEAN /\ s_wifi_connected_once' \in BOOLEAN
  BY Zenon DEF Reset
<1> QED BY <1>1 DEF Reset

\* Each step of an OTA task keeps the types.
LEMMA OtaTypes ==
  ASSUME TypeOK, NEW t \in Tasks, Ota(t)
  PROVE  TypeOK'
<1> USE DEF WifiTypeOK, SessionTypeOK, OtaTypeOK, QueueTypeOK, OtaPcs
<1>1. CASE StatusDropped(t)
  BY <1>1 DEF StatusDropped, AfterReport
<1>2. CASE StatusChecked(t)
  BY <1>2 DEF StatusChecked
<1>3. CASE StatusPublished(t)
  <2>1. SessionTyped'
    BY <1>3, PublishTyped DEF StatusPublished
  <2>2. reported' \in Reports
    BY <1>3, ReportTyped DEF StatusPublished, Statuses
  <2>3. otaPc' \in [Tasks -> OtaPcs]
    <3>1. AfterReport[otaStatus[t]] \in OtaPcs
      BY DEF AfterReport
    <3> QED BY <1>3, <3>1 DEF StatusPublished
  <2> QED BY <1>3, <2>1, <2>2, <2>3 DEF StatusPublished, SessionTyped, Reports
<1>4. CASE DownloadSucceeds(t)
  BY <1>4 DEF DownloadSucceeds
<1>5. CASE DownloadFails(t)
  BY <1>5 DEF DownloadFails
<1>6. CASE Restart(t)
  BY <1>6, ResetTypes DEF Restart
<1>7. CASE FlagCleared(t)
  <2>1. s_ota_in_progress' \in BOOLEAN
    BY <1>7, Zenon DEF FlagCleared
  <2> QED BY <1>7, <2>1 DEF FlagCleared
<1>8. CASE TaskDeleted(t)
  BY <1>8 DEF TaskDeleted
<1>9. CASE HandlePassed(t)
  BY <1>9 DEF HandlePassed, AfterReport
<1>10. CASE StatusAborted(t)
  BY <1>10 DEF StatusAborted, OnMqttDisconnected, AfterReport
<1> QED BY <1>1, <1>2, <1>3, <1>4, <1>5, <1>6, <1>7, <1>8, <1>9, <1>10 DEF Ota

\* The values of the variables are those the C declarations and the protocol of
\* each handler allow: every counter, queue and program counter stays in its
\* set, the retry counter included (connectivity.c:404-407).
THEOREM TypeCorrect == Spec => []TypeOK
<1>1. Init => TypeOK
  <2> SUFFICES ASSUME Init PROVE TypeOK
    OBVIOUS
  <2>1. s_wifi_connected_once \in BOOLEAN /\ s_ota_in_progress \in BOOLEAN
    BY Zenon DEF Init
  <2>2. WifiTypeOK
    BY <2>1 DEF Init, WifiTypeOK
  <2>3. SessionTypeOK
    BY DEF Init, SessionTypeOK
  <2>4. OtaTypeOK
    BY <2>1 DEF Init, OtaTypeOK, OtaPcs
  <2>5. QueueTypeOK
    BY DEF Init, QueueTypeOK, WifiEvents
  <2> QED BY <2>2, <2>3, <2>4, <2>5
<1>2. TypeOK /\ [Next]_vars => TypeOK'
  <2> SUFFICES ASSUME TypeOK, [Next]_vars PROVE TypeOK'
    OBVIOUS
  <2>1. ASSUME NEW m \in HostMsgs, HostSends(m) PROVE TypeOK'
    BY <2>1 DEF HostSends, WifiTypeOK, SessionTypeOK, OtaTypeOK, QueueTypeOK
  <2>2. CASE SessionDies
    BY <2>2 DEF SessionDies, WifiTypeOK, SessionTypeOK, OtaTypeOK, QueueTypeOK
  <2>3. CASE PowerCycle
    BY <2>3, ResetTypes DEF PowerCycle, SessionTypeOK
  <2>4. CASE UNCHANGED vars
    BY <2>4 DEF vars, WifiTypeOK, SessionTypeOK, OtaTypeOK, QueueTypeOK
  <2> QED
    BY <2>1, <2>2, <2>3, <2>4, WifiTypes, SessionTypes, DataTypes, OtaTypes DEF Next
<1> QED BY <1>1, <1>2, PTL DEF Spec

-------------------------------------------------------------------------------
(* The handle.                                                               *)

\* What a call does to the session as far as the handle is concerned: nothing,
\* or the first half of an abort.
HandleFrame ==
  /\ UNCHANGED s_mqtt_client
  /\ \/ UNCHANGED <<state, dispatching>>
     \/ state # "NONE" /\ state' = "WAIT_RECONNECT" /\ dispatching' # "none"

\* A publish does no more than that, nor does publish_ota_status.
LEMMA PublishHandleFrame ==
  ASSUME UNCHANGED s_mqtt_client, NEW queue, Publish(queue)
  PROVE  HandleFrame
BY DEF HandleFrame, Publish, AbortConnection

LEMMA PublishOtaHandleFrame ==
  ASSUME UNCHANGED s_mqtt_client, NEW queue, NEW log, PublishOtaStatus(queue, log)
  PROVE  HandleFrame
BY PublishHandleFrame DEF HandleFrame, PublishOtaStatus

\* Every step of every thread keeps the client, main and the handler in step.
LEMMA SessionInvariant == Spec => []SessionInv
<1>1. Init => SessionInv
  BY DEF Init, SessionInv
<1>2. TypeOK /\ SessionInv /\ [Next]_vars => SessionInv'
  <2> SUFFICES ASSUME TypeOK, SessionInv, [Next]_vars PROVE SessionInv'
    OBVIOUS
  <2> USE DEF SessionInv
  <2>1. CASE Driver
    BY <2>1 DEF Driver, JoinFails, Joins, DhcpBinds, LinkLost
  <2>2. CASE WifiHandler
    BY <2>2 DEF WifiHandler, OnStaStart, OnDisconnected, OnGotIp
  <2>3. CASE Main
    BY <2>3 DEF Main, WaitEnds, MqttStart
  <2>4. CASE Session
    BY <2>4 DEF Session, ConnectFails, TransportFails, ConnectSucceeds, OnConnected, Resubscribe,
                TaskAborts, DisconnectedHandled, OnMqttDisconnected, Reconnects, AbortConnection
  <2>5. CASE Data
    <3>1. CASE OnRequest
      BY <3>1, PublishHandleFrame DEF OnRequest, Receive, HandleFrame
    <3>2. CASE OnCommandRefused
      BY <3>2, PublishOtaHandleFrame DEF OnCommandRefused, Receive, HandleFrame
    <3>3. CASE AcceptReported \/ NotCreatedReported
      BY <3>3, PublishOtaHandleFrame DEF AcceptReported, NotCreatedReported, HandleFrame
    <3>4. CASE OnJson \/ OnCommandAccepted
      BY <3>4 DEF OnJson, OnCommandAccepted, Receive
    <3>5. CASE TaskNotCreated \/ Acknowledge \/ \E t \in Tasks : TaskCreated(t)
      BY <3>5 DEF TaskNotCreated, Acknowledge, TaskCreated, AbortConnection
    <3> QED BY <2>5, <3>1, <3>2, <3>3, <3>4, <3>5 DEF Data
  <2>6. ASSUME NEW t \in Tasks, Ota(t) PROVE SessionInv'
    <3>1. CASE StatusPublished(t)
      BY <3>1, PublishHandleFrame DEF StatusPublished, HandleFrame
    <3>2. CASE Restart(t)
      BY <3>2 DEF Restart, Reset
    <3>3. CASE ~StatusPublished(t) /\ ~Restart(t)
      BY <2>6, <3>3 DEF Ota, StatusDropped, StatusChecked, HandlePassed, StatusAborted,
                        OnMqttDisconnected, DownloadSucceeds, DownloadFails, FlagCleared, TaskDeleted
    <3> QED BY <3>1, <3>2, <3>3
  <2>7. ASSUME NEW m \in HostMsgs, HostSends(m) PROVE SessionInv'
    BY <2>7 DEF HostSends
  <2>8. CASE SessionDies \/ PowerCycle \/ UNCHANGED vars
    BY <2>8 DEF SessionDies, PowerCycle, Reset, vars
  <2> QED BY <2>1, <2>2, <2>3, <2>4, <2>5, <2>6, <2>7, <2>8 DEF Next
<1> QED BY <1>1, <1>2, TypeCorrect, PTL DEF Spec

\* connectivity.c:396, 429, 461 and mqtt_client.c:849-861: whatever thread ran
\* into the failed write and whenever the Wi-Fi handler interferes, a thread that
\* has the API lock finds the handle of a connected client or none, and one
\* without it sees another handle only in the middle of an abort.
THEOREM HandleSafe == Spec => []HandleIsConnected
<1>1. SessionInv => HandleIsConnected
  <2> SUFFICES ASSUME SessionInv, s_mqtt_client = "client"
               PROVE  /\ mainPc = "done"
                      /\ IF dispatching = "none" THEN state = "CONNECTED" ELSE state = "WAIT_RECONNECT"
    BY DEF HandleIsConnected
  <2> QED BY DEF SessionInv
<1> QED BY <1>1, SessionInvariant, PTL

-------------------------------------------------------------------------------
(* The Wi-Fi verdict.                                                        *)

\* Two events queue up in order.
LEMMA AppendToOne ==
  ASSUME NEW e, NEW f
  PROVE  Append(<<e>>, f) = <<e, f>>
<1> DEFINE S == {e, f}
<1>1. <<e>> \in Seq(S) /\ <<e, f>> \in Seq(S) /\ Len(<<e>>) = 1 /\ Len(<<e, f>>) = 2
  OBVIOUS
<1>2. /\ Append(<<e>>, f) \in Seq(S) /\ Len(Append(<<e>>, f)) = 2
      /\ Append(<<e>>, f)[1] = e /\ Append(<<e>>, f)[2] = f
  BY <1>1, AppendProperties
<1>3. ASSUME NEW i \in 1 .. 2 PROVE Append(<<e>>, f)[i] = <<e, f>>[i]
  <2>1. i = 1 \/ i = 2
    OBVIOUS
  <2> QED BY <2>1, <1>2
<1> QED BY <1>1, <1>2, <1>3, SeqEqual

\* The event queues there are, what is at their heads and what is left of them.
LEMMA EventQueues ==
  /\ <<"STA_START">> # <<>> /\ <<"DISCONNECTED">> # <<>> /\ <<"GOT_IP">> # <<>>
  /\ <<"STA_START">> # <<"DISCONNECTED">> /\ <<"STA_START">> # <<"GOT_IP">>
  /\ <<"STA_START">> # <<"GOT_IP", "DISCONNECTED">> /\ <<>> # <<"GOT_IP", "DISCONNECTED">>
  /\ Head(<<"STA_START">>) = "STA_START" /\ Tail(<<"STA_START">>) = <<>>
  /\ Head(<<"DISCONNECTED">>) = "DISCONNECTED" /\ Tail(<<"DISCONNECTED">>) = <<>>
  /\ Head(<<"GOT_IP">>) = "GOT_IP" /\ Tail(<<"GOT_IP">>) = <<>>
  /\ Head(<<"GOT_IP", "DISCONNECTED">>) = "GOT_IP"
  /\ Tail(<<"GOT_IP", "DISCONNECTED">>) = <<"DISCONNECTED">>
  /\ Append(<<>>, "DISCONNECTED") = <<"DISCONNECTED">> /\ Append(<<>>, "GOT_IP") = <<"GOT_IP">>
  /\ Append(<<"GOT_IP">>, "DISCONNECTED") = <<"GOT_IP", "DISCONNECTED">>
<1>1. Append(<<"GOT_IP">>, "DISCONNECTED") = <<"GOT_IP", "DISCONNECTED">>
  BY AppendToOne
<1>2. Append(<<>>, "DISCONNECTED") = <<"DISCONNECTED">> /\ Append(<<>>, "GOT_IP") = <<"GOT_IP">>
  OBVIOUS
<1> QED BY <1>1, <1>2

\* The queue is one of five.
LEMMA QueueShapes ==
  ASSUME WifiInv, link \in {"down", "joining", "joined", "up"}
  PROVE  evtQ \in {<<>>, <<"STA_START">>, <<"DISCONNECTED">>, <<"GOT_IP">>, <<"GOT_IP", "DISCONNECTED">>}
BY Zenon DEF WifiInv

\* Threads that leave Wi-Fi and main alone keep the invariant.
LEMMA WifiFrame ==
  ASSUME WifiInv, UNCHANGED <<wifiVars, mainPc>>
  PROVE  WifiInv'
BY DEF WifiInv

\* Each step of the driver keeps it,
LEMMA DriverKeepsWifi ==
  ASSUME TypeOK, WifiInv, Driver
  PROVE  WifiInv'
<1>1. CASE JoinFails
  <2>1. /\ UNCHANGED <<s_wifi_connected_once, s_wifi_event_group, s_wifi_retry_num, joins, mainPc>>
        /\ link = "joining" /\ link' = "down" /\ evtQ' = Append(evtQ, "DISCONNECTED")
    BY <1>1, Zenon DEF JoinFails
  <2>2. evtQ = <<>> /\ "FAIL" \notin s_wifi_event_group
    BY <2>1, Zenon DEF WifiInv
  <2> QED BY <2>1, <2>2, EventQueues, Zenon DEF WifiInv
<1>2. CASE Joins
  <2>1. /\ UNCHANGED <<s_wifi_connected_once, s_wifi_event_group, s_wifi_retry_num, joins, mainPc, evtQ>>
        /\ link = "joining" /\ link' = "joined"
    BY <1>2, Zenon DEF Joins
  <2> QED BY <2>1, Zenon DEF WifiInv
<1>3. CASE DhcpBinds
  <2>1. /\ UNCHANGED <<s_wifi_connected_once, s_wifi_event_group, s_wifi_retry_num, joins, mainPc>>
        /\ link = "joined" /\ link' = "up" /\ evtQ' = Append(evtQ, "GOT_IP")
    BY <1>3, Zenon DEF DhcpBinds
  <2>2. evtQ = <<>> /\ "FAIL" \notin s_wifi_event_group
    BY <2>1, Zenon DEF WifiInv
  <2> QED BY <2>1, <2>2, EventQueues, Zenon DEF WifiInv
<1>4. CASE LinkLost
  <2>1. /\ UNCHANGED <<s_wifi_connected_once, s_wifi_event_group, s_wifi_retry_num, joins, mainPc>>
        /\ link \in {"joined", "up"} /\ link' = "down" /\ evtQ' = Append(evtQ, "DISCONNECTED")
    BY <1>4, Zenon DEF LinkLost
  <2>2. evtQ \in {<<>>, <<"GOT_IP">>} /\ "FAIL" \notin s_wifi_event_group
    BY <2>1, Zenon DEF WifiInv
  <2>3. evtQ' \in {<<"DISCONNECTED">>, <<"GOT_IP", "DISCONNECTED">>}
    BY <2>1, <2>2, EventQueues, Zenon
  <2> QED BY <2>1, <2>2, <2>3, EventQueues, Zenon DEF WifiInv
<1> QED BY <1>1, <1>2, <1>3, <1>4 DEF Driver

\* and each step of the handler and of main.
LEMMA HandlerKeepsWifi ==
  ASSUME TypeOK, WifiInv, WifiHandler
  PROVE  WifiInv'
<1>0. evtQ \in {<<>>, <<"STA_START">>, <<"DISCONNECTED">>, <<"GOT_IP">>, <<"GOT_IP", "DISCONNECTED">>}
  BY QueueShapes, Zenon DEF TypeOK, WifiTypeOK
<1>1. CASE OnStaStart
  <2>1. /\ UNCHANGED <<s_wifi_connected_once, s_wifi_event_group, s_wifi_retry_num, mainPc>>
        /\ Head(evtQ) = "STA_START" /\ evtQ # <<>> /\ evtQ' = Tail(evtQ)
        /\ link' = "joining" /\ (~s_wifi_connected_once => joins' = joins + 1)
        /\ (s_wifi_connected_once => joins' = joins)
    BY <1>1 DEF OnStaStart, Handle, Connect
  <2>2. evtQ = <<"STA_START">> /\ evtQ' = <<>>
    BY <1>0, <2>1, EventQueues
  <2>3. /\ s_wifi_event_group = {} /\ ~s_wifi_connected_once
        /\ joins = 0 /\ s_wifi_retry_num = 0
    BY <2>2, EventQueues DEF WifiInv, TypeOK, WifiTypeOK
  <2>4. joins' = 1 /\ joins' = s_wifi_retry_num' + 1 /\ joins' <= MaxRetries + 1
    BY <2>1, <2>3
  <2> QED BY <2>1, <2>2, <2>3, <2>4, EventQueues, Zenon DEF WifiInv
<1>2. CASE OnDisconnected
  <2>1. /\ UNCHANGED <<s_wifi_connected_once, mainPc>>
        /\ Head(evtQ) = "DISCONNECTED" /\ evtQ # <<>> /\ evtQ' = Tail(evtQ)
    BY <1>2 DEF OnDisconnected, Handle
  <2>2. evtQ = <<"DISCONNECTED">> /\ evtQ' = <<>>
    BY <1>0, <2>1, EventQueues
  <2>3. link = "down" /\ "FAIL" \notin s_wifi_event_group
    BY <2>2, EventQueues, Zenon DEF WifiInv, TypeOK, WifiTypeOK
  <2>4. CASE s_wifi_connected_once
    <3>1. link' = "joining" /\ joins' = joins /\ UNCHANGED <<s_wifi_retry_num, s_wifi_event_group>>
      BY <1>2, <2>4 DEF OnDisconnected, Connect
    <3> QED BY <2>1, <2>2, <2>3, <2>4, <3>1, EventQueues, Zenon DEF WifiInv
  <2>5. CASE ~s_wifi_connected_once
    <3>1. joins = s_wifi_retry_num + 1
      BY <2>2, <2>5, EventQueues, Zenon DEF WifiInv
    <3>2. CASE s_wifi_retry_num < MaxRetries
      <4>1. /\ link' = "joining" /\ joins' = joins + 1 /\ s_wifi_retry_num' = s_wifi_retry_num + 1
            /\ UNCHANGED s_wifi_event_group
        BY <1>2, <2>5, <3>2 DEF OnDisconnected, RetriesLeft, Connect, TypeOK, WifiTypeOK
      <4>2. joins' = s_wifi_retry_num' + 1 /\ joins' <= MaxRetries + 1
        BY <3>1, <3>2, <4>1 DEF TypeOK, WifiTypeOK
      <4> QED BY <2>1, <2>2, <2>3, <2>5, <4>1, <4>2, EventQueues, Zenon DEF WifiInv
    <3>3. CASE ~(s_wifi_retry_num < MaxRetries)
      <4>1. /\ UNCHANGED <<link, joins, s_wifi_retry_num>>
            /\ s_wifi_event_group' = s_wifi_event_group \cup {"FAIL"}
        BY <1>2, <2>5, <3>3 DEF OnDisconnected, RetriesLeft
      <4>2. s_wifi_retry_num = MaxRetries
        BY <3>3 DEF TypeOK, WifiTypeOK
      <4>3. "FAIL" \in s_wifi_event_group' /\ ("CONNECTED" \in s_wifi_event_group' <=> "CONNECTED" \in s_wifi_event_group)
        BY <4>1
      <4> QED BY <2>1, <2>2, <2>3, <2>5, <3>1, <4>1, <4>2, <4>3, EventQueues, Zenon DEF WifiInv
    <3> QED BY <3>2, <3>3
  <2> QED BY <2>4, <2>5
<1>3. CASE OnGotIp
  <2>1. /\ UNCHANGED <<link, joins, mainPc>>
        /\ Head(evtQ) = "GOT_IP" /\ evtQ # <<>> /\ evtQ' = Tail(evtQ)
        /\ s_wifi_event_group' = s_wifi_event_group \cup {"CONNECTED"}
    BY <1>3 DEF OnGotIp, Handle
  <2>2. \/ evtQ = <<"GOT_IP">> /\ evtQ' = <<>>
        \/ evtQ = <<"GOT_IP", "DISCONNECTED">> /\ evtQ' = <<"DISCONNECTED">>
    BY <1>0, <2>1, EventQueues
  <2>3. s_wifi_connected_once'
    BY <1>3, Zenon DEF OnGotIp
  <2>4. "FAIL" \notin s_wifi_event_group
    BY <2>2, EventQueues, Zenon DEF WifiInv
  <2>5. "CONNECTED" \in s_wifi_event_group' /\ "FAIL" \notin s_wifi_event_group'
    BY <2>1, <2>4
  <2>6. /\ evtQ = <<"GOT_IP">> => link = "up" 
        /\ evtQ = <<"GOT_IP", "DISCONNECTED">> => link = "down"
    <3>1. link \in {"down", "joining", "joined", "up"}
      BY DEF TypeOK, WifiTypeOK
    <3>2. <<"GOT_IP">> # <<"DISCONNECTED">> /\ <<"GOT_IP">> # <<"GOT_IP", "DISCONNECTED">>
      OBVIOUS
    <3> QED BY <3>1, <3>2, EventQueues, Zenon DEF WifiInv
  <2>7. joins' <= MaxRetries + 1
    BY <2>1, Zenon DEF WifiInv
  <2> QED BY <2>1, <2>2, <2>3, <2>5, <2>6, <2>7, EventQueues, Zenon DEF WifiInv
<1> QED BY <1>1, <1>2, <1>3 DEF WifiHandler

LEMMA MainKeepsWifi ==
  ASSUME TypeOK, WifiInv, Main
  PROVE  WifiInv'
<1>1. UNCHANGED wifiVars
  BY Zenon DEF Main, WaitEnds, MqttStart
<1>2. mainPc' \in {"start", "done"} => s_wifi_connected_once
  <2>1. CASE WaitEnds
    BY <2>1 DEF WaitEnds, WifiInv
  <2>2. CASE MqttStart
    BY <2>2 DEF MqttStart, WifiInv
  <2> QED BY <2>1, <2>2 DEF Main
<1> QED BY <1>1, <1>2, Zenon DEF WifiInv, wifiVars

\* A reset starts the count again.
LEMMA BootKeepsWifi ==
  (Init => WifiInv) /\ (Reset => WifiInv')
<1>1. ASSUME Init PROVE WifiInv
  <2>1. ~s_wifi_connected_once
    BY <1>1, Zenon DEF Init
  <2> QED BY <1>1, <2>1, EventQueues DEF Init, WifiInv
<1>2. ASSUME Reset PROVE WifiInv'
  <2>1. ~s_wifi_connected_once'
    BY <1>2, Zenon DEF Reset
  <2> QED BY <1>2, <2>1, EventQueues DEF Reset, WifiInv
<1> QED BY <1>1, <1>2

\* connectivity.c:391-419, 513-525: the handler gives up after MaxRetries + 1
\* attempts, for good, and app_main's verdict is never contradicted.
THEOREM GivesUpForGood == Spec => []GiveUpIsFinal
<1>1. TypeOK /\ WifiInv /\ [Next]_vars => WifiInv'
  <2> SUFFICES ASSUME TypeOK, WifiInv, [Next]_vars PROVE WifiInv'
    OBVIOUS
  <2>1. CASE Driver \/ WifiHandler \/ Main
    BY <2>1, DriverKeepsWifi, HandlerKeepsWifi, MainKeepsWifi
  <2>2. CASE Session
    BY <2>2, WifiFrame, Zenon
    DEF Session, ConnectFails, TransportFails, ConnectSucceeds, Resubscribe, TaskAborts,
        DisconnectedHandled, Reconnects
  <2>3. CASE Data
    BY <2>3, WifiFrame, Zenon
    DEF Data, OnRequest, OnJson, OnCommandRefused, OnCommandAccepted, AcceptReported, TaskCreated,
        TaskNotCreated, NotCreatedReported, Acknowledge
  <2>4. ASSUME NEW t \in Tasks, Ota(t) PROVE WifiInv'
    <3>1. CASE Restart(t)
      BY <3>1, BootKeepsWifi DEF Restart
    <3>2. CASE ~Restart(t)
      BY <2>4, <3>2, WifiFrame, Zenon
      DEF Ota, StatusDropped, StatusChecked, HandlePassed, StatusPublished, StatusAborted,
          DownloadSucceeds, DownloadFails, FlagCleared, TaskDeleted
    <3> QED BY <3>1, <3>2
  <2>5. CASE PowerCycle
    BY <2>5, BootKeepsWifi DEF PowerCycle
  <2>6. ASSUME NEW m \in HostMsgs, HostSends(m) PROVE WifiInv'
    BY <2>6, WifiFrame, Zenon DEF HostSends
  <2>7. CASE SessionDies \/ UNCHANGED vars
    BY <2>7, WifiFrame, Zenon DEF SessionDies, vars
  <2> QED BY <2>1, <2>2, <2>3, <2>4, <2>5, <2>6, <2>7 DEF Next
<1>2. TypeOK /\ WifiInv /\ SessionInv => GiveUpIsFinal
  <2> SUFFICES ASSUME TypeOK, WifiInv, SessionInv PROVE GiveUpIsFinal
    OBVIOUS
  <2>1. joins <= MaxRetries + 1
    BY Zenon DEF WifiInv
  <2>2. ASSUME "FAIL" \in s_wifi_event_group
        PROVE  /\ joins = MaxRetries + 1 /\ "CONNECTED" \notin s_wifi_event_group
               /\ link = "down" /\ evtQ = <<>>
               /\ state = "NONE" /\ mainPc \in {"wait", "returned"}
    <3>1. /\ link = "down" /\ evtQ = <<>> /\ ~s_wifi_connected_once
          /\ s_wifi_retry_num = MaxRetries /\ "CONNECTED" \notin s_wifi_event_group
          /\ mainPc \notin {"start", "done"}
      BY <2>2, Zenon DEF WifiInv
    <3>2. joins = MaxRetries + 1
      BY <3>1, EventQueues, Zenon DEF WifiInv
    <3>3. mainPc \in {"wait", "returned"} /\ state = "NONE"
      BY <3>1 DEF WifiTypeOK, SessionInv
    <3> QED BY <3>1, <3>2, <3>3
  <2> QED BY <2>1, <2>2 DEF GiveUpIsFinal
<1> QED BY <1>1, <1>2, BootKeepsWifi, TypeCorrect, SessionInvariant, PTL DEF Spec

-------------------------------------------------------------------------------
(* One update at a time.                                                     *)

Starting == mqttPc \in {"accept", "create"}

\* A step that makes no task busy or idle, and leaves the flag, keeps OneUpdate.
LEMMA OneUpdateFrame ==
  ASSUME OneUpdate, UNCHANGED s_ota_in_progress, Starting' <=> Starting,
         \A t \in Tasks : Busy(t)' <=> Busy(t)
  PROVE  OneUpdate'
BY Zenon DEF OneUpdate, Starting

\* A task that reports goes on to be busy.
LEMMA ReportingIsBusy ==
  ASSUME TypeOK, NEW t \in Tasks
  PROVE  AfterReport[otaStatus[t]] \in {"download", "delay", "clear"}
BY DEF OtaTypeOK, AfterReport

\* Moving one task's program counter leaves the others where they are.
LEMMA MoveTask ==
  ASSUME TypeOK, NEW t \in Tasks, NEW pc, otaPc' = [otaPc EXCEPT ![t] = pc]
  PROVE  otaPc'[t] = pc /\ \A u \in Tasks : u # t => otaPc'[u] = otaPc[u]
BY DEF OtaTypeOK

\* connectivity.c:363, 378, 354, 383: no interleaving of the handler, the
\* creation of tasks and their end puts two update tasks to work.
THEOREM UpdatesExclude == Spec => []OneUpdate
<1>1. Init => OneUpdate
  <2> SUFFICES ASSUME Init PROVE OneUpdate
    OBVIOUS
  <2>1. ~s_ota_in_progress
    BY Zenon DEF Init
  <2> QED BY <2>1 DEF Init, OneUpdate, Busy
<1>2. Reset => OneUpdate'
  <2> SUFFICES ASSUME Reset PROVE OneUpdate'
    OBVIOUS
  <2>1. ~s_ota_in_progress'
    BY Zenon DEF Reset
  <2> QED BY <2>1 DEF Reset, OneUpdate, Busy
<1>3. TypeOK /\ OneUpdate /\ [Next]_vars => OneUpdate'
  <2> SUFFICES ASSUME TypeOK, OneUpdate, [Next]_vars PROVE OneUpdate'
    OBVIOUS
  <2>1. CASE Driver \/ WifiHandler \/ Main \/ Session
    <3>1. UNCHANGED <<s_ota_in_progress, mqttPc, otaPc>>
      BY <2>1, Zenon
      DEF Driver, JoinFails, Joins, DhcpBinds, LinkLost,
          WifiHandler, OnStaStart, OnDisconnected, OnGotIp, Main, WaitEnds, MqttStart,
          Session, ConnectFails, TransportFails, ConnectSucceeds, Resubscribe, TaskAborts,
          DisconnectedHandled, Reconnects
    <3> QED BY <3>1, OneUpdateFrame, Zenon DEF Starting, Busy
  <2>2. CASE Data
    <3>1. CASE OnRequest \/ OnJson \/ OnCommandRefused
      <4>1. UNCHANGED <<s_ota_in_progress, otaPc>> /\ mqttPc = "loop" /\ mqttPc' = "puback"
        BY <3>1, Zenon DEF OnRequest, OnJson, OnCommandRefused, Receive
      <4> QED BY <4>1, OneUpdateFrame DEF Starting, Busy
    <3>2. CASE AcceptReported \/ NotCreatedReported \/ Acknowledge
      <4>1. /\ UNCHANGED <<s_ota_in_progress, otaPc>>
            /\ \/ mqttPc = "accept" /\ mqttPc' = "create"
               \/ mqttPc = "createFailed" /\ mqttPc' = "puback"
               \/ mqttPc = "puback" /\ mqttPc' = "loop"
        BY <3>2, Zenon DEF AcceptReported, NotCreatedReported, Acknowledge
      <4>2. Starting' <=> Starting
        BY <4>1 DEF Starting
      <4> QED BY <4>1, <4>2, OneUpdateFrame, Zenon DEF Busy
    <3>3. CASE OnCommandAccepted
      <4>1. mqttPc' = "accept" /\ UNCHANGED otaPc /\ ~s_ota_in_progress
        BY <3>3, Zenon DEF OnCommandAccepted
      <4>2. s_ota_in_progress'
        BY <3>3, Zenon DEF OnCommandAccepted
      <4>3. \A t \in Tasks : ~Busy(t)'
        BY <4>1, Zenon DEF OneUpdate, Busy
      <4> QED BY <4>1, <4>2, <4>3, Zenon DEF OneUpdate
    <3>4. ASSUME NEW t \in Tasks, TaskCreated(t) PROVE OneUpdate'
      <4>1. /\ mqttPc = "create" /\ mqttPc' = "puback" /\ UNCHANGED s_ota_in_progress
            /\ otaPc' = [otaPc EXCEPT ![t] = "check"]
        BY <3>4, Zenon DEF TaskCreated
      <4>2. Busy(t)' /\ \A u \in Tasks : u # t => (Busy(u)' <=> Busy(u))
        BY <4>1, MoveTask DEF Busy
      <4>3. \A u \in Tasks : Busy(u)' => u = t
        BY <4>1, <4>2, Zenon DEF OneUpdate
      <4>4. s_ota_in_progress' /\ mqttPc' \notin {"accept", "create"}
        BY <4>1, Zenon DEF OneUpdate
      <4> QED BY <4>2, <4>3, <4>4, Zenon DEF OneUpdate
    <3>5. CASE TaskNotCreated
      <4>1. mqttPc = "create" /\ mqttPc' = "createFailed" /\ UNCHANGED otaPc
        BY <3>5, Zenon DEF TaskNotCreated
      <4>2. ~s_ota_in_progress'
        BY <3>5, Zenon DEF TaskNotCreated
      <4>3. \A t \in Tasks : ~Busy(t)'
        BY <4>1, Zenon DEF OneUpdate, Busy
      <4> QED BY <4>1, <4>2, <4>3, Zenon DEF OneUpdate
    <3> QED BY <2>2, <3>1, <3>2, <3>3, <3>4, <3>5 DEF Data
  <2>3. ASSUME NEW t \in Tasks, Ota(t) PROVE OneUpdate'
    <3>1. CASE StatusDropped(t) \/ HandlePassed(t) \/ StatusPublished(t) \/ StatusAborted(t)
      <4>1. /\ UNCHANGED <<s_ota_in_progress, mqttPc>>
            /\ otaPc[t] \in {"check", "pass", "publish", "abort"}
            /\ \E pc \in {AfterReport[otaStatus[t]], "publish", "abort"} :
                 otaPc' = [otaPc EXCEPT ![t] = pc]
        BY <3>1, Zenon DEF StatusDropped, HandlePassed, StatusPublished, StatusAborted
      <4>2. \A u \in Tasks : Busy(u)' <=> Busy(u)
        BY <4>1, MoveTask, ReportingIsBusy DEF Busy
      <4> QED BY <4>1, <4>2, OneUpdateFrame, Zenon DEF Starting
    <3>2. CASE StatusChecked(t) \/ DownloadSucceeds(t) \/ DownloadFails(t)
      <4>1. /\ UNCHANGED <<s_ota_in_progress, mqttPc>> /\ otaPc[t] \in {"check", "download"}
            /\ \/ otaPc' = [otaPc EXCEPT ![t] = "pass"]
               \/ otaPc' = [otaPc EXCEPT ![t] = "check"]
        BY <3>2, Zenon DEF StatusChecked, DownloadSucceeds, DownloadFails
      <4>2. \A u \in Tasks : Busy(u)' <=> Busy(u)
        BY <4>1, MoveTask DEF Busy
      <4> QED BY <4>1, <4>2, OneUpdateFrame, Zenon DEF Starting
    <3>3. CASE Restart(t)
      BY <3>3, <1>2 DEF Restart
    <3>4. CASE FlagCleared(t)
      <4>1. /\ otaPc[t] = "clear" /\ otaPc' = [otaPc EXCEPT ![t] = "exit"] /\ UNCHANGED mqttPc
        BY <3>4, Zenon DEF FlagCleared
      <4>2. ~s_ota_in_progress'
        BY <3>4, Zenon DEF FlagCleared
      <4>3. Busy(t) /\ ~Busy(t)' /\ \A u \in Tasks : u # t => (Busy(u)' <=> Busy(u))
        <5>1. otaPc'[t] = "exit" /\ \A u \in Tasks : u # t => otaPc'[u] = otaPc[u]
          BY <4>1, MoveTask
        <5> QED BY <4>1, <5>1 DEF Busy
      <4>4. \A u \in Tasks : ~Busy(u)'
        BY <4>3, Zenon DEF OneUpdate
      <4>5. mqttPc' \notin {"accept", "create"}
        BY <4>1, <4>3, Zenon DEF OneUpdate
      <4> QED BY <4>2, <4>4, <4>5, Zenon DEF OneUpdate
    <3>5. CASE TaskDeleted(t)
      <4>1. /\ UNCHANGED <<s_ota_in_progress, mqttPc>>
            /\ otaPc[t] = "exit" /\ otaPc' = [otaPc EXCEPT ![t] = "free"]
        BY <3>5, Zenon DEF TaskDeleted
      <4>2. \A u \in Tasks : Busy(u)' <=> Busy(u)
        BY <4>1, MoveTask DEF Busy
      <4> QED BY <4>1, <4>2, OneUpdateFrame, Zenon DEF Starting
    <3> QED BY <2>3, <3>1, <3>2, <3>3, <3>4, <3>5 DEF Ota
  <2>4. ASSUME NEW m \in HostMsgs, HostSends(m) PROVE OneUpdate'
    <3>1. UNCHANGED <<s_ota_in_progress, mqttPc, otaPc>>
      BY <2>4, Zenon DEF HostSends
    <3> QED BY <3>1, OneUpdateFrame, Zenon DEF Starting, Busy
  <2>5. CASE SessionDies \/ UNCHANGED vars
    <3>1. UNCHANGED <<s_ota_in_progress, mqttPc, otaPc>>
      BY <2>5, Zenon DEF SessionDies, vars
    <3> QED BY <3>1, OneUpdateFrame, Zenon DEF Starting, Busy
  <2>6. CASE PowerCycle
    BY <2>6, <1>2 DEF PowerCycle
  <2> QED BY <2>1, <2>2, <2>3, <2>4, <2>5, <2>6 DEF Next
<1> QED BY <1>1, <1>3, TypeCorrect, PTL DEF Spec

-------------------------------------------------------------------------------
(* Jobs, reports and images.                                                 *)

\* A step that leaves jobs alone keeps JobInv.
LEMMA JobFrame ==
  ASSUME JobInv, UNCHANGED <<taskVars, jobs, reported, bootSlot, running, mqttPc>>
  PROVE  JobInv'
BY DEF JobInv, TaskInv, Busy, Installed

\* A step of the busy task: the others are not busy, so that what they know does
\* not matter.
LEMMA BusyTaskStep ==
  ASSUME TypeOK, OneUpdate, JobInv, NEW t \in Tasks, Busy(t), TaskInv(t)',
         \A u \in Tasks : u # t => otaPc'[u] = otaPc[u],
         UNCHANGED <<jobs, mqttPc>>,
         mqttPc = "loop" \/ UNCHANGED reported,
         reported'.job <= jobs, bootSlot' <= jobs, running' <= bootSlot',
         ~Busy(t)' => bootSlot' = running'
  PROVE  JobInv'
<1>1. \A u \in Tasks : u # t => ~Busy(u) /\ ~Busy(u)'
  BY DEF OneUpdate, Busy
<1>2. mqttPc' \notin {"accept", "create", "createFailed"}
  BY DEF OneUpdate, JobInv
<1>3. \A u \in Tasks : TaskInv(u)'
  BY <1>1, Zenon DEF TaskInv
<1> QED BY <1>2, <1>3 DEF JobInv

\* After its report the task is where AfterReport says.
LEMMA AfterReports ==
  ASSUME TypeOK, NEW t \in Tasks
  PROVE  \/ otaStatus[t] = "downloading" /\ AfterReport[otaStatus[t]] = "download" /\ Rank[otaStatus[t]] = 2
         \/ otaStatus[t] = "applied" /\ AfterReport[otaStatus[t]] = "delay" /\ Rank[otaStatus[t]] = 3
         \/ otaStatus[t] = "failed" /\ AfterReport[otaStatus[t]] = "clear" /\ Rank[otaStatus[t]] = 3
BY DEF OtaTypeOK, AfterReport, Rank

\* Each step of an OTA task keeps what the tasks know.
LEMMA OtaKeepsJobs ==
  ASSUME TypeOK, OneUpdate, JobInv, NEW t \in Tasks, Ota(t)
  PROVE  JobInv'
<1> USE DEF OtaTypeOK
<1>0. TaskInv(t)
  BY Zenon DEF JobInv
<1>1. CASE StatusDropped(t)
  <2>1. /\ otaPc[t] = "check" /\ otaPc' = [otaPc EXCEPT ![t] = AfterReport[otaStatus[t]]]
        /\ UNCHANGED <<otaStatus, otaJob, jobs, reported, bootSlot, running, mqttPc>>
    BY <1>1, Zenon DEF StatusDropped
  <2>2. /\ otaPc'[t] = AfterReport[otaStatus[t]] /\ \A u \in Tasks : u # t => otaPc'[u] = otaPc[u]
    BY <2>1
  <2>3. Busy(t) /\ Busy(t)'
    BY <2>1, <2>2, AfterReports DEF Busy
  <2>4. TaskInv(t)'
    BY <1>0, <2>1, <2>2, <2>3, AfterReports DEF TaskInv, Installed
  <2>5. reported.job <= jobs /\ bootSlot <= jobs /\ running <= bootSlot
    BY DEF JobInv
  <2> QED BY <2>1, <2>2, <2>3, <2>4, <2>5, BusyTaskStep
<1>2. CASE StatusChecked(t)
  <2>1. /\ otaPc[t] = "check" /\ otaPc' = [otaPc EXCEPT ![t] = "pass"]
        /\ UNCHANGED <<otaStatus, otaJob, jobs, reported, bootSlot, running, mqttPc>>
    BY <1>2, Zenon DEF StatusChecked
  <2>2. /\ otaPc'[t] = "pass" /\ \A u \in Tasks : u # t => otaPc'[u] = otaPc[u]
    BY <2>1
  <2>3. Busy(t) /\ Busy(t)'
    BY <2>1, <2>2 DEF Busy
  <2>4. TaskInv(t)'
    BY <1>0, <2>1, <2>2, <2>3 DEF TaskInv, Installed
  <2>5. reported.job <= jobs /\ bootSlot <= jobs /\ running <= bootSlot
    BY DEF JobInv
  <2> QED BY <2>1, <2>2, <2>3, <2>4, <2>5, BusyTaskStep
<1>3. CASE StatusPublished(t)
  <2> DEFINE next == IF dispatching' = "none" THEN AfterReport[otaStatus[t]] ELSE "abort"
  <2>0. next = AfterReport[otaStatus[t]] \/ next = "abort"
    OBVIOUS
  <2>1. /\ otaPc[t] = "publish" /\ otaPc' = [otaPc EXCEPT ![t] = next]
        /\ mqttPc = "loop" /\ reported' = Report(otaJob[t], otaStatus[t])
        /\ UNCHANGED <<otaStatus, otaJob, jobs, bootSlot, running, mqttPc>>
    BY <1>3, Zenon DEF StatusPublished
  <2> HIDE DEF next
  <2>2. /\ otaPc'[t] = next /\ \A u \in Tasks : u # t => otaPc'[u] = otaPc[u]
    BY <2>1
  <2>3. Busy(t) /\ Busy(t)'
    BY <2>0, <2>1, <2>2, AfterReports DEF Busy
  <2>4. reported'.job = jobs /\ reported'.rank = Rank[otaStatus[t]]
    BY <1>0, <2>1, <2>3 DEF TaskInv, Report
  <2>5. TaskInv(t)'
    BY <1>0, <2>0, <2>1, <2>2, <2>3, <2>4, AfterReports DEF TaskInv, Installed
  <2>6. bootSlot <= jobs /\ running <= bootSlot
    BY DEF JobInv
  <2> QED BY <2>1, <2>2, <2>3, <2>4, <2>5, <2>6, BusyTaskStep
<1>4. CASE DownloadSucceeds(t)
  <2>1. /\ otaPc[t] = "download" /\ otaPc' = [otaPc EXCEPT ![t] = "check"]
        /\ otaStatus' = [otaStatus EXCEPT ![t] = "applied"] /\ bootSlot' = otaJob[t]
        /\ UNCHANGED <<otaJob, jobs, reported, running, mqttPc>>
    BY <1>4, Zenon DEF DownloadSucceeds
  <2>2. /\ otaPc'[t] = "check" /\ \A u \in Tasks : u # t => otaPc'[u] = otaPc[u]
        /\ otaStatus'[t] = "applied" /\ Rank["applied"] = 3
    BY <2>1 DEF Rank
  <2>3. Busy(t) /\ Busy(t)'
    BY <2>1, <2>2 DEF Busy
  <2>4. /\ otaJob[t] = jobs /\ bootSlot = running /\ bootSlot < jobs
        /\ reported.job = jobs => reported.rank <= 2
    BY <1>0, <2>1, <2>3 DEF TaskInv, Installed
  <2>5. TaskInv(t)'
    BY <2>1, <2>2, <2>4 DEF TaskInv, Installed
  <2>6. reported.job <= jobs
    BY DEF JobInv
  <2> QED BY <2>1, <2>2, <2>3, <2>4, <2>5, <2>6, BusyTaskStep
<1>5. CASE DownloadFails(t)
  <2>1. /\ otaPc[t] = "download" /\ otaPc' = [otaPc EXCEPT ![t] = "check"]
        /\ otaStatus' = [otaStatus EXCEPT ![t] = "failed"]
        /\ UNCHANGED <<otaJob, jobs, reported, bootSlot, running, mqttPc>>
    BY <1>5, Zenon DEF DownloadFails, imageVars
  <2>2. /\ otaPc'[t] = "check" /\ \A u \in Tasks : u # t => otaPc'[u] = otaPc[u]
        /\ otaStatus'[t] = "failed" /\ Rank["failed"] = 3
    BY <2>1 DEF Rank
  <2>3. Busy(t) /\ Busy(t)'
    BY <2>1, <2>2 DEF Busy
  <2>4. /\ otaJob[t] = jobs /\ bootSlot = running /\ bootSlot < jobs
        /\ reported.job = jobs => reported.rank <= 2
    BY <1>0, <2>1, <2>3 DEF TaskInv, Installed
  <2>5. TaskInv(t)'
    BY <2>1, <2>2, <2>4 DEF TaskInv, Installed
  <2>6. reported.job <= jobs
    BY DEF JobInv
  <2> QED BY <2>1, <2>2, <2>3, <2>4, <2>5, <2>6, BusyTaskStep
<1>6. CASE Restart(t)
  BY <1>6 DEF Restart, Reset, JobInv, TaskInv, Busy
<1>7. CASE FlagCleared(t)
  <2>1. /\ otaPc[t] = "clear" /\ otaPc' = [otaPc EXCEPT ![t] = "exit"]
        /\ UNCHANGED <<otaStatus, otaJob, jobs, reported, bootSlot, running, mqttPc>>
    BY <1>7, Zenon DEF FlagCleared, imageVars
  <2>2. /\ otaPc'[t] = "exit" /\ \A u \in Tasks : u # t => otaPc'[u] = otaPc[u]
    BY <2>1
  <2>3. Busy(t) /\ ~Busy(t)'
    BY <2>1, <2>2 DEF Busy
  <2>4. bootSlot = running
    BY <1>0, <2>1, <2>3 DEF TaskInv, Installed
  <2>5. TaskInv(t)'
    BY <2>3, Zenon DEF TaskInv
  <2>6. reported.job <= jobs /\ bootSlot <= jobs /\ running <= bootSlot
    BY DEF JobInv
  <2> QED BY <2>1, <2>2, <2>3, <2>4, <2>5, <2>6, BusyTaskStep
<1>8. CASE TaskDeleted(t)
  <2>1. /\ otaPc[t] = "exit" /\ otaPc' = [otaPc EXCEPT ![t] = "free"]
        /\ UNCHANGED <<otaStatus, otaJob, jobs, reported, bootSlot, running, mqttPc>>
    BY <1>8, Zenon DEF TaskDeleted, imageVars
  <2>2. /\ otaPc'[t] = "free" /\ \A u \in Tasks : u # t => otaPc'[u] = otaPc[u]
    BY <2>1
  <2>3. ~Busy(t) /\ ~Busy(t)' /\ \A u \in Tasks : Busy(u)' <=> Busy(u)
    BY <2>1, <2>2 DEF Busy
  <2>4. \A u \in Tasks : TaskInv(u) => TaskInv(u)'
    BY <2>1, <2>2, <2>3 DEF TaskInv, Installed
  <2> QED BY <2>1, <2>3, <2>4 DEF JobInv
<1>9. CASE HandlePassed(t)
  <2> DEFINE next == IF s_mqtt_client = "NULL" THEN AfterReport[otaStatus[t]] ELSE "publish"
  <2>0. next = AfterReport[otaStatus[t]] \/ next = "publish"
    OBVIOUS
  <2>1. /\ otaPc[t] = "pass" /\ otaPc' = [otaPc EXCEPT ![t] = next]
        /\ UNCHANGED <<otaStatus, otaJob, jobs, reported, bootSlot, running, mqttPc>>
    BY <1>9, Zenon DEF HandlePassed
  <2> HIDE DEF next
  <2>2. /\ otaPc'[t] = next /\ \A u \in Tasks : u # t => otaPc'[u] = otaPc[u]
    BY <2>1
  <2>3. Busy(t) /\ Busy(t)'
    BY <2>0, <2>1, <2>2, AfterReports DEF Busy
  <2>4. TaskInv(t)'
    BY <1>0, <2>0, <2>1, <2>2, <2>3, AfterReports DEF TaskInv, Installed
  <2>5. reported.job <= jobs /\ bootSlot <= jobs /\ running <= bootSlot
    BY DEF JobInv
  <2> QED BY <2>1, <2>2, <2>3, <2>4, <2>5, BusyTaskStep
<1>10. CASE StatusAborted(t)
  <2>1. /\ otaPc[t] = "abort" /\ otaPc' = [otaPc EXCEPT ![t] = AfterReport[otaStatus[t]]]
        /\ UNCHANGED <<otaStatus, otaJob, jobs, reported, bootSlot, running, mqttPc>>
    BY <1>10, Zenon DEF StatusAborted
  <2>2. /\ otaPc'[t] = AfterReport[otaStatus[t]] /\ \A u \in Tasks : u # t => otaPc'[u] = otaPc[u]
    BY <2>1
  <2>3. Busy(t) /\ Busy(t)'
    BY <2>1, <2>2, AfterReports DEF Busy
  <2>4. TaskInv(t)'
    BY <1>0, <2>1, <2>2, <2>3, AfterReports DEF TaskInv, Installed
  <2>5. reported.job <= jobs /\ bootSlot <= jobs /\ running <= bootSlot
    BY DEF JobInv
  <2> QED BY <2>1, <2>2, <2>3, <2>4, <2>5, BusyTaskStep
<1> QED BY <1>1, <1>2, <1>3, <1>4, <1>5, <1>6, <1>7, <1>8, <1>9, <1>10 DEF Ota

\* Each step of the DATA handler keeps it too.
LEMMA DataKeepsJobs ==
  ASSUME TypeOK, OneUpdate, JobInv, Data
  PROVE  JobInv'
<1> USE DEF OtaTypeOK
<1>1. CASE OnRequest \/ OnJson \/ OnCommandRefused \/ Acknowledge
  <2>1. /\ UNCHANGED <<taskVars, jobs, bootSlot, running>>
        /\ mqttPc' \in {"puback", "loop"}
    BY <1>1, Zenon DEF OnRequest, OnJson, OnCommandRefused, Acknowledge
  <2>2. UNCHANGED reported
    BY <1>1, Zenon DEF OnRequest, OnJson, OnCommandRefused, Acknowledge, PublishOtaStatus
  <2> QED BY <2>1, <2>2 DEF JobInv, TaskInv, Busy, Installed
<1>2. CASE OnCommandAccepted
  <2>1. /\ UNCHANGED <<taskVars, reported, bootSlot, running>> /\ mqttPc' = "accept"
        /\ jobs' = jobs + 1 /\ ~s_ota_in_progress
    BY <1>2, Zenon DEF OnCommandAccepted
  <2>2. \A t \in Tasks : ~Busy(t) /\ ~Busy(t)'
    BY <2>1, Zenon DEF OneUpdate, Busy
  <2>3. \A t \in Tasks : TaskInv(t)'
    BY <2>2, Zenon DEF TaskInv
  <2> QED BY <2>1, <2>2, <2>3 DEF JobInv
<1>3. CASE AcceptReported
  <2>1. /\ UNCHANGED <<taskVars, jobs, bootSlot, running>> /\ mqttPc = "accept" /\ mqttPc' = "create"
        /\ reported' = reported \/ reported' = Report(jobs, "accepted")
    BY <1>3, Zenon DEF AcceptReported, PublishOtaStatus
  <2>2. \A t \in Tasks : ~Busy(t) /\ ~Busy(t)'
    BY <2>1, Zenon DEF OneUpdate, Busy
  <2>3. \A t \in Tasks : TaskInv(t)'
    BY <2>2, Zenon DEF TaskInv
  <2>4. \/ reported' = reported /\ reported.job < jobs
        \/ reported'.job = jobs /\ reported'.rank = 1
    BY <2>1 DEF JobInv, Report, Rank
  <2> QED BY <2>1, <2>2, <2>3, <2>4 DEF JobInv
<1>4. ASSUME NEW t \in Tasks, TaskCreated(t) PROVE JobInv'
  <2>1. /\ UNCHANGED <<jobs, reported, bootSlot, running>> /\ mqttPc = "create" /\ mqttPc' = "puback"
        /\ otaPc' = [otaPc EXCEPT ![t] = "check"]
        /\ otaStatus' = [otaStatus EXCEPT ![t] = "downloading"]
        /\ otaJob' = [otaJob EXCEPT ![t] = jobs]
    BY <1>4, Zenon DEF TaskCreated
  <2>2. /\ otaPc'[t] = "check" /\ otaStatus'[t] = "downloading" /\ otaJob'[t] = jobs
        /\ \A u \in Tasks : u # t => otaPc'[u] = otaPc[u]
        /\ Rank["downloading"] = 2
    BY <2>1 DEF Rank
  <2>3. \A u \in Tasks : ~Busy(u) /\ (u # t => ~Busy(u)')
    BY <2>1, <2>2 DEF OneUpdate, Busy
  <2>4. /\ bootSlot = running /\ bootSlot < jobs /\ (reported.job = jobs => reported.rank <= 1)
    BY <2>1, <2>3 DEF JobInv
  <2>5. TaskInv(t)'
    BY <2>1, <2>2, <2>4 DEF TaskInv, Installed
  <2>6. \A u \in Tasks : TaskInv(u)'
    BY <2>3, <2>5, Zenon DEF TaskInv
  <2> QED BY <2>1, <2>4, <2>6 DEF JobInv
<1>5. CASE TaskNotCreated
  <2>1. /\ UNCHANGED <<taskVars, jobs, reported, bootSlot, running>>
        /\ mqttPc = "create" /\ mqttPc' = "createFailed"
    BY <1>5, Zenon DEF TaskNotCreated
  <2>2. \A t \in Tasks : ~Busy(t) /\ ~Busy(t)'
    BY <2>1, Zenon DEF OneUpdate, Busy
  <2>3. \A t \in Tasks : TaskInv(t)'
    BY <2>2, Zenon DEF TaskInv
  <2> QED BY <2>1, <2>2, <2>3 DEF JobInv
<1>6. CASE NotCreatedReported
  <2>1. /\ UNCHANGED <<taskVars, jobs, bootSlot, running>>
        /\ mqttPc = "createFailed" /\ mqttPc' = "puback"
        /\ reported' = reported \/ reported' = Report(jobs, "failed")
    BY <1>6, Zenon DEF NotCreatedReported, PublishOtaStatus
  <2>2. \A t \in Tasks : ~Busy(t) /\ ~Busy(t)'
    BY <2>1, Zenon DEF JobInv, Busy
  <2>3. \A t \in Tasks : TaskInv(t)'
    BY <2>2, Zenon DEF TaskInv
  <2>4. reported'.job <= jobs
    BY <2>1 DEF JobInv, Report
  <2> QED BY <2>1, <2>2, <2>3, <2>4 DEF JobInv
<1> QED BY <1>1, <1>2, <1>3, <1>4, <1>5, <1>6 DEF Data

\* No report runs ahead of its job, no job ahead of the image.
LEMMA JobInvariant == Spec => []JobInv
<1>1. Init => JobInv
  BY DEF Init, JobInv, TaskInv, Busy
<1>2. TypeOK /\ OneUpdate /\ JobInv /\ [Next]_vars => JobInv'
  <2> SUFFICES ASSUME TypeOK, OneUpdate, JobInv, [Next]_vars PROVE JobInv'
    OBVIOUS
  <2>1. CASE Driver \/ WifiHandler \/ Main \/ Session
    <3>1. UNCHANGED <<taskVars, jobs, reported, bootSlot, running, mqttPc>>
      BY <2>1, Zenon
      DEF Driver, JoinFails, Joins, DhcpBinds, LinkLost,
          WifiHandler, OnStaStart, OnDisconnected, OnGotIp, Main, WaitEnds, MqttStart,
          Session, ConnectFails, TransportFails, ConnectSucceeds, Resubscribe, TaskAborts,
          DisconnectedHandled, Reconnects
    <3> QED BY <3>1, JobFrame
  <2>2. CASE Data
    BY <2>2, DataKeepsJobs
  <2>3. ASSUME NEW t \in Tasks, Ota(t) PROVE JobInv'
    BY <2>3, OtaKeepsJobs
  <2>4. ASSUME NEW m \in HostMsgs, HostSends(m) PROVE JobInv'
    <3>1. UNCHANGED <<taskVars, jobs, reported, bootSlot, running, mqttPc>>
      BY <2>4, Zenon DEF HostSends
    <3> QED BY <3>1, JobFrame
  <2>5. CASE SessionDies \/ UNCHANGED vars
    <3>1. UNCHANGED <<taskVars, jobs, reported, bootSlot, running, mqttPc>>
      BY <2>5, Zenon DEF SessionDies, vars
    <3> QED BY <3>1, JobFrame
  <2>6. CASE PowerCycle
    BY <2>6 DEF PowerCycle, Reset, JobInv, TaskInv, Busy, OtaTypeOK
  <2> QED BY <2>1, <2>2, <2>3, <2>4, <2>5, <2>6 DEF Next
<1> QED BY <1>1, <1>2, UpdatesExclude, TypeCorrect, PTL DEF Spec

\* connectivity.c:332-354, 379-385: a status that is handed to the client comes
\* after every status handed to it before, of this job and of the others.
THEOREM ReportsInOrder == Spec => StatusOrder
<1>1. TypeOK /\ OneUpdate /\ JobInv /\ [Next]_vars =>
        [reported' # reported => Later(reported', reported)]_vars
  <2> SUFFICES ASSUME TypeOK, JobInv, [Next]_vars, reported' # reported
               PROVE  Later(reported', reported)
    OBVIOUS
  <2> USE DEF OtaTypeOK
  <2>1. \/ AcceptReported \/ NotCreatedReported \/ \E t \in Tasks : StatusPublished(t)
    <3>1. CASE Driver \/ WifiHandler \/ Main \/ Session
      BY <3>1, Zenon
      DEF Driver, JoinFails, Joins, DhcpBinds, LinkLost,
          WifiHandler, OnStaStart, OnDisconnected, OnGotIp, Main, WaitEnds, MqttStart,
          Session, ConnectFails, TransportFails, ConnectSucceeds, Resubscribe, TaskAborts,
          DisconnectedHandled, Reconnects
    <3>2. CASE Data
      BY <3>2, Zenon
      DEF Data, OnRequest, OnJson, OnCommandRefused, OnCommandAccepted, TaskCreated,
          TaskNotCreated, Acknowledge, PublishOtaStatus
    <3>3. ASSUME NEW t \in Tasks, Ota(t) PROVE StatusPublished(t)
      BY <3>3, Zenon
      DEF Ota, StatusDropped, StatusChecked, HandlePassed, StatusAborted, DownloadSucceeds, DownloadFails, Restart, Reset,
          FlagCleared, TaskDeleted
    <3>4. CASE SessionDies \/ PowerCycle \/ UNCHANGED vars \/ \E m \in HostMsgs : HostSends(m)
      BY <3>4, Zenon DEF SessionDies, PowerCycle, Reset, HostSends, vars
    <3> QED BY <3>1, <3>2, <3>3, <3>4 DEF Next
  <2>2. CASE AcceptReported
    <3>1. mqttPc = "accept" /\ reported' = Report(jobs, "accepted")
      BY <2>2, Zenon DEF AcceptReported, PublishOtaStatus
    <3> QED BY <3>1 DEF JobInv, Later, Report
  <2>3. CASE NotCreatedReported
    <3>1. mqttPc = "createFailed" /\ reported' = Report(jobs, "failed")
      BY <2>3, Zenon DEF NotCreatedReported, PublishOtaStatus
    <3> QED BY <3>1 DEF JobInv, Later, Report, Rank
  <2>4. ASSUME NEW t \in Tasks, StatusPublished(t) PROVE Later(reported', reported)
    <3>1. otaPc[t] = "publish" /\ reported' = Report(otaJob[t], otaStatus[t])
      BY <2>4, Zenon DEF StatusPublished
    <3>2. Busy(t) /\ TaskInv(t)
      BY <3>1 DEF Busy, JobInv
    <3>3. otaJob[t] = jobs /\ (reported.job = jobs => reported.rank < Rank[otaStatus[t]])
      BY <3>1, <3>2 DEF TaskInv
    <3> QED BY <3>1, <3>3, AfterReports DEF JobInv, Later, Report
  <2> QED BY <2>1, <2>2, <2>3, <2>4
<1> QED BY <1>1, JobInvariant, UpdatesExclude, TypeCorrect, PTL DEF Spec, StatusOrder

\* What a step does to the service's variables: only six of the firmware's
\* actions are not stutters of OtaService.
ServiceFrame == UNCHANGED <<s_ota_in_progress, jobs, bootSlot, running>> /\ (Starting' <=> Starting)

LEMMA ServiceSteps ==
  ASSUME TypeOK, OneUpdate, [Next]_vars
  PROVE  \/ ServiceFrame \/ Reset \/ OnCommandAccepted \/ TaskNotCreated
         \/ \E t \in Tasks : TaskCreated(t) \/ DownloadSucceeds(t) \/ FlagCleared(t)
<1>1. CASE Driver \/ WifiHandler \/ Main \/ Session
  BY <1>1, Zenon
  DEF Driver, JoinFails, Joins, DhcpBinds, LinkLost,
      WifiHandler, OnStaStart, OnDisconnected, OnGotIp, Main, WaitEnds, MqttStart,
      Session, ConnectFails, TransportFails, ConnectSucceeds, Resubscribe, TaskAborts,
      DisconnectedHandled, Reconnects,
      ServiceFrame, Starting
<1>2. CASE Data
  <2>1. CASE OnRequest \/ OnJson \/ OnCommandRefused \/ AcceptReported \/ NotCreatedReported \/ Acknowledge
    <3>1. /\ UNCHANGED <<s_ota_in_progress, jobs, bootSlot, running>>
          /\ \/ mqttPc = "loop" /\ mqttPc' = "puback"
             \/ mqttPc = "accept" /\ mqttPc' = "create"
             \/ mqttPc = "createFailed" /\ mqttPc' = "puback"
             \/ mqttPc = "puback" /\ mqttPc' = "loop"
      BY <2>1, Zenon
      DEF OnRequest, OnJson, OnCommandRefused, AcceptReported, NotCreatedReported, Acknowledge, Receive
    <3>2. Starting' <=> Starting
      BY <3>1 DEF Starting
    <3> QED BY <3>1, <3>2 DEF ServiceFrame
  <2> QED BY <1>2, <2>1, Zenon DEF Data
<1>3. ASSUME NEW t \in Tasks, Ota(t)
      PROVE  ServiceFrame \/ Reset \/ DownloadSucceeds(t) \/ FlagCleared(t)
  BY <1>3, Zenon
  DEF Ota, StatusDropped, StatusChecked, HandlePassed, StatusPublished, StatusAborted, DownloadFails, Restart, TaskDeleted,
      ServiceFrame, Starting
<1>4. CASE SessionDies \/ PowerCycle \/ UNCHANGED vars \/ \E m \in HostMsgs : HostSends(m)
  BY <1>4, Zenon DEF SessionDies, PowerCycle, HostSends, vars, ServiceFrame, Starting
<1> QED BY <1>1, <1>2, <1>3, <1>4, Zenon DEF Next

\* connectivity.c:347-355: while an image waits for its restart no other
\* replaces it, and only the job accepted last is installed.
THEOREM InstalledBootsNext == Spec => InstalledIsBooted
<1>1. TypeOK /\ OneUpdate /\ JobInv /\ [Next]_vars =>
        [bootSlot' # bootSlot => bootSlot = running /\ bootSlot' = jobs]_vars
  <2> SUFFICES ASSUME TypeOK, OneUpdate, JobInv, [Next]_vars, bootSlot' # bootSlot
               PROVE  bootSlot = running /\ bootSlot' = jobs
    OBVIOUS
  <2>1. PICK t \in Tasks : DownloadSucceeds(t)
    BY ServiceSteps, Zenon
    DEF ServiceFrame, Reset, OnCommandAccepted, TaskNotCreated, TaskCreated, FlagCleared
  <2>2. otaPc[t] = "download" /\ bootSlot' = otaJob[t]
    BY <2>1, Zenon DEF DownloadSucceeds
  <2>3. Busy(t) /\ TaskInv(t)
    BY <2>2 DEF Busy, JobInv
  <2> QED BY <2>2, <2>3 DEF TaskInv, Installed
<1> QED BY <1>1, JobInvariant, UpdatesExclude, TypeCorrect, PTL DEF Spec, InstalledIsBooted

\* The interleaved firmware implements the one-at-a-time service of OtaService.
THEOREM Refines == Spec => ImplementsService
<1>1. Init => Service!Init
  <2> SUFFICES ASSUME Init PROVE Service!Init
    OBVIOUS
  <2>1. ~s_ota_in_progress
    BY Zenon DEF Init
  <2> QED BY <2>1 DEF Init, Service!Init, Phase
<1>2. TypeOK /\ OneUpdate /\ JobInv /\ [Next]_vars => [Service!Next]_Service!vars
  <2> SUFFICES ASSUME TypeOK, OneUpdate, JobInv, [Next]_vars PROVE [Service!Next]_Service!vars
    OBVIOUS
  <2> USE DEF OtaTypeOK
  <2>1. CASE ServiceFrame
    <3>1. Phase' = Phase
      BY <2>1, Zenon DEF ServiceFrame, Starting, Phase
    <3> QED BY <2>1, <3>1 DEF ServiceFrame, Service!vars
  <2>2. CASE Reset
    <3>1. ~s_ota_in_progress'
      BY <2>2, Zenon DEF Reset
    <3>2. Phase' = "idle"
      BY <3>1 DEF Phase
    <3> QED BY <2>2, <3>2 DEF Reset, Service!Next, Service!Reboot
  <2>3. CASE OnCommandAccepted
    <3>1. mqttPc' = "accept" /\ jobs' = jobs + 1 /\ ~s_ota_in_progress /\ UNCHANGED <<bootSlot, running>>
      BY <2>3, Zenon DEF OnCommandAccepted
    <3>2. s_ota_in_progress'
      BY <2>3, Zenon DEF OnCommandAccepted
    <3>3. Phase = "idle" /\ Phase' = "accepted"
      BY <3>1, <3>2 DEF Phase
    <3> QED BY <3>1, <3>3 DEF Service!Next, Service!Accept
  <2>4. CASE TaskNotCreated
    <3>1. mqttPc = "create" /\ UNCHANGED <<jobs, bootSlot, running>> /\ s_ota_in_progress
      BY <2>4, Zenon DEF TaskNotCreated, OneUpdate
    <3>2. ~s_ota_in_progress'
      BY <2>4, Zenon DEF TaskNotCreated
    <3>3. Phase = "accepted" /\ Phase' = "idle"
      BY <3>1, <3>2 DEF Phase
    <3> QED BY <3>1, <3>3 DEF Service!Next, Service!GiveUp
  <2>5. ASSUME NEW t \in Tasks, TaskCreated(t) PROVE [Service!Next]_Service!vars
    <3>1. /\ mqttPc = "create" /\ mqttPc' = "puback"
          /\ UNCHANGED <<s_ota_in_progress, jobs, bootSlot, running>> /\ s_ota_in_progress
      BY <2>5, Zenon DEF TaskCreated, OneUpdate
    <3>2. \A u \in Tasks : ~Busy(u)
      BY <3>1, Zenon DEF OneUpdate
    <3>3. bootSlot = running
      BY <3>2 DEF JobInv
    <3>4. Phase = "accepted" /\ Phase' = "updating"
      BY <3>1, <3>3 DEF Phase
    <3> QED BY <3>1, <3>4 DEF Service!Next, Service!Start
  <2>6. ASSUME NEW t \in Tasks, DownloadSucceeds(t) \/ FlagCleared(t)
        PROVE  [Service!Next]_Service!vars
    <3>1. otaPc[t] \in {"download", "clear"} /\ UNCHANGED <<jobs, running, mqttPc>>
      BY <2>6, Zenon DEF DownloadSucceeds, FlagCleared, imageVars
    <3>2. Busy(t) /\ TaskInv(t)
      BY <3>1 DEF Busy, JobInv
    <3>3. s_ota_in_progress /\ mqttPc \notin {"accept", "create"}
      BY <3>2, Zenon DEF OneUpdate
    <3>4. bootSlot = running /\ bootSlot < jobs /\ otaJob[t] = jobs
      BY <3>1, <3>2 DEF TaskInv, Installed
    <3>5. Phase = "updating"
      BY <3>3, <3>4 DEF Phase
    <3>6. CASE DownloadSucceeds(t)
      <4>1. bootSlot' = otaJob[t] /\ UNCHANGED s_ota_in_progress
        BY <3>6, Zenon DEF DownloadSucceeds
      <4>2. Phase' = "applied"
        BY <3>1, <3>3, <3>4, <4>1 DEF Phase
      <4> QED BY <3>1, <3>4, <3>5, <4>1, <4>2 DEF Service!Next, Service!Apply
    <3>7. CASE FlagCleared(t)
      <4>1. ~s_ota_in_progress' /\ UNCHANGED bootSlot
        BY <3>7, Zenon DEF FlagCleared, imageVars
      <4>2. Phase' = "idle"
        BY <4>1 DEF Phase
      <4> QED BY <3>1, <3>5, <4>1, <4>2 DEF Service!Next, Service!GiveUp
    <3> QED BY <2>6, <3>6, <3>7
  <2> QED BY <2>1, <2>2, <2>3, <2>4, <2>5, <2>6, ServiceSteps
<1> QED
  BY <1>1, <1>2, JobInvariant, UpdatesExclude, TypeCorrect, PTL DEF Spec, ImplementsService, Service!Spec
===============================================================================
