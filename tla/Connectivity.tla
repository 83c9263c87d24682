----------------------------- MODULE Connectivity -----------------------------
(***************************************************************************)
(* src/main/connectivity.c: the Wi-Fi station, the MQTT event handler and  *)
(* the over-the-air update, which share two unlocked statics               *)
(* (s_mqtt_client and s_ota_in_progress) between four kinds of threads:    *)
(*                                                                         *)
(*   main      app_main: wifi_init_sta waits for the verdict of the Wi-Fi  *)
(*             handler, then mqtt_start creates the MQTT task;             *)
(*   sys_evt   the default event loop, which runs wifi_event_handler;      *)
(*   mqtt      esp_mqtt_task, which runs mqtt_event_handler and holds the  *)
(*             client's recursive API lock while it does;                  *)
(*   OTA       one ota_update_task per accepted command; its publishes     *)
(*             take the API lock, its reads of s_mqtt_client do not.       *)
(*                                                                         *)
(* The MQTT client is seen here through its API and its events; the Wi-Fi  *)
(* driver, the broker, the hosts and the transport are the environment.    *)
(***************************************************************************)
EXTENDS Naturals, Sequences, FiniteSets

CONSTANTS
  MaxRetries,  \* MAX_WIFI_RETRIES
  Tasks,       \* slots for OTA tasks: xTaskCreate needs a free one
  HostMsgs,    \* what hosts publish to the device, a subset of Messages
  MaxSends,    \* bound: messages hosts publish
  MaxInbox,    \* bound: messages of hosts in flight to the device
  MaxFaults    \* bound: failures of Wi-Fi, transport or power

\* A message is told apart by what its handler does with it: a metrics request,
\* a JSON (or other) payload on a metrics topic, an OTA command with an
\* acceptable URL, an OTA command without one.
Messages == {"request", "json", "command", "badCommand"}
Topics   == {"metrics", "ota"}

ASSUME RetriesAssumption == MaxRetries \in Nat
ASSUME MsgsAssumption    == HostMsgs \subseteq Messages
ASSUME BoundsAssumption  == MaxSends \in Nat /\ MaxInbox \in Nat /\ MaxFaults \in Nat

VARIABLES
  link,                   \* the driver: "down", "joining", "joined" (no IP yet), "up"
  evtQ,                   \* events posted to the default loop, not yet handled
  s_wifi_retry_num,
  s_wifi_connected_once,
  s_wifi_event_group,     \* the bits set: a subset of {"CONNECTED", "FAIL"}
  joins,                  \* history: esp_wifi_connect calls before the first IP
  mainPc,                 \* app_main: "wait", "start", "done", "returned"
  s_mqtt_client,          \* "NULL" or "client"
  state,                  \* client->state; "NONE" before mqtt_start
  conn,                   \* the TCP session: "none", "alive", "dead" (not yet noticed)
  dispatching,            \* the event whose handler an abort is yet to run, under the lock
  subs,                   \* what the broker has the session subscribed to
  inbox,                  \* publishes on their way to the device, oldest first
  mqttPc,                 \* the MQTT task: "loop", or where in a DATA event it is
  s_ota_in_progress,
  otaPc, otaStatus, otaJob,  \* per OTA task: where it is, the status it reports, its job
  jobs,                   \* history: commands accepted
  reported,               \* history: the last job status handed to the client
  bootSlot,               \* the job whose image otadata boots next, 0 the factory one
  running,                \* the job whose image is running
  sent, faults            \* bounded counters of the environment

wifiVars    == <<link, evtQ, s_wifi_retry_num, s_wifi_connected_once, s_wifi_event_group, joins>>
sessionVars == <<state, conn, dispatching, subs, inbox>>
taskVars    == <<otaPc, otaStatus, otaJob>>
otaVars     == <<s_ota_in_progress, taskVars, jobs>>
imageVars   == <<bootSlot, running>>
envVars     == <<sent, faults>>
vars == <<wifiVars, mainPc, s_mqtt_client, sessionVars, mqttPc, otaVars, reported, imageVars, envVars>>

WifiEvents == {"STA_START", "DISCONNECTED", "GOT_IP"}
OtaPcs     == {"free", "check", "pass", "publish", "abort", "download", "delay", "clear", "exit"}
Statuses   == {"accepted", "downloading", "applied", "failed"}

\* How far along its job a status is, and which of two reports is the later one.
Rank == [accepted |-> 1, downloading |-> 2, applied |-> 3, failed |-> 3]
Later(r, q) == r.job > q.job \/ (r.job = q.job /\ r.rank > q.rank)

WifiTypeOK ==
  /\ link \in {"down", "joining", "joined", "up"}
  /\ s_wifi_retry_num \in 0 .. MaxRetries
  /\ s_wifi_connected_once \in BOOLEAN
  /\ s_wifi_event_group \in SUBSET {"CONNECTED", "FAIL"}
  /\ joins \in Nat
  /\ mainPc \in {"wait", "start", "done", "returned"}

SessionTypeOK ==
  /\ s_mqtt_client \in {"NULL", "client"}
  /\ state \in {"NONE", "INIT", "CONNECTED", "WAIT_RECONNECT", "DISCONNECTED"}
  /\ conn \in {"none", "alive", "dead"}
  /\ dispatching \in {"none", "DISCONNECTED"}
  /\ subs \in SUBSET Topics
  /\ mqttPc \in {"loop", "accept", "create", "createFailed", "puback"}
  /\ sent \in 0 .. MaxSends
  /\ faults \in 0 .. MaxFaults

OtaTypeOK ==
  /\ s_ota_in_progress \in BOOLEAN
  /\ otaPc \in [Tasks -> OtaPcs]
  /\ otaStatus \in [Tasks -> {"downloading", "applied", "failed"}]
  /\ otaJob \in [Tasks -> Nat]
  /\ jobs \in Nat
  /\ reported \in [job : Nat, rank : 0 .. 3]
  /\ bootSlot \in Nat
  /\ running \in Nat

QueueTypeOK == evtQ \in Seq(WifiEvents) /\ inbox \in Seq(Messages)

\* connectivity.c:39-44, mqtt_client_priv.h and the local variables: every
\* counter, queue and program counter stays in its set, s_wifi_retry_num at
\* most MAX_WIFI_RETRIES included.
TypeOK == WifiTypeOK /\ SessionTypeOK /\ OtaTypeOK /\ QueueTypeOK

-------------------------------------------------------------------------------
(* Boot: esp_wifi_start has posted STA_START, app_main waits for the verdict. *)

Init ==
  /\ link = "down" /\ evtQ = <<"STA_START">>
  /\ s_wifi_retry_num = 0 /\ s_wifi_connected_once = FALSE
  /\ s_wifi_event_group = {} /\ joins = 0
  /\ mainPc = "wait" /\ s_mqtt_client = "NULL"
  /\ state = "NONE" /\ conn = "none" /\ dispatching = "none" /\ subs = {} /\ inbox = <<>>
  /\ mqttPc = "loop"
  /\ s_ota_in_progress = FALSE
  /\ otaPc = [t \in Tasks |-> "free"]
  /\ otaStatus = [t \in Tasks |-> "downloading"]
  /\ otaJob = [t \in Tasks |-> 0]
  /\ jobs = 0 /\ reported = [job |-> 0, rank |-> 0]
  /\ bootSlot = 0 /\ running = 0 /\ sent = 0 /\ faults = 0

\* A reset loses the RAM, and the bootloader starts the image otadata names.
Reset ==
  /\ link' = "down" /\ evtQ' = <<"STA_START">>
  /\ s_wifi_retry_num' = 0 /\ s_wifi_connected_once' = FALSE
  /\ s_wifi_event_group' = {} /\ joins' = 0
  /\ mainPc' = "wait" /\ s_mqtt_client' = "NULL"
  /\ state' = "NONE" /\ conn' = "none" /\ dispatching' = "none" /\ subs' = {} /\ inbox' = <<>>
  /\ mqttPc' = "loop"
  /\ s_ota_in_progress' = FALSE
  /\ otaPc' = [t \in Tasks |-> "free"]
  /\ otaStatus' = [t \in Tasks |-> "downloading"]
  /\ otaJob' = [t \in Tasks |-> 0]
  /\ running' = bootSlot
  /\ UNCHANGED <<jobs, reported, bootSlot, sent>>

Fault == faults < MaxFaults /\ faults' = faults + 1

\* Power fails, or a task panics.
PowerCycle == Fault /\ Reset

-------------------------------------------------------------------------------
(* The Wi-Fi driver and DHCP (external): each esp_wifi_connect ends in an    *)
(* association or in a DISCONNECTED event, an association lasts until lost.  *)

JoinFails ==
  /\ link = "joining" /\ Fault
  /\ link' = "down" /\ evtQ' = Append(evtQ, "DISCONNECTED")
  /\ UNCHANGED <<s_wifi_retry_num, s_wifi_connected_once, s_wifi_event_group, joins, mainPc,
                 s_mqtt_client, sessionVars, mqttPc, otaVars, reported, imageVars, sent>>

Joins ==
  /\ link = "joining" /\ link' = "joined"
  /\ UNCHANGED <<evtQ, s_wifi_retry_num, s_wifi_connected_once, s_wifi_event_group, joins, mainPc,
                 s_mqtt_client, sessionVars, mqttPc, otaVars, reported, imageVars, envVars>>

DhcpBinds ==
  /\ link = "joined" /\ link' = "up" /\ evtQ' = Append(evtQ, "GOT_IP")
  /\ UNCHANGED <<s_wifi_retry_num, s_wifi_connected_once, s_wifi_event_group, joins, mainPc,
                 s_mqtt_client, sessionVars, mqttPc, otaVars, reported, imageVars, envVars>>

\* The TCP session of the MQTT client is left alone: lwIP keeps the address and
\* the sockets while the station is away.
LinkLost ==
  /\ link \in {"joined", "up"} /\ Fault
  /\ link' = "down" /\ evtQ' = Append(evtQ, "DISCONNECTED")
  /\ UNCHANGED <<s_wifi_retry_num, s_wifi_connected_once, s_wifi_event_group, joins, mainPc,
                 s_mqtt_client, sessionVars, mqttPc, otaVars, reported, imageVars, sent>>

Driver == JoinFails \/ Joins \/ DhcpBinds \/ LinkLost

-------------------------------------------------------------------------------
(* sys_evt: wifi_event_handler takes the events in order.                    *)

Handle(event) == evtQ # <<>> /\ Head(evtQ) = event /\ evtQ' = Tail(evtQ)

\* esp_wifi_connect; the driver starts joining.
Connect ==
  /\ link' = "joining"
  /\ joins' = IF s_wifi_connected_once THEN joins ELSE joins + 1

OnStaStart ==
  /\ Handle("STA_START") /\ Connect
  /\ UNCHANGED <<s_wifi_retry_num, s_wifi_connected_once, s_wifi_event_group, mainPc,
                 s_mqtt_client, sessionVars, mqttPc, otaVars, reported, imageVars, envVars>>

\* Mutant: one attempt too many.
OneRetryMore == s_wifi_retry_num <= MaxRetries

RetriesLeft == s_wifi_retry_num < MaxRetries

\* Once an address was obtained the handler retries for ever; before that it
\* retries MaxRetries times and then reports failure.
OnDisconnected ==
  /\ Handle("DISCONNECTED")
  /\ s_mqtt_client' = "NULL"
  /\ \/ /\ s_wifi_connected_once
        /\ Connect
        /\ UNCHANGED <<s_wifi_retry_num, s_wifi_event_group>>
     \/ /\ ~s_wifi_connected_once /\ RetriesLeft
        /\ Connect
        /\ s_wifi_retry_num' = s_wifi_retry_num + 1
        /\ UNCHANGED s_wifi_event_group
     \/ /\ ~s_wifi_connected_once /\ ~RetriesLeft
        /\ s_wifi_event_group' = s_wifi_event_group \cup {"FAIL"}
        /\ UNCHANGED <<link, joins, s_wifi_retry_num>>
  /\ UNCHANGED <<s_wifi_connected_once, mainPc, sessionVars, mqttPc, otaVars, reported,
                 imageVars, envVars>>

OnGotIp ==
  /\ Handle("GOT_IP")
  /\ s_wifi_retry_num' = 0
  /\ s_wifi_connected_once' = TRUE
  /\ s_wifi_event_group' = s_wifi_event_group \cup {"CONNECTED"}
  /\ UNCHANGED <<link, joins, mainPc, s_mqtt_client, sessionVars, mqttPc, otaVars, reported,
                 imageVars, envVars>>

WifiHandler == OnStaStart \/ OnDisconnected \/ OnGotIp

-------------------------------------------------------------------------------
(* main: the end of wifi_init_sta, then mqtt_start.                          *)

WaitEnds ==
  /\ mainPc = "wait" /\ s_wifi_event_group # {}
  /\ mainPc' = IF "CONNECTED" \in s_wifi_event_group THEN "start" ELSE "returned"
  /\ UNCHANGED <<wifiVars, s_mqtt_client, sessionVars, mqttPc, otaVars, reported, imageVars, envVars>>

\* esp_mqtt_client_init can fail (bad URI, no memory): app_main returns.
MqttStart ==
  /\ mainPc = "start"
  /\ \/ mainPc' = "done" /\ state' = "INIT"
     \/ mainPc' = "returned" /\ UNCHANGED state
  /\ UNCHANGED <<wifiVars, s_mqtt_client, conn, dispatching, subs, inbox, mqttPc, otaVars, reported,
                 imageVars, envVars>>

Main == WaitEnds \/ MqttStart

-------------------------------------------------------------------------------
(* The MQTT client: what its API and its task do to the session.             *)

\* The MQTT task is at pc and nobody else holds the API lock.
At(pc) == mqttPc = pc /\ dispatching = "none"

\* esp_mqtt_abort_connection up to the event it dispatches, in whatever thread
\* ran into the failed write; the broker drops the clean session. The handle is
\* still there: threads that do not take the lock see it.
AbortConnection ==
  /\ state' = "WAIT_RECONNECT" /\ conn' = "none" /\ subs' = {} /\ inbox' = <<>>
  /\ dispatching' = "DISCONNECTED"

\* Mutant: the handler of DISCONNECTED keeps the handle.
OnMqttDisconnectedKeepsHandle == dispatching' = "none" /\ UNCHANGED s_mqtt_client

\* ... and the rest of it: the DISCONNECTED handler, in the same thread.
OnMqttDisconnected == dispatching' = "none" /\ s_mqtt_client' = "NULL"

WriteCanFail == conn # "alive" \/ link # "up"

\* esp_mqtt_client_publish: the message is queued in any state, written in
\* CONNECTED, and a failed write aborts the connection; arrived is the inbox
\* when the broker takes the message.
Publish(arrived) ==
  \/ inbox' = arrived /\ UNCHANGED <<state, conn, dispatching, subs>>
  \/ state = "CONNECTED" /\ WriteCanFail /\ AbortConnection

\* publish_ota_status in the MQTT task, which holds the lock throughout; the
\* Wi-Fi handler may take the handle away between its two reads, which drops
\* the status as if it had come before both.
PublishOtaStatus(rest, log) ==
  \/ /\ s_mqtt_client = "NULL"
     /\ inbox' = rest /\ UNCHANGED <<state, conn, dispatching, subs, reported>>
  \/ /\ s_mqtt_client # "NULL"
     /\ Publish(rest) /\ reported' = log

Report(j, status) == [job |-> j, rank |-> Rank[status]]

\* The broker sends the device what it publishes under Metrics/+/<device_id>.
Echo(queue) ==
  IF "metrics" \in subs /\ conn = "alive" THEN Append(queue, "json") ELSE queue

\* MQTT_STATE_INIT: the transport or CONNACK fails, and the connection aborts.
ConnectFails ==
  /\ state = "INIT" /\ At("loop")
  /\ IF link = "up" THEN Fault ELSE UNCHANGED faults
  /\ AbortConnection
  /\ UNCHANGED <<wifiVars, mainPc, s_mqtt_client, mqttPc, otaVars, reported, imageVars, sent>>

\* ... or there is no transport, for want of memory or of the scheme: the task
\* ends its loop, and nothing starts it again.
TransportFails ==
  /\ state = "INIT" /\ At("loop")
  /\ state' = "DISCONNECTED"
  /\ UNCHANGED <<wifiVars, mainPc, s_mqtt_client, conn, dispatching, subs, inbox, mqttPc, otaVars,
                 reported, imageVars, envVars>>

\* The CONNECTED handler stores the handle, then subscribes twice (a subscribe
\* whose write fails is only retransmitted later), then publishes "online",
\* where a failed write aborts the connection just announced.
OnConnected ==
  /\ s_mqtt_client' = "client"
  /\ \/ /\ state' = "CONNECTED" /\ conn' = "alive" /\ UNCHANGED dispatching
        /\ \/ subs' = Topics /\ UNCHANGED faults
           \/ subs' \in SUBSET Topics /\ Fault
        /\ inbox' = IF "metrics" \in subs' THEN <<"json">> ELSE <<>>
     \/ Fault /\ AbortConnection

ConnectSucceeds ==
  /\ state = "INIT" /\ At("loop") /\ link = "up"
  /\ OnConnected
  /\ UNCHANGED <<wifiVars, mainPc, mqttPc, otaVars, reported, imageVars, sent>>

\* Mutant: a SUBSCRIBE whose write failed is forgotten.
NoResubscribe == FALSE /\ UNCHANGED vars

\* The task retransmits a SUBSCRIBE that was not acknowledged.
Resubscribe ==
  /\ state = "CONNECTED" /\ At("loop") /\ conn = "alive" /\ link = "up"
  /\ \E topic \in Topics \ subs : subs' = subs \cup {topic}
  /\ UNCHANGED <<wifiVars, mainPc, s_mqtt_client, state, conn, dispatching, inbox, mqttPc, otaVars,
                 reported, imageVars, envVars>>

\* Keepalive, a read or a write of the task finds the session dead.
TaskAborts ==
  /\ state = "CONNECTED" /\ At("loop") /\ WriteCanFail
  /\ AbortConnection
  /\ UNCHANGED <<wifiVars, mainPc, s_mqtt_client, mqttPc, otaVars, reported, imageVars, envVars>>

\* The MQTT task's aborts end in the handler, before the task does anything else.
DisconnectedHandled ==
  /\ dispatching = "DISCONNECTED" /\ \A t \in Tasks : otaPc[t] # "abort"
  /\ OnMqttDisconnected
  /\ UNCHANGED <<wifiVars, mainPc, state, conn, subs, inbox, mqttPc, otaVars, reported, imageVars,
                 envVars>>

\* MQTT_STATE_WAIT_RECONNECT: at once, the handler having forced a reconnect.
Reconnects ==
  /\ state = "WAIT_RECONNECT" /\ At("loop")
  /\ state' = "INIT"
  /\ UNCHANGED <<wifiVars, mainPc, s_mqtt_client, conn, dispatching, subs, inbox, mqttPc, otaVars,
                 reported, imageVars, envVars>>

-------------------------------------------------------------------------------
(* mqtt: the DATA handler, then the PUBACK.                                  *)

Receive(msgs) ==
  /\ state = "CONNECTED" /\ At("loop") /\ inbox # <<>> /\ Head(inbox) \in msgs

\* handle_metrics_topic answers a request on the topic it came from, if it has
\* the client's handle.
OnRequest ==
  /\ Receive({"request"})
  /\ mqttPc' = "puback"
  /\ \/ /\ s_mqtt_client = "NULL"
        /\ inbox' = Tail(inbox) /\ UNCHANGED <<state, conn, dispatching, subs>>
     \/ /\ s_mqtt_client # "NULL"
        /\ Publish(Echo(Tail(inbox)))
  /\ UNCHANGED <<wifiVars, mainPc, s_mqtt_client, otaVars, reported, imageVars, envVars>>

\* Mutant: a JSON payload is answered like a request.
OnJsonAnswered ==
  /\ Receive({"json"})
  /\ mqttPc' = "puback" /\ inbox' = Echo(Tail(inbox))
  /\ UNCHANGED <<wifiVars, mainPc, s_mqtt_client, state, conn, dispatching, subs, otaVars, reported,
                 imageVars, envVars>>

\* A JSON payload is a reply, the device's own included: no answer.
OnJson ==
  /\ Receive({"json"})
  /\ mqttPc' = "puback" /\ inbox' = Tail(inbox)
  /\ UNCHANGED <<wifiVars, mainPc, s_mqtt_client, state, conn, dispatching, subs, otaVars, reported,
                 imageVars, envVars>>

\* handle_ota_topic while the flag is set, or without memory for the job, or
\* with a payload that is not an https URL: "busy" or "failed" is published.
OnCommandRefused ==
  /\ Receive({"command", "badCommand"})
  /\ mqttPc' = "puback"
  /\ PublishOtaStatus(Tail(inbox), reported)
  /\ UNCHANGED <<wifiVars, mainPc, s_mqtt_client, otaVars, imageVars, envVars>>

\* ... otherwise the flag is set,
OnCommandAccepted ==
  /\ Receive({"command"}) /\ ~s_ota_in_progress
  /\ mqttPc' = "accept" /\ inbox' = Tail(inbox)
  /\ s_ota_in_progress' = TRUE /\ jobs' = jobs + 1
  /\ UNCHANGED <<wifiVars, mainPc, s_mqtt_client, state, conn, dispatching, subs, taskVars, reported,
                 imageVars, envVars>>

\* "accepted" is published,
AcceptReported ==
  /\ At("accept") /\ mqttPc' = "create"
  /\ PublishOtaStatus(inbox, Report(jobs, "accepted"))
  /\ UNCHANGED <<wifiVars, mainPc, s_mqtt_client, otaVars, imageVars, envVars>>

\* and the task is created; a task that cannot be created takes the flag back
TaskCreated(t) ==
  /\ At("create") /\ otaPc[t] = "free"
  /\ mqttPc' = "puback"
  /\ otaPc' = [otaPc EXCEPT ![t] = "check"]
  /\ otaStatus' = [otaStatus EXCEPT ![t] = "downloading"]
  /\ otaJob' = [otaJob EXCEPT ![t] = jobs]
  /\ UNCHANGED <<wifiVars, mainPc, s_mqtt_client, sessionVars, s_ota_in_progress, jobs, reported,
                 imageVars, envVars>>

\* (mutant: it leaves the flag set)
TaskNotCreatedKeepsFlag ==
  /\ At("create") /\ mqttPc' = "createFailed"
  /\ UNCHANGED <<wifiVars, mainPc, s_mqtt_client, sessionVars, otaVars, reported, imageVars, envVars>>

TaskNotCreated ==
  /\ At("create") /\ mqttPc' = "createFailed"
  /\ s_ota_in_progress' = FALSE
  /\ UNCHANGED <<wifiVars, mainPc, s_mqtt_client, sessionVars, taskVars, jobs, reported, imageVars,
                 envVars>>

\* before its failure is published.
NotCreatedReported ==
  /\ At("createFailed") /\ mqttPc' = "puback"
  /\ PublishOtaStatus(inbox, Report(jobs, "failed"))
  /\ UNCHANGED <<wifiVars, mainPc, s_mqtt_client, otaVars, imageVars, envVars>>

\* mqtt_process_receive acknowledges; a failed write (after an abort inside the
\* handler: always) aborts, so the DISCONNECTED handler may run a second time.
Acknowledge ==
  /\ At("puback") /\ mqttPc' = "loop"
  /\ \/ state = "CONNECTED" /\ UNCHANGED sessionVars
     \/ (state # "CONNECTED" \/ WriteCanFail) /\ AbortConnection
  /\ UNCHANGED <<wifiVars, mainPc, s_mqtt_client, otaVars, reported, imageVars, envVars>>

Session ==
  \/ ConnectFails \/ TransportFails \/ ConnectSucceeds
  \/ Resubscribe \/ TaskAborts \/ DisconnectedHandled \/ Reconnects
Data ==
  \/ OnRequest \/ OnJson \/ OnCommandRefused \/ OnCommandAccepted \/ AcceptReported
  \/ \E t \in Tasks : TaskCreated(t)
  \/ TaskNotCreated \/ NotCreatedReported \/ Acknowledge

-------------------------------------------------------------------------------
(* OTA: ota_update_task.                                                     *)

\* Mutant: the task falls through to its clean-up instead of restarting.
AfterReportNoRestart == [downloading |-> "download", applied |-> "clear", failed |-> "clear"]

\* Where the task goes on after publish_ota_status.
AfterReport == [downloading |-> "download", applied |-> "delay", failed |-> "clear"]

\* publish_ota_status tests the handle without a lock and drops the status ...
StatusDropped(t) ==
  /\ otaPc[t] = "check" /\ s_mqtt_client = "NULL"
  /\ otaPc' = [otaPc EXCEPT ![t] = AfterReport[otaStatus[t]]]
  /\ UNCHANGED <<wifiVars, mainPc, s_mqtt_client, sessionVars, mqttPc, s_ota_in_progress, otaStatus,
                 otaJob, jobs, reported, imageVars, envVars>>

\* ... or goes on,
StatusChecked(t) ==
  /\ otaPc[t] = "check" /\ s_mqtt_client # "NULL"
  /\ otaPc' = [otaPc EXCEPT ![t] = "pass"]
  /\ UNCHANGED <<wifiVars, mainPc, s_mqtt_client, sessionVars, mqttPc, s_ota_in_progress, otaStatus,
                 otaJob, jobs, reported, imageVars, envVars>>

\* reads the handle again for the call, which refuses one that is NULL by now,
HandlePassed(t) ==
  /\ otaPc[t] = "pass"
  /\ otaPc' = [otaPc EXCEPT ![t] =
                 IF s_mqtt_client = "NULL" THEN AfterReport[otaStatus[t]] ELSE "publish"]
  /\ UNCHANGED <<wifiVars, mainPc, s_mqtt_client, sessionVars, mqttPc, s_ota_in_progress, otaStatus,
                 otaJob, jobs, reported, imageVars, envVars>>

\* and waits for the lock in it: by then the session may be gone, or its write
\* fail, so that this task runs the DISCONNECTED handler.
StatusPublished(t) ==
  /\ otaPc[t] = "publish" /\ At("loop")
  /\ Publish(inbox)
  /\ otaPc' = [otaPc EXCEPT ![t] =
                 IF dispatching' = "none" THEN AfterReport[otaStatus[t]] ELSE "abort"]
  /\ reported' = Report(otaJob[t], otaStatus[t])
  /\ UNCHANGED <<wifiVars, mainPc, s_mqtt_client, mqttPc, s_ota_in_progress, otaStatus, otaJob, jobs,
                 imageVars, envVars>>

StatusAborted(t) ==
  /\ otaPc[t] = "abort"
  /\ OnMqttDisconnected
  /\ otaPc' = [otaPc EXCEPT ![t] = AfterReport[otaStatus[t]]]
  /\ UNCHANGED <<wifiVars, mainPc, state, conn, subs, inbox, mqttPc, s_ota_in_progress, otaStatus,
                 otaJob, jobs, reported, imageVars, envVars>>

\* esp_https_ota (external) writes the other slot and makes it the boot slot.
DownloadSucceeds(t) ==
  /\ otaPc[t] = "download" /\ link = "up"
  /\ bootSlot' = otaJob[t]
  /\ otaPc' = [otaPc EXCEPT ![t] = "check"]
  /\ otaStatus' = [otaStatus EXCEPT ![t] = "applied"]
  /\ UNCHANGED <<wifiVars, mainPc, s_mqtt_client, sessionVars, mqttPc, s_ota_in_progress, otaJob,
                 jobs, reported, running, envVars>>

\* (mutant: the flag is cleared before "failed" is reported)
DownloadFailsClearsFirst(t) ==
  /\ otaPc[t] = "download"
  /\ otaPc' = [otaPc EXCEPT ![t] = "check"]
  /\ otaStatus' = [otaStatus EXCEPT ![t] = "failed"]
  /\ s_ota_in_progress' = FALSE
  /\ UNCHANGED <<wifiVars, mainPc, s_mqtt_client, sessionVars, mqttPc, otaJob, jobs, reported,
                 imageVars, envVars>>

DownloadFails(t) ==
  /\ otaPc[t] = "download"
  /\ otaPc' = [otaPc EXCEPT ![t] = "check"]
  /\ otaStatus' = [otaStatus EXCEPT ![t] = "failed"]
  /\ UNCHANGED <<wifiVars, mainPc, s_mqtt_client, sessionVars, mqttPc, s_ota_in_progress, otaJob,
                 jobs, reported, imageVars, envVars>>

\* After "applied" and a second's delay, esp_restart; the flag stays set.
Restart(t) ==
  /\ otaPc[t] = "delay"
  /\ Reset /\ UNCHANGED faults

\* After "failed" the flag is cleared, the task freed and deleted.
FlagCleared(t) ==
  /\ otaPc[t] = "clear"
  /\ s_ota_in_progress' = FALSE
  /\ otaPc' = [otaPc EXCEPT ![t] = "exit"]
  /\ UNCHANGED <<wifiVars, mainPc, s_mqtt_client, sessionVars, mqttPc, otaStatus, otaJob, jobs,
                 reported, imageVars, envVars>>

TaskDeleted(t) ==
  /\ otaPc[t] = "exit"
  /\ otaPc' = [otaPc EXCEPT ![t] = "free"]
  /\ UNCHANGED <<wifiVars, mainPc, s_mqtt_client, sessionVars, mqttPc, s_ota_in_progress, otaStatus,
                 otaJob, jobs, reported, imageVars, envVars>>

Ota(t) ==
  \/ StatusDropped(t) \/ StatusChecked(t) \/ HandlePassed(t)
  \/ StatusPublished(t) \/ StatusAborted(t)
  \/ DownloadSucceeds(t) \/ DownloadFails(t) \/ Restart(t) \/ FlagCleared(t) \/ TaskDeleted(t)

-------------------------------------------------------------------------------
(* Hosts and the network (external).                                         *)

Topic == [request |-> "metrics", json |-> "metrics", command |-> "ota", badCommand |-> "ota"]

HostSends(m) ==
  /\ sent < MaxSends /\ Len(inbox) < MaxInbox
  /\ conn = "alive" /\ link = "up" /\ Topic[m] \in subs
  /\ inbox' = Append(inbox, m) /\ sent' = sent + 1
  /\ UNCHANGED <<wifiVars, mainPc, s_mqtt_client, state, conn, dispatching, subs, mqttPc, otaVars,
                 reported, imageVars, faults>>

SessionDies ==
  /\ conn = "alive" /\ Fault
  /\ conn' = "dead"
  /\ UNCHANGED <<wifiVars, mainPc, s_mqtt_client, state, dispatching, subs, inbox, mqttPc, otaVars,
                 reported, imageVars, sent>>

-------------------------------------------------------------------------------
Next ==
  \/ Driver \/ WifiHandler \/ Main \/ Session \/ Data
  \/ \E t \in Tasks : Ota(t)
  \/ \E m \in HostMsgs : HostSends(m)
  \/ SessionDies \/ PowerCycle

Spec == Init /\ [][Next]_vars

\* Every task of the firmware runs when it can, and the driver answers. A task
\* that waits for the API lock gets it in the end (a FreeRTOS mutex, between
\* tasks of one priority, free while the MQTT task polls): strong fairness,
\* because the MQTT task takes it again and again. Nothing is assumed of hosts
\* or faults; the bound on faults says they end.
Fairness ==
  /\ WF_vars(Joins) /\ WF_vars(DhcpBinds) /\ WF_vars(WifiHandler) /\ WF_vars(Main)
  /\ WF_vars(Session) /\ WF_vars(Resubscribe) /\ WF_vars(Data)
  /\ \A t \in Tasks : WF_vars(Ota(t)) /\ SF_vars(StatusPublished(t))

FairSpec == Spec /\ Fairness

-------------------------------------------------------------------------------
(* Correctness.                                                              *)

\* A task between its creation and the moment it gives the flag back.
Busy(t) == otaPc[t] \in {"check", "pass", "publish", "abort", "download", "delay", "clear"}

\* connectivity.c:363, 378, 354, 383: at most one update task is at work, however
\* the handler's unlocked read of s_ota_in_progress, the task's late clearing of
\* it and the creation of tasks interleave; and the flag is set exactly while
\* one is, or is about to be created. (A task that is only freeing its job may
\* still be alive beside the next one.)
OneUpdate ==
  /\ \A t, u \in Tasks : Busy(t) /\ Busy(u) => t = u
  /\ s_ota_in_progress <=> (\E t \in Tasks : Busy(t)) \/ mqttPc \in {"accept", "create"}
  /\ mqttPc \in {"accept", "create"} => \A t \in Tasks : ~Busy(t)

\* connectivity.c:429, 461 and mqtt_client.c:849-861: a thread that holds the
\* API lock finds the handle of a connected client or none, although the OTA
\* task's failed write and the Wi-Fi handler take it away from other threads, and
\* a write inside the CONNECTED handler can abort the connection it announces.
\* Without the lock (connectivity.c:94) a handle that has lost its session is
\* seen too, but only inside an abort.
HandleIsConnected ==
  s_mqtt_client = "client" =>
    /\ mainPc = "done"
    /\ IF dispatching = "none" THEN state = "CONNECTED" ELSE state = "WAIT_RECONNECT"

\* connectivity.c:404-410, 513-525: the handler gives up after exactly
\* MaxRetries + 1 attempts and never after an address was obtained; once it has,
\* nothing revives the station and the MQTT client is never started, so that
\* app_main's verdict cannot be contradicted later.
GiveUpIsFinal ==
  /\ joins <= MaxRetries + 1
  /\ "FAIL" \in s_wifi_event_group =>
       /\ joins = MaxRetries + 1
       /\ "CONNECTED" \notin s_wifi_event_group
       /\ link = "down" /\ evtQ = <<>>
       /\ state = "NONE" /\ mainPc \in {"wait", "returned"}

\* connectivity.c:332-354, 379-385: what is handed to the MQTT client on
\* OTA/status is in the order of the transitions README.md:46 lists, across the
\* threads that report and from one job to the next; reports may be missing.
StatusOrder == [][reported' # reported => Later(reported', reported)]_vars

\* connectivity.c:347-355: the flag survives a successful update, so that no
\* other command replaces the image before the device restarts into it.
InstalledIsBooted == [][bootSlot' # bootSlot => bootSlot = running /\ bootSlot' = jobs]_vars

\* The updates are those of OtaService.
Phase ==
  IF ~s_ota_in_progress THEN "idle"
  ELSE IF mqttPc \in {"accept", "create"} THEN "accepted"
  ELSE IF bootSlot # running THEN "applied" ELSE "updating"

Service == INSTANCE OtaService WITH phase <- Phase, job <- jobs, slot <- bootSlot

\* The interleaved firmware implements the one-at-a-time service.
ImplementsService == Service!Spec

\* connectivity.c:359, 378: an accepted update ends in a restart or with the
\* flag cleared; it cannot lock later commands out for good.
UpdateEnds == s_ota_in_progress ~> ~s_ota_in_progress

\* README.md:33: the device receives its own replies and its own "online" on
\* the topics it answers, and this must not feed on itself: when hosts have
\* nothing more to say the traffic dies out.
NoFeedback == []<>(inbox = <<>>)

\* README.md:55: after the last fault the device is connected and subscribed
\* again, unless app_main gave up at boot or the MQTT task found no transport.
SessionRecovers ==
  <>[](mainPc = "returned" \/ state = "DISCONNECTED" \/ (state = "CONNECTED" /\ subs = Topics))

\* README.md:32: "The device subscribes to Metrics/+/<device_id> and replies on
\* the same topic". A device that stays connected and subscribed must have, time
\* and again, the handle without which it replies to nothing.
RepliesWhileConnected ==
  <>[](state = "CONNECTED" /\ conn = "alive" /\ link = "up") => []<>(s_mqtt_client = "client")
===============================================================================
