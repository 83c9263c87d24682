# Interactive MQTT sensor: TLA+ models and proofs

The repository is the firmware of an ESP32-S3 board (ESP-IDF) that joins a Wi-Fi network, connects to
an MQTT broker, answers metric requests with readings of an AHT20 and a BMP280, and updates itself over
the air on a command it receives over MQTT. This directory holds TLA+ modules of its own code (`src/main`)
and of the MQTT client it is built with (`src/managed_components/espressif__mqtt`), TLC configurations
that check them on small instances, and TLAPS proofs that hold for every instance.

`PROJECT.json` lists the components, the runs, the theorems, a hazard list, and, for every definition that
models code, the lines it models.

    tlc -config ota.cfg MCConnectivity.tla      # check one run
    tlapm ConnectivityProofs.tla                # check the proofs of a module

## 1. The system

### Variant of the code

`src/sdkconfig` fixes what is compiled: MQTT 3.1.1 (`CONFIG_MQTT_PROTOCOL_5` is not set), random message identifiers
(`MQTT_MSG_ID_INCREMENTAL` not set), publishes are kept when disconnected (`SKIP_PUBLISH_IF_DISCONNECTED` not set), no
report of expired messages, the list outbox of the library, a panic restarts the device, no application rollback, 100
ticks a second. The models are of that variant; `Codec` and `Packets` also have version 5 of the protocol, as the
component would build it, and `Lifecycle` the calls the firmware itself does not make.

### Threads

| thread | code | holds |
|---|---|---|
| `main` | `app_main`: settings, sensors, `wifi_init_sta` (waits for a verdict), `mqtt_start` | nothing |
| `sys_evt` | the default event loop; runs `wifi_event_handler` | nothing |
| MQTT task | `esp_mqtt_task`; runs `mqtt_event_handler` synchronously | the client's recursive API lock, from one poll of the socket to the next |
| OTA task | `ota_update_task`, one per accepted command | the API lock inside `esp_mqtt_client_publish` only |

They share `s_mqtt_client` and `s_ota_in_progress` (connectivity.c:39-44) **without any lock**, and the MQTT
client behind its API lock.

### Components

| component | state | operations | talks to |
|---|---|---|---|
| Boot and settings (`interactive_mqtt_sensor_main.c`, `app_config.c`) | the settings blob in NVS, `user_cfg`, the dialogue's position and unread console input, GPIO4 | look at the button, erase, load, ask, save, go on | NVS, console, button; calls Wi-Fi and MQTT start |
| Wi-Fi station (`connectivity.c:391-419, 472-526`) | retry counter, connected-once flag, event group; the driver's link | STA_START, DISCONNECTED, GOT_IP, wait for the verdict | driver events on the default loop; clears `s_mqtt_client` |
| MQTT event handler (`connectivity.c:46-326, 361-389, 421-470`) | `s_mqtt_client`, `s_ota_in_progress` | CONNECTED (store the handle, subscribe twice, announce), DATA (answer a metric request; accept or refuse an OTA command), DISCONNECTED | called by the MQTT task; calls the client's API back; creates OTA tasks |
| OTA task (`connectivity.c:328-359`) | its job, `s_ota_in_progress`, the boot slot | report, download, report, restart or clear the flag | HTTPS server, otadata, the client's API |
| MQTT client (`mqtt_client.c`) | `state`, outbox, `wait_for_ping_resp`, timers | publish, enqueue, subscribe, unsubscribe; connect, receive, retransmit, keepalive, abort, reconnect | broker, over a transport that dies silently; dispatches events |
| Its life (`mqtt_client.c:863-947, 1650-1958`) | `run`, `state`, `task_handle`, three event bits | start, stop, destroy by the owner; disconnect, reconnect by anyone | the task it creates, without a common lock |
| Stream reader (`mqtt_client.c:1081-1171, 1255-1387`) | `in_buffer`, `in_buffer_read_len` | continue a packet, hand over a long payload in parts | transport below, reception above |
| Outbox (`mqtt_outbox.c`) | list of items: identifier, type, QoS, pending state | enqueue, get, dequeue, set pending, delete, expire | the client |
| Message codec (`mqtt_msg.c`, `mqtt5_msg.c`) | the buffer and `outbound_message`, whose length and offset of a fragmented publish outlive the call | build, identify, take apart | the client |
| Payload parsing (`connectivity.c:66-263`) | none | request or not, which metric, which URL | the event handler |
| Sensors (`sensors.c`) | I2C handles, calibration, `t_fine` of the last temperature | init, four readings: command, sleep, fetch | two sensors that convert in their own time; called by the MQTT task |
| MQTT 5 client (`mqtt5_client.c`) | topic aliases of the broker, properties to send | get publish data, set properties | the client; not in the build |
| Tests, examples | - | - | not in the build |

### What is hard, and what makes each part correct

The full list, with lines, is `hazards` in `PROJECT.json`. In short:

* **Shared statics without a lock.** `publish_ota_status` tests the client's handle and uses it in a second
  read, while two other threads may clear it; the OTA flag is tested, set and cleared in two threads, and
  the task that clears it lives on. *Correct:* who holds the API lock finds the handle of a connected client
  or none (without the lock, the handle of one just being aborted may be seen as well); at most one update is at work
  and the flag says so; statuses leave the device in the order of the transitions, across threads and jobs.
* **Aborts inside handlers.** A failing write inside the CONNECTED or DATA handler aborts the connection
  the handler is working for, which dispatches DISCONNECTED from inside it. *Correct:* the same, and the
  session recovers.
* **Images and restarts.** Between download and restart the new image is installed and not running, and
  power may fail. *Correct:* it is booted before another command replaces it; an update always ends.
* **Wi-Fi retries** that are counted before the first address and unlimited after it. *Correct:* exactly
  `MAX_WIFI_RETRIES + 1` attempts, and nothing contradicts the verdict later.
* **At-least-once delivery over sessions that die unnoticed**: acknowledgements late, lost or for items that expired;
  repeats with DUP; the QoS 2 handshake half done; only the head of the outbox repeated. *Correct:* acknowledged means
  delivered; a message is kept once until it is acknowledged or expires; DUP on what may be a repeat; QoS 2 taken once
  per session; with a session that holds, the outbox drains.
* **A stream cut anywhere.** A packet that arrives in pieces is resumed from the buffer alone. *Correct:*
  each message is handled with its own bytes and no others; a topic handed over is whole; a half message cannot hold
  the task.
* **Power cuts and panics during set-up.** *Correct:* what is stored for a field is the answer to its prompt, or what
  did not fit into the fields just before it; a device on the network runs with what its next boot will load, and that
  boot needs no user.
* **Topics and payloads taken apart by hand**, with searches and lengths, in fixed arrays. *Correct:* exactly
  the documented requests are answered, and a job has exactly the URL that was meant, whole.
* **Readings by the clock.** A sensor's registers are fetched after a sleep, ready or not. *Correct:* a value is of
  one measurement, the one asked for; at worst, of the reading before.
* **One buffer for every packet.** What a publish in fragments leaves in `outbound_message` meets the next
  packet, of any kind and session. *Correct:* every packet has the bytes its header announces, every publish its
  payload whole and in order, on the wire and in the outbox (but for what follows a large message that the outbox
  refused: finding 4).
* **State older than the session**: topic aliases, a changed maximum. *Correct:* a message is delivered under the
  topic the broker meant.
* **A task and its client** that start, stop and are freed with flags set in different orders, some with and some
  without the lock. *Correct:* one task at most; none that uses the client after a stop; no attempt to connect when
  nothing was asked since the last one; accepted calls take effect. All that holds until an owner meets the task just
  starting or ending by itself.
* **The device hears itself**: it subscribes to the topics it replies on. *Correct:* traffic dies out.

## 2. Modules

| module | models | lines of source |
|---|---|---|
| `OtaService` | abstract: what is promised of updates, one at a time, an installed image is booted next | README.md:36-47, the flag in connectivity.c |
| `Connectivity` | `connectivity.c` with its four threads; the MQTT client seen through its API; driver, broker, hosts, power | connectivity.c:39-573 |
| `ConnectivityProofs` | theorems of `Connectivity` | |
| `Outbox` | the outbox as operators on a sequence of items | mqtt_outbox.c |
| `Delivery` | abstract: what is promised of a message handed to the client | |
| `MqttClient` | the client's API, task loop, receptions, retransmission, keepalive; broker and sessions | mqtt_client.c:699-861, 1217-1242, 1364-1843, 1976-2316 |
| `Framing` | the stream reader | mqtt_client.c:45-73, 1081-1171, 1255-1387 |
| `Payloads` | what topics and payloads of a DATA event mean | connectivity.c |
| `Hosts` | hosts, broker and the DATA handler; what was meant against what was understood | connectivity.c |
| `Boot` | `app_main`, settings, dialogue, reset button, boot after boot | main.c, app_config.c |
| `Sensors` | the sensors' set-up and readings against their conversions and the tick; composed by `Boot` | sensors.c |
| `Codec` | the packets as fields and lengths, for both versions, and what is found in a PUBLISH | mqtt_msg.c, mqtt5_msg.c |
| `Packets` | one client building, keeping, sending and receiving them, over `Codec` | mqtt_client.c, mqtt5_client.c |
| `Lifecycle` | start, stop, destroy, disconnect, reconnect against the client's task | mqtt_client.c:863-947, 1037-1079, 1650-1958 |
| `LifecycleProofs` | theorems of `Lifecycle` | |
| `MqttClientProofs` | lemmas on the outbox's operators; theorems of `MqttClient` for any identifiers | |
| `DeliveryProofs` | theorems of `MqttClient` for identifiers that differ; the refinement of `Delivery` | |
| `FramingProofs` | theorems of `Framing` | |
| `BootProofs` | theorems of `Boot` and `Sensors` | |
| `PacketsProofs` | theorems of `Packets` and lemmas on `Codec` | |
| `HostsProofs` | theorems of `Hosts`, and what every operator of `Payloads` makes of any text | |
| `MC*` | constants of the runs | |

### Connectivity

Each variable has the name of the static or local it models; `link`, `conn`, `subs`, `inbox` are the state of driver,
TCP session, broker and network. A program counter per thread (`mainPc`, `mqttPc`, `otaPc[t]`) splits a handler
exactly where another thread can come in between: at the publishes (which take the lock), between the OTA task's two
reads of `s_mqtt_client` and its publish, inside an abort, and around the creation of the task. Runs of statements
that only touch what their own thread or the lock protects are one action.

* `OnStaStart`, `OnDisconnected`, `OnGotIp` are the branches of `wifi_event_handler`; `WaitEnds`, `MqttStart` are
  `app_main`'s continuation.
* `Publish` is `esp_mqtt_client_publish` with its three outcomes (queued only, written, write fails and aborts), used
  by every handler that publishes. `AbortConnection` is the abort up to the event it dispatches; from there on
  `dispatching` is set, the lock is taken, and the handle is still there for those who do not ask for the lock.
  `DisconnectedHandled`, or `StatusAborted` when it was an OTA task's write that failed, runs the handler
  (`OnMqttDisconnected`) and ends the abort.
* `OnConnected` is the whole CONNECTED handler, the publish at its end failing included.
* `OnCommandAccepted`, `AcceptReported`, `TaskCreated` / `TaskNotCreated`, `NotCreatedReported`: the steps of
  `handle_ota_topic`. `StatusDropped`, `StatusChecked`, `HandlePassed`, `StatusPublished`, `StatusAborted`,
  `DownloadSucceeds`, `DownloadFails`, `Restart`, `FlagCleared`, `TaskDeleted`: those of the OTA task. `StatusChecked`
  is the first read of the handle, `HandlePassed` the second, as the argument of the publish, which refuses a NULL;
  `StatusPublished` is what follows under the lock.
* A payload is its class: `request`, `json`, `command` (an acceptable https URL), `badCommand`.
* `PowerCycle` loses the RAM; `bootSlot` and `running` survive as otadata and the flashed images do.

### MqttClient, Outbox, Delivery

The outbox is a sequence of items (message, identifier, type, QoS, pending state); its operators act on the *first*
item with an identifier, as the list does. The API lock is free exactly when the task's `pc` is `"poll"`, or when the
task has left its loop (`"leaving"`, until `LoopEnds` has emptied the outbox and set the state) or ended; handlers run
by the task call the same API (`MayCall`). One turn of the loop is `Lock`/`Connects`/... , then a reception
(`Process`), then retransmission (`Outgoing`), then `Keepalive`. The session is `alive`, `dead` (a silent failure:
writes succeed and are lost, until TCP or the keepalive notices) or `none`. The broker takes packets in order, may
answer late, forgets the clean session. Time is a choice: whether a timeout has elapsed is nondeterministic, so every
schedule of the timers is covered. `Draw[m]` is the set of identifiers the random generator may give to a message:
disjoint sets for the runs about delivery, equal ones for the run about collisions.

`KeepsPromise` is the refinement: with `status` and `delivered`, `MqttClient` implements `Delivery`.

### Framing

The stream is a sequence of packets, each with the length of its fixed header and of all its headers, whether it
carries an identifier, and the set of positions whose byte has its top bit set: this is all the reader branches on.
Every read returns any number of bytes up to what was asked for and what has arrived, or times out. `read_len` is
`in_buffer_read_len`; the local `buf - 1` of the C code is the last position taken. The loop over the remaining
length, the special treatment of a PUBLISH larger than the buffer, and the rule "an error only when nothing came since
the call before" are kept as they are. So is the comparison of the headers with the buffer, which leaves the two bytes
of the topic's length out (`AfterLength`): headers one and two bytes longer than the buffer get through, and `Process`
sees what `deliver_publish` makes of a topic that is not all there (`NoTopic`). `AnswerFails` is the abort after a
refused SUBACK or an answer that cannot be written. A payload that pauses past the timeout is counted by `stalls`.
When the reader is out of step with the stream the model stops: from there on the bytes mean anything.

### Boot

An answer is the prompt it was typed at and its length; `fgets` takes what fits, newline included, and leaves the rest
on stdin for the next prompts, which take it for their answers: a line too long for its field reaches the fields
behind. Every call that can fail either panics (`ESP_ERROR_CHECK`) or is handled as the code does. Wi-Fi and MQTT
start are their outcome. `Restart` may come between any two steps. Once the device is on the network, `Measure` reads
sensors, as the MQTT task does on request.

### Sensors

A reading is `StartReading`, a sleep and `Fetch`; in between, the tick (`Tick`) and the sensor (`EndOfConversion`) go
on. `vTaskDelay(n)` ends with the n-th tick, so it sleeps up to a tick less than n ticks, and the conversion of
`Longest` ms sees `Spans(Longest)` ticks at most. A value is the number of the reading whose conversion measured it;
the calculations are left out but for `t_fine`, which carries a temperature from one calculation to the next. A sensor
that gets a command while it converts starts again afterwards, or, the AHT20, may ignore it. A restart of the device
takes the power from the sensors or does not.

### Codec, Packets

A packet is a sequence of fields, each a name and a length: what the code appends, in its order. `FiniMessage` is
`fini_message` of both files: the length announced is that of the body, or the `total` of a publish in fragments.
`Packets` has the calls that build packets, each one step under the API lock, except that every write of a publish in
fragments is one (`sending`). An item of the outbox keeps its bytes as `written`, `says` and the parts of the payload
(`chunks`), computed as `mqtt_client_enqueue_publish` computes them. Any write may fail, and the outbox may refuse any
message of `Unkept` (`NotEnqueued`), small or large; `left` remembers that a large one left its total in
`outbound_message`, until that and all that was built meanwhile is gone. `Receive` puts a PUBLISH through the getters
of the version, which see the input buffer only, and through the aliases; the broker's table of aliases begins empty
in every session, the client's does not.

### Lifecycle

`run`, `state`, `status_bits` and `task_handle` are the client's; `task[t]` is where a task is in `esp_mqtt_task`, one
step per statement where no lock is held (`SetRun`, `SetState`, `ClearStopped`, `CloseTransport`, `SetDisconnected`,
`SetStopped`) and one per turn of the loop where it is held, except that connecting takes time. `Dispatch` lets a
handler set the bits. The owner's stop and destroy wait as the code does, at any time: the history `hasty` notes when
one of them, or a second start, meets a task that nothing has told the owner of (`Unsettled`: it has not set `run`,
has not cleared the bit of the run before, or ends by itself). Messages are `MqttClient`'s.

### Payloads, Hosts

`Payloads` has one operator per parsing function, with the function's name and the same searches: `Strchr`,
`StrstrQuoted` and `SubSeq` for the C library's calls, `<<>>` for false. Texts are sequences in which a word that
the code compares only as a whole is one character; array sizes are constants. `Hosts` is the other side: it
puts topics together from levels and commands from JSON objects, remembers what was meant, and hands the text to
`Data`, the handler's DATA branch, one event at a time; an answer comes back as an event, since the device is
subscribed to the topic it answers on. `Connectivity`'s message classes are the outcomes of `Data`.

## 3. Runs

| run | module | properties | shows |
|---|---|---|---|
| `ota` | MCConnectivity | TypeOK, OneUpdate, HandleIsConnected, GiveUpIsFinal, StatusOrder, InstalledIsBooted, ImplementsService, UpdateEnds, NoFeedback, SessionRecovers | two messages of hosts, two task slots, two faults (write, link, power), both reads of the handle and aborts in either thread: updates exclude each other, report in order, implement OtaService and end; the Wi-Fi verdict is final; the device comes back after the last fault |
| `mute` | MCConnectivity | RepliesWhileConnected (violated) | finding 1 |
| `mqtt` | MCMqttClient | TypeOK, KeptOnce, AcknowledgedIsDelivered, RepeatsAreFlagged, TakenOncePerSession, PingOfThisSession, KeepsPromise | a publish of each QoS, an inbound one, two faults |
| `mqttlive` | MCMqttClient | OutboxDrains, DeadIsNoticed | a QoS 2 publish and a subscription, one fault |
| `twins` | MCMqttClient | AcknowledgedIsDelivered (violated) | finding 2 |
| `framing` | MCFraming | TypeOK, WholeMessages, WithinBuffer, NoHalfMessage | seven packets around the buffer's size, every fragmentation, a payload that stalls, an answer that fails, two sessions |
| `split` | MCFraming | WholeMessages (violated) | finding 3 |
| `packets` | MCPackets | TypeOK, WholePublishes, ControlFramed, ConnectUnderstood, ReceivedAsMeant | both versions: every sequence of publishes of up to three buffers, subscriptions, failing writes and sessions, and of incoming messages with aliases |
| `leftover` | MCPackets | AnnouncesItself (violated) | finding 4 |
| `lifecycle` | MCLifecycle | TypeOK, Quiet, ConnectsAsAsked, CallsTakeEffect | an owner at any time, two threads, handlers and the network against the task, up to the owner's first call that is `hasty` |
| `boot` | MCBoot | TypeOK, TypedIsStored, RunsAsStored, NearlyFresh, BootsUnattended | three power cuts or failing calls over any number of boots; lines that are empty, fit, or run over into the next fields; three readings of each sensor |
| `payloads` | MCHosts | AnswersRequests, CommandsUnderstood, JobsHaveWholeUrls | every topic of up to four levels, flat JSON objects, plain URLs, short and cut-off texts |

Every property of a passing run has a mutant in `PROJECT.json`: a plausible slip in one definition, in the
module next to the definition it replaces, with which TLC finds the property violated.

### Bounds, and why they are enough

* `Connectivity`: `MaxRetries` 1 has a first attempt, a retry and the verdict; two task slots are what it takes for a
  task that is still freeing its job to meet the next one; two messages of hosts, two commands among them; two faults
  let a power cut or a lost link meet a failed write, and exhaust the retries. The safety properties of this module
  hold for every value of these constants by the theorems of section 5.
* `MqttClient`: one message of each QoS, since items only meet in the outbox through its order and the
  identifiers; two faults so that a session breaks before and after an acknowledgement; `Window` bounds the
  packets in flight when a timer sends one more, 2 being enough for a repeat to overtake nothing (channels are
  FIFO) yet arrive after the original. `MaxSends` 1 inbound message of the broker.
* `Framing`: `Buf` is 14 in the place of 1024; a PUBLISH of exactly 14 bytes, one of 133 (a remaining length of two
  bytes, ten parts), one with headers of 15 and one of 16 bytes (one and two more than the buffer, with an
  identifier), one of 16 without an identifier, so that its topic is cut off, 4- and 5-byte packets between them. A
  longer header, and a packet too large that is no PUBLISH, are given up before anything is read past the comparison;
  the theorems have both.
* `Boot`: three fields in the place of seven, two checked by the load and one that is not, each line of none, one,
  `Size - 1` or five characters: five, typed at the first prompt, are cut twice and reach the last field. Three
  faults. `Sensors`: the tick of the build (100 a second) and the longest conversions of the datasheets; three
  readings of each sensor, one more than the AHT20 can be behind.
* `Packets`: a variable length counts to 8 per byte in the place of 128, an output buffer of 36 bytes and an input
  buffer of 20, so that lengths of one, two and three bytes and messages of one to three buffers are short; one
  item in the outbox, since items meet through the one outbound message and not through each other; two aliases,
  two maxima. The properties are of one direction each: `MCUses` keeps the two apart. The outbox refuses one
  message that fits the buffer and one that does not (`MCUnkept`).
* `Lifecycle`: two tasks, of which a correct client uses one at a time; two threads, one of which may be
  between its look at the state and its bit while the other calls. The constraint `BeforeHaste` stops the exploration
  where the owner was hasty, since every property but the types says nothing from there on.
* `Payloads`: two device identifiers, with and without a slash; topics of up to four levels out of nine, which reach
  every comparison of `parse_metrics_topic`; objects of up to three fields in every order, with and without space, and
  with members behind the URL that are no texts, values with a colon inside and one as long as the digest's array;
  URLs from two characters to past `MaxUrl` (28 in the place of 256); all texts of up to five characters; every prefix
  of a command.
* Except in `payloads` and `packets`, deadlock is not checked: the firmware stops, by design, when `app_main` returns,
  when the MQTT task finds no transport, or, in the models, when the environment's bounds are used up. That nothing
  gets stuck that should not is what the liveness properties say.

### Fairness, and why the code justifies it

* Tasks of the firmware are weakly fair: FreeRTOS runs them when they are ready, and none of them waits for
  another without end. `ota`: the driver answers a join and DHCP binds (its promise, stated as an assumption
  because `wifi_init_sta` waits without a timeout).
* The OTA task waits for the API lock, which the MQTT task takes again and again: between tasks that wait on
  one FreeRTOS mutex this needs strong fairness (`StatusPublished`); the lock is free at every poll.
* `mqttlive`: the timers elapse again and again while a session is up, but not at any given moment: strong
  fairness for the retransmissions and the ping. The broker reads and answers (weak).
* Nothing is assumed of hosts, callers, users, the button, or of faults; the bounds on faults say that they
  end, which the liveness properties need and which `SessionRecovers` states ("after the last fault").
* `lifecycle`: the task runs, a timer that is looked at again and again elapses (strong, for the reconnect's
  timeout), and a caller goes on whose bit is set (weak) or who waits for the lock (strong: the task gives it back
  in every turn). Nobody has to call.
* `framing`: the task polls again; a read returns, with or without data. `boot`: `app_main` goes on as long
  as it needs no user.

## 4. Findings

1. `mute`: the Wi-Fi handler clears `s_mqtt_client` at every DISCONNECTED of the station, the MQTT client is
   not told. If the TCP session outlives the blip, no MQTT CONNECTED follows and the device, connected and
   subscribed, replies to nothing (connectivity.c:396).
2. `twins`: identifiers are random and not compared with those in the outbox; with two equal ones, an
   acknowledgement deletes the message that was not sent (mqtt_msg.c:71).
3. `split`: a packet of four bytes (PUBACK, PUBREC, PUBREL, PUBCOMP, UNSUBACK) cut between the two bytes of its
   identifier, both from 0x80 up, is resumed as if its remaining length were still being read: the first byte of the
   next packet is swallowed and the client is out of step with the stream (mqtt_client.c:1284). Identifiers are
   random, so a quarter of them are of this kind. The other streams of the runs, and the theorems on `Framing`, have
   no packet of up to five bytes whose last two bytes have their top bit (`LastBytesLow`): the same condition in both,
   and a packet of such bytes is the only way to lose step but a stalled payload, says `MessagesAreWhole`.
4. `leftover`: a publish larger than the output buffer that the outbox refuses for want of memory returns with its total
   length still in `outbound_message` (mqtt_client.c:2146-2154), past the place where a failed or skipped one is cleared
   out (2266); so does an enqueue of QoS 0 without `store`. The next packet without a payload, a CONNECT or a PINGREQ,
   announces that length, and the broker waits for bytes that never come.

### Known limitations

Met while modelling; a property names them as its exception, or a constant or the input named keeps them out:

* The BMP280's registers are fetched after a sleep of one tick, which may be shorter than a conversion, and nothing
  looks whether it has ended: a reply may carry the previous value, or that of power-on (sensors.c:200).
  `NearlyFresh` says how far behind a value can be.
* A line longer than its field is read on by the prompts after it (app_config.c:36-47): `TypedIsStored` names what is
  stored then, the models have such lines.
* A long payload that pauses for longer than the network timeout is acknowledged as complete, and its rest is read as
  packets (mqtt_client.c:1160). `WholeMessages` says nothing once that has happened (`stalls`).
* The headers of a PUBLISH may be one or two bytes longer than the input buffer without being refused
  (mqtt_client.c:1328): its identifier is then looked for behind the buffer's end (1397). `WithinBuffer` names these two
  lengths as its exception.
* A field of a JSON command is found by searching the text for its key (connectivity.c:122): a member of the same
  name inside an object before it, or a value before it that is no text, yields another value. `ObjectsAssumption` of
  `Hosts` says so: no value before `url` or `sha256` reads like their key, and both are texts.
* A publish in fragments that is skipped without a connection leaves its data offset (mqtt_client.c:2267), which a small
  direct publish then subtracts: `WholePublishes` is about publishes beyond the buffer and stored ones. `WholePublishes`
  and `ControlFramed` except what is built while a refused message's total is left (`left`); a message of version 3.1.1
  without data is not built by the model then (`Storable`), since the code would copy a negative number of bytes.
* A handler that an abort inside the publish of fragments runs may publish itself before that call returns
  (mqtt_client.c:2227): in `Packets` such a publish comes after it (`FragmentFails`).
* The calls of an owner race with the task where `Lifecycle` notes it as `hasty`: a stop that finds `run` set before
  the task has cleared the bit of the run before (mqtt_client.c:1655-1658) returns at once; a destroy before the task
  has set `run`, or after it has cleared it by itself for want of a transport, frees the client under its task; a
  second start while the first one's task lives and the state is not yet, or no longer, one of a started client
  creates a second task. Neither the code nor its documentation asks an owner to wait for an event, so nothing keeps
  it from these; the firmware starts its client once and never stops it. `Quiet`, `ConnectsAsAsked` and
  `CallsTakeEffect` say what holds until then, and nothing of what comes after.
* A disconnect that comes while the client waits to reconnect is dropped (1669).

## 5. Proofs

`ConnectivityProofs` proves, for every `MaxRetries`, every set of task slots, every set of host messages and every
bound on the environment, from the assumptions `RetriesAssumption`, `MsgsAssumption` and `BoundsAssumption` (naturals,
and a subset of the message classes):

| theorem | property | inductive invariant |
|---|---|---|
| `TypeCorrect` | `TypeOK` | itself; one lemma per thread |
| `HandleSafe` | `HandleIsConnected` | `SessionInv`: outside an abort a handle is there only in `CONNECTED`, within one the state is `WAIT_RECONNECT`, the client exists exactly from `mqtt_start` on |
| `GivesUpForGood` | `GiveUpIsFinal` | `WifiInv`: driver and handler take turns, so the event queue is a function of the link's state, and attempts are retries plus one |
| `UpdatesExclude` | `OneUpdate` | itself with the type: a busy task or a creation under way, never both, exactly when the flag is set |
| `ReportsInOrder` | `StatusOrder` | `JobInv`: what every busy task knows of its job, of the last report and of the boot slot |
| `InstalledBootsNext` | `InstalledIsBooted` | `JobInv` |
| `Refines` | `ImplementsService` | `JobInv` and `OneUpdate`: every step is a step of the service or stutters |

`OneUpdate` is nearly inductive because it ties the flag to the tasks' program counters; the order of reports
is not: a task that publishes "failed" late could be overtaken, were it not that its flag is still set, that
no handler is therefore accepting, and that its own rank is above what was reported. `TaskInv` says this for
one task, `JobInv` for all, with the boot slot, so that the last three theorems share it. `GiveUpIsFinal`
needs the shape of the event queue: a DISCONNECTED left in it after GOT_IP is what could count an attempt twice.

`LifecycleProofs` proves, for any tasks, any threads and any owner, with no assumption:

| theorem | property | says |
|---|---|---|
| `OneTask` | `TypeOK` | until the owner is hasty, every task that lives is the one in `task_handle` |
| `StopIsQuiet` | `Quiet` | until then, after a stop and once freed, no task is left and the connection is closed |
| `AttemptsAreAsked` | `ConnectsAsAsked` | until then, no attempt to connect that nobody asked for since the last |

So the races of section 4 are all the ways there are: an owner that is never hasty, whatever it relies on to know, has
these three properties, and `hasty` is set only in the states that `Unsettled` and `Start` name. None of the three is
inductive. `IInv` adds, as long as nothing was hasty: `TaskInv`, what the place of the current task says of `run`, the
stopped bit and the connection (the bit of the run before is gone once the task is in its loop, so that a stop waits
for its own); `OwnerInv`, what the place of the owner says of the task (while a stop waits, the bit, when it is set,
is that of a task that is gone); `AskInv`, that a bit set or an attempt about to begin was asked for. `InitInv`,
`OwnerKeeps`, `OthersKeep`, `TaskKeeps` and `NextKeeps` show it inductive, one step per action.

`MqttClientProofs` and `DeliveryProofs` prove, for every set of messages of every QoS, all identifiers, both settings of
retransmission, and any bounds:

| theorem | property | assumes |
|---|---|---|
| `TypeCorrect` | `TypeOK` | nothing more |
| `PingsOfThisSession` | `PingOfThisSession` | nothing more |
| `KeptOnceAlways` | `KeptOnce` | nothing more |
| `AcknowledgedWasDelivered` | `AcknowledgedIsDelivered` | `Disjoint` |
| `RepeatsAreAlwaysFlagged` | `RepeatsAreFlagged` | `Disjoint` |
| `TakenOnce` | `TakenOncePerSession` | `Disjoint` |
| `ClientKeepsPromise` | `KeepsPromise` | `Disjoint` |

`Disjoint` says that no identifier is drawn for two messages. The code does not see to it, and the run `twins` shows
what happens without: the assumption is what an identifier is for, and what a careful fix would establish. The two
modules split what does not depend on it from what does.

The proofs share one device. A step of the client is made of a few kinds of change to the outbox, the statuses and the
wires (`Kinds`: an item is stored, marked, deleted or expires; a packet is written, lost or taken; a session begins or
ends); `NextKinds` shows that every action is of one of these kinds, and everything after it argues over kinds, not
actions. `MqttClientProofs` begins with what the operators on the outbox keep: that deleting the first item with an
identifier leaves the others in their order, that a pending state changes nothing else. The minimum it needs is the
least element of a set of naturals (`WFMin`), which is as close to induction as the library's theorems allow here.

`KeptOnce` is inductive once the identifiers of the items are those of their messages. The others need `DeliveryInv`:
what an item's state says of the packets on their way and of what the broker has (`ItemInv`, `SentInv`, `KnownInv`),
that a packet in the channel without DUP is the first of its message (`FirstInv`), that a queued item was never
written in any session (`QueuedInv`), and that the broker has not released an identifier whose PUBLISH may still
arrive (`ReleaseInv`, `UnreleasedInv`). Each part was checked by TLC on the `mqtt` run's model, and on one with two
identifiers per message, before it was proved.

`FramingProofs` proves, for every stream of packets, every buffer from nine bytes up, any number of stalls and
sessions:

| theorem | property | assumes |
|---|---|---|
| `TypeCorrect` | `TypeOK`: `in_buffer_read_len` stays within the buffer | nothing more |
| `ReadsWithinBuffer` | `WithinBuffer` | `LastBytesLow` |
| `MessagesAreWhole` | `WholeMessages` | `LastBytesLow` |

`WithinBuffer` is about every length of the headers: a topic is whole where it is handed over, and the identifier is
in the buffer but for the two lengths that the code's comparison lets through (section 4). `MessagesAreWhole` speaks
of everything up to the first payload that stalls. The invariant ties the position in the stream to the bytes in the
buffer wherever a message is under way (`StepInv`), and says for every place of the reader how much of the message has
been read (`PartInv`). The argument is that of `LengthKeeps`: a byte read as one of the remaining length, because the
byte before it has its top bit, lies inside the message, because else the message would end in two such bytes and be
at most five bytes long. `TypeCorrect` holds without the condition: even a reader that is out of step does not write
past its buffer.

`BootProofs` proves, for any number of fields of any size, lines, faults and readings, and every tick rate:

| theorem | property | assumes |
|---|---|---|
| `TypeCorrect` | `TypeOK` | nothing more |
| `RunsWithStored` | `RunsAsStored` | nothing more |
| `StoredAsTyped` | `TypedIsStored` | nothing more |
| `ValuesAreNearlyFresh` | `NearlyFresh` | `LongEnough`: a conversion takes some time, and in ticks no longer than the sleep of the code |

`LongEnough` holds of the datasheets' times at 100 ticks a second, and `boot` checks the property with them.
`TypedInv` says that the fields before the one asked for hold the answers to their prompts or what overflowed from
earlier ones, and that more than a newline is left on stdin only of a line that has filled the field just before
(`Overflowing`), which is what makes the next answer an overflow and nothing else. `TimeInv` is a statement about each
sensor (`ChipInv`): it rests, or it converts for the last command and has for as long as its reading has slept, or, at
the beginning of a reading only, it is still at the conversion before (`Late`). The last is where the sensors could
fall behind further with every reading: they do not, since such a conversion has had its longest time already and ends
before the first tick.

`PacketsProofs` proves, for both versions, buffers of any size, any messages, filters and configurations, and any calls,
failed writes and sessions:

| theorem | property | assumes |
|---|---|---|
| `TypeCorrect` | `TypeOK` | nothing more |
| `PublishesAreWhole` | `WholePublishes` | nothing more |
| `ControlAnnouncesItself` | `ControlFramed` | nothing more |
| `ConnectReadsByItsFlags` | `ConnectUnderstood` | nothing more |
| `DeliveredAsMeant` | `ReceivedAsMeant` | `HeadersFit`: the headers of the broker's messages end before the input buffer does |

The length of a packet is a sum over a list of fields, a recursive function in `Codec`. That its sums exist, are
natural numbers, and add up when lists are put together (`SumsExist`, `SizeSums`, `SizeOfBoth`) is shown by the least
place where it would fail; that every packet is a list of fields, by `ConnectIsFields` and its neighbours.
`PublishBuilds` has the two outcomes of `mqtt_msg_publish`, `WholeInBuffer` and `FirstFragment`. The invariant of what
goes out, `CleanInv`, holds while no refused message's total is left behind (`left`), and again once it and all that
was built over it is gone. It has four parts: `Cleared`, no total is left between two packets, without which the next
header is wrong; `Sending`, in every turn of the loop the bytes written, in the buffer and left make up the length
announced, and the fragments join; `Kept` and `OnTheWire`. The loop need say nothing of small messages, whose data
offset may be stale (see the known limitations). For what comes in it is `AliasesKnown`: in a session the client lists
every alias of the broker's, under the same topic. It holds again at a connect because the broker's table then begins
empty, and it survives a message the client refuses because refusing ends the session. The exception is necessary, as
`leftover` shows, and `HeadersFit` matters: in version 3.1.1 a message that the buffer's end cuts at its identifier is
delivered without the data in its first event, and with a total that counts the identifier. TLC checked each part on
the `packets` run's model, where `HeadersFit` holds.

The variable length of `Codec` is at most four bytes by definition: the code refuses longer packets (mqtt_msg.c:124),
and `Codec` does not build them.

`HostsProofs` proves, for every alphabet, every set of topics, device identifiers, commands, plain URLs and other
payloads of any length, and every size of the arrays:

| theorem | property | says |
|---|---|---|
| `RequestsAnswered` | `AnswersRequests` | exactly the documented requests, on a topic of the device's own subscription, are answered |
| `CommandsAreUnderstood` | `CommandsUnderstood` | a documented command is taken as it was meant, or refused where it must be |
| `JobsAreWhole` | `JobsHaveWholeUrls` | whatever arrives, a job has a whole HTTPS URL that fits |

It rests on the assumptions of `Hosts`, each of which TLC evaluates in `payloads`. `CharsAssumption`: the words the
code compares are characters. `TopicsAssumption`: a topic has at least one level, a level has no slash (MQTT's own
rule), and a device has an identifier (the dialogue asks again until it has, app_config.c:41). `MetricsAssumption`: a
metric's name fits its array. `PayloadsAssumption`: the requests are among those README.md gives; the other payloads
are any texts at all, of any characters. `UrlsAssumption`: a plain URL has no zero byte, no space around it and does
not begin with a brace. `ObjectsAssumption`: the limitation on JSON fields above; without it the theorem is false of
the code.

The code searches, and nothing can be shown of a search by recursion on the text here. What replaces induction is the
least or the greatest place: a non-empty set of naturals has a least element (`WFMin`), and a bounded one a greatest,
from which come `StrchrFinds`, `StrstrFinds`, `TrimIs` and `ExtractIs`, what each search of `Payloads` returns for
every text. `JobIsWhole` needs no more. The other two also need what hosts put together. `Joined` is a recursive
function on places; `RestsExist` shows that it has values, by the greatest place where it would not.

* *Topics.* `parse_metrics_topic` compares the ends of the topic and takes what is between two slashes, the broker
  compares levels. The first slash of a topic ends its first level (`LevelIsWhole`), so a text has one list of levels
  (`LevelsOfText`): there is no least place where two of them part. With it `ParsesMetrics`, about the slash
  arithmetic, and `SubscribedIs`, about the filter, both say that the topic is `Metrics`, one metric and the device, a
  device identifier with slashes included.
* *Commands.* `Stands(s, p, t)` says that the text t stands at p in s. A field that is not the one sought, and whose
  value does not read like its key, is passed over (`FieldSkipped`, `FieldPassed`): no place in it, nor across its
  borders, has the quoted key. So the search comes to the first field of that name, or to none (`FieldsPassed`), finds
  its value between the next two quotes (`FieldFound`), and `ObjectSays` joins the two: what `extract_json_field`
  makes of an object is what the object says.

`HostsInv` then is short: the event is a command of which the parser makes the wanted job, a request, or neither of
them; the outcome is what `Data` says of the event. It is inductive because the device's own answer, which comes back
as an event (`Return`), is no request (`ReplyIs`). TLC checked it on the `payloads` run's model before it was proved.

Only model-checked: all liveness (`OutboxDrains`, `DeadIsNoticed`, `NoHalfMessage`, `BootsUnattended`,
`CallsTakeEffect`, `UpdateEnds`, `NoFeedback`, `SessionRecovers`), since fairness and ENABLED are outside the prover.
Every invariant and every action property of a passing run is a theorem.

## 6. Not modelled

* The sensors' arithmetic: floats, and in the pressure 64-bit intermediate values, beyond TLC's integers. The
  characters of texts in packets, and with them the size of version 5's response topic (mqtt5_msg.c:762).
* Of the MQTT client: set-up changes at run time (`esp_mqtt_set_config`, `esp_mqtt_client_set_uri`), event
  registration, inbound QoS 2, TLS and WebSocket set-up, the outbox's size limit (0, none).
* Of MQTT 5: CONNACK's properties and what they limit (publish and subscribe checks, flow control, server
  keepalive), user properties, reason strings, publishes that carry an alias only, incoming properties longer than
  the input buffer (mqtt5_msg.c:333 reads on past its end).
* Tests, examples and documentation of the library.
* Wi-Fi, lwIP, NVS, the HTTPS client, the bootloader, FreeRTOS and the broker are external and appear as the
  code relies on them; these definitions are marked external in the map.

## 7. Plan

Done: `Connectivity` with `OtaService`, `MqttClient` with `Outbox` and `Delivery`, `Framing`, `Boot` with `Sensors`,
`Packets` with `Codec`, `Lifecycle`, and `Hosts` with `Payloads`, modelled, checked and with theorems for all their
safety properties.

Next, in this order:

1. **Model.** CONNACK's properties with the checks they feed, and flow control, in `Packets`; `set_uri` and
   `set_config` against a running task in `Lifecycle`; in `Boot`, the copy of SSID and key into the driver's
   structure; in `Lifecycle`, what becomes of a client behind each of the owner's races.
2. **Compose.** `Connectivity` over the outbox: the order in which statuses reach the broker over several
   sessions, when one was queued while disconnected.
