------------------------------ MODULE Lifecycle ------------------------------
(***************************************************************************)
(* mqtt_client.c: starting, stopping, disconnecting, reconnecting and      *)
(* destroying a client, against the task that the start creates.           *)
(* The owner of the client starts, stops and destroys it; other threads,   *)
(* and the event handlers the task runs, disconnect and reconnect it, which *)
(* sets bits of an event group and takes no lock. What the task does while *)
(* it holds the API lock is one step, except for connecting, which takes   *)
(* time. Messages are left to MqttClient.                                  *)
(***************************************************************************)
EXTENDS Naturals, FiniteSets

CONSTANTS
  Tasks,    \* tasks the client's starts may create, each again when it has ended
  Others    \* threads that call disconnect and reconnect

VARIABLES
  auto_reconnect,   \* the configuration,
  refresh,          \* whether refresh_connection_after_ms is set in it
  transport,        \* and whether its scheme has a transport
  run, state,       \* of esp_mqtt_client
  task_handle,      \* the task created last
  status_bits,
  task,             \* where each task is, "none" when there is no such task
  connection,       \* the transport: "closed", "open" or "lost"
  owner, other      \* where the owner is, and each other thread

(* History.                                                                *)
VARIABLES
  started,          \* the owner's last successful call was a start
  hasty,            \* "once" the owner has stopped or destroyed a client whose task was just
                    \* starting or ending by itself, or started one twice
  asked             \* a start, a reconnect or a refresh since the last attempt to connect began

configVars == <<auto_reconnect, refresh, transport>>
clientVars == <<run, state, status_bits>>
askVars    == <<started, hasty, asked>>
vars == <<configVars, clientVars, task_handle, task, connection, owner, other, askVars>>

Bits      == {"STOPPED", "RECONNECT", "DISCONNECT"}
States    == {"INIT", "DISCONNECTED", "CONNECTED", "WAIT_RECONNECT"}
TaskPcs   == {"none", "created", "running", "initial", "loop", "turn", "connecting", "poll", "polling",
              "waiting", "ending", "closed", "disconnected"}
OwnerPcs  == {"idle", "stopping", "destroy", "destroying", "freed"}

\* mqtt_client_priv.h: the fields' types; task_handle is the client's only
\* task, unless the owner was hasty.
TypeOK ==
  /\ auto_reconnect \in BOOLEAN /\ refresh \in BOOLEAN /\ transport \in BOOLEAN
  /\ run \in BOOLEAN /\ state \in States /\ status_bits \in SUBSET Bits
  /\ task \in [Tasks -> TaskPcs] /\ connection \in {"closed", "open", "lost"}
  /\ task_handle \in Tasks
  /\ hasty = "never" => \A t \in Tasks : task[t] # "none" => t = task_handle
  /\ owner \in OwnerPcs /\ other \in [Others -> {"idle", "reconnect"}]
  /\ started \in BOOLEAN /\ hasty \in {"never", "once"} /\ asked \in BOOLEAN

\* esp_mqtt_client_init: zeros, and the configuration.
Init ==
  /\ auto_reconnect \in BOOLEAN /\ refresh \in BOOLEAN /\ transport \in BOOLEAN
  /\ run = FALSE /\ state = "INIT" /\ status_bits = {}
  /\ task_handle \in Tasks /\ task = [t \in Tasks |-> "none"]
  /\ connection = "closed"
  /\ owner = "idle" /\ other = [o \in Others |-> "idle"]
  /\ started = FALSE /\ hasty = "never" /\ asked = FALSE

\* The API lock is held across steps only by a task that connects.
Unlocked == \A t \in Tasks : task[t] # "connecting"

Goto(t, pc) == task' = [task EXCEPT ![t] = pc]

-----------------------------------------------------------------------------
(* The owner's calls. Those that are refused change nothing and are left out,*)
(* and so is a task that cannot be created.                                  *)

Alive == \E t \in Tasks : task[t] # "none"

\* A task has not set `run' yet or ends by itself, or has not cleared the stopped bit of
\* the run before: nothing tells the owner.
Unsettled ==
  \E t \in Tasks :
     task[t] # "none" /\ (~run \/ (task[t] \in {"running", "initial"} /\ "STOPPED" \in status_bits))

Note(early) == hasty' = IF early THEN "once" ELSE hasty

Startable == state \in {"INIT", "DISCONNECTED"}

\* esp_mqtt_client_start creates the task; the task sets `run'.
Start ==
  /\ owner = "idle" /\ Unlocked /\ Startable
  /\ \E t \in Tasks : task[t] = "none" /\ task_handle' = t /\ Goto(t, "created")
  /\ started' = TRUE /\ asked' = TRUE /\ Note(started /\ Alive)
  /\ UNCHANGED <<configVars, clientVars, connection, owner, other>>

\* esp_mqtt_client_stop up to its wait: a connected client says so first.
StopRequest ==
  /\ Unlocked /\ run
  /\ run' = FALSE /\ state' = "DISCONNECTED"

Stop ==
  /\ owner = "idle" /\ StopRequest /\ owner' = "stopping" /\ Note(Unsettled)
  /\ UNCHANGED <<configVars, status_bits, task_handle, task, connection, other, started, asked>>

\* Mutant: the wait ends with the task's loop.
StopEndsEarly ==
  /\ owner = "stopping" /\ owner' = "idle" /\ started' = FALSE
  /\ \E t \in Tasks : task[t] = "ending"
  /\ UNCHANGED <<configVars, clientVars, task_handle, task, connection, other, hasty, asked>>

StopReturns ==
  /\ owner = "stopping" /\ "STOPPED" \in status_bits
  /\ owner' = "idle" /\ started' = FALSE
  /\ UNCHANGED <<configVars, clientVars, task_handle, task, connection, other, hasty, asked>>

\* esp_mqtt_client_destroy: a client that runs is stopped, and whatever comes of
\* that, everything is freed. No other thread uses it by then.
Destroy ==
  /\ owner = "idle" /\ \A o \in Others : other[o] = "idle"
  /\ owner' = IF run THEN "destroy" ELSE "freed"
  /\ Note(Unsettled)
  /\ UNCHANGED <<configVars, clientVars, task_handle, task, connection, other, started, asked>>

DestroyStops ==
  /\ owner = "destroy"
  /\ \/ StopRequest /\ owner' = "destroying"
     \/ Unlocked /\ ~run /\ owner' = "freed" /\ UNCHANGED <<run, state>>
  /\ Note(Unsettled)
  /\ UNCHANGED <<configVars, status_bits, task_handle, task, connection, other, started, asked>>

DestroyReturns ==
  /\ owner = "destroying" /\ "STOPPED" \in status_bits /\ owner' = "freed"
  /\ UNCHANGED <<configVars, clientVars, task_handle, task, connection, other, askVars>>

Waits == StopReturns \/ DestroyStops \/ DestroyReturns

-----------------------------------------------------------------------------
(* The calls of other threads.                                               *)

InUse == owner \in {"idle", "stopping"}

Disconnect ==
  /\ InUse /\ status_bits' = status_bits \cup {"DISCONNECT"}
  /\ UNCHANGED <<configVars, run, state, task_handle, task, connection, owner, other, askVars>>

\* esp_mqtt_client_reconnect looks at the state and sets the bit later, without the
\* lock.
ReconnectChecks(o) ==
  /\ InUse /\ other[o] = "idle" /\ state = "WAIT_RECONNECT"
  /\ other' = [other EXCEPT ![o] = "reconnect"]
  /\ UNCHANGED <<configVars, clientVars, task_handle, task, connection, owner, askVars>>

ReconnectSets(o) ==
  /\ other[o] = "reconnect" /\ other' = [other EXCEPT ![o] = "idle"]
  /\ status_bits' = status_bits \cup {"RECONNECT"} /\ asked' = TRUE
  /\ UNCHANGED <<configVars, run, state, task_handle, task, connection, owner, started, hasty>>

\* What a handler may do with an event that the task dispatches in state s, with
\* the bits as they are; a stop is refused.
Dispatch(s, bits) ==
  \/ status_bits' = bits /\ UNCHANGED asked
  \/ status_bits' = bits \cup {"DISCONNECT"} /\ UNCHANGED asked
  \/ s = "WAIT_RECONNECT" /\ status_bits' = bits \cup {"RECONNECT"} /\ asked' = TRUE

-----------------------------------------------------------------------------
(* The task.                                                                 *)

\* Its first three statements, no lock held.
SetRun(t) ==
  /\ task[t] = "created" /\ Goto(t, "running") /\ run' = TRUE
  /\ UNCHANGED <<configVars, state, status_bits, task_handle, connection, owner, other, askVars>>

SetState(t) ==
  /\ task[t] = "running" /\ Goto(t, "initial") /\ state' = "INIT"
  /\ UNCHANGED <<configVars, run, status_bits, task_handle, connection, owner, other, askVars>>

\* Mutant: the bit of the run before stays set.
StoppedStays(t) ==
  /\ task[t] = "initial" /\ Goto(t, "loop")
  /\ UNCHANGED <<configVars, clientVars, task_handle, connection, owner, other, askVars>>

ClearStopped(t) ==
  /\ task[t] = "initial" /\ Goto(t, "loop") /\ status_bits' = status_bits \ {"STOPPED"}
  /\ UNCHANGED <<configVars, run, state, task_handle, connection, owner, other, askVars>>

\* The loop's condition, read before the lock is asked for.
LoopTop(t) ==
  /\ task[t] = "loop" /\ Goto(t, IF run THEN "turn" ELSE "ending")
  /\ UNCHANGED <<configVars, clientVars, task_handle, connection, owner, other, askVars>>

Turn(t, s) == task[t] = "turn" /\ Unlocked /\ state = s

\* esp_mqtt_abort_connection, ending in `next'.
AbortConnection(next, bits) ==
  /\ connection' = "closed" /\ state' = next
  /\ Dispatch("WAIT_RECONNECT", bits)

TurnDisconnected(t) ==
  /\ Turn(t, "DISCONNECTED") /\ Goto(t, "poll")
  /\ UNCHANGED <<configVars, clientVars, task_handle, connection, owner, other, askVars>>

\* Mutant: a reconnect that came while the client connected stays.
OnlyDisconnect == {"DISCONNECT"}
ClearedByInit == {"RECONNECT", "DISCONNECT"}

\* MQTT_STATE_INIT: with a transport, MQTT_EVENT_BEFORE_CONNECT and the attempt.
TurnInit(t) ==
  /\ Turn(t, "INIT")
  /\ \/ ~transport /\ run' = FALSE /\ Goto(t, "poll")
        /\ status_bits' = status_bits \ ClearedByInit /\ UNCHANGED asked
     \/ /\ transport /\ Goto(t, "connecting") /\ asked' = FALSE
        /\ \E more \in {{}, {"DISCONNECT"}} : status_bits' = (status_bits \ ClearedByInit) \cup more
        /\ UNCHANGED run
  /\ UNCHANGED <<configVars, state, task_handle, connection, owner, other, started, hasty>>

Connects(t) ==
  /\ task[t] = "connecting" /\ Goto(t, "poll")
  /\ connection' = "open" /\ state' = "CONNECTED" /\ Dispatch("CONNECTED", status_bits)
  /\ UNCHANGED <<configVars, run, task_handle, owner, other, started, hasty>>

ConnectFails(t) ==
  /\ task[t] = "connecting" /\ Goto(t, "poll")
  /\ AbortConnection("WAIT_RECONNECT", status_bits)
  /\ UNCHANGED <<configVars, run, task_handle, owner, other, started, hasty>>

\* Mutant: the request is dropped without being followed.
RequestDropped(t) ==
  /\ Turn(t, "CONNECTED") /\ "DISCONNECT" \in status_bits /\ Goto(t, "poll")
  /\ status_bits' = status_bits \ {"DISCONNECT"}
  /\ UNCHANGED <<configVars, run, state, task_handle, connection, owner, other, askVars>>

\* MQTT_STATE_CONNECTED, asked to disconnect,
TurnDisconnects(t) ==
  /\ Turn(t, "CONNECTED") /\ "DISCONNECT" \in status_bits /\ Goto(t, "poll")
  /\ AbortConnection("WAIT_RECONNECT", status_bits \ {"DISCONNECT"})
  /\ UNCHANGED <<configVars, run, task_handle, owner, other, started, hasty>>

\* or not: whatever is written or read may find the connection lost.
TurnConnected(t) ==
  /\ Turn(t, "CONNECTED") /\ "DISCONNECT" \notin status_bits /\ Goto(t, "poll")
  /\ \/ UNCHANGED <<state, status_bits, connection, asked>>
     \/ connection = "lost" /\ AbortConnection("WAIT_RECONNECT", status_bits)
  /\ UNCHANGED <<configVars, run, task_handle, owner, other, started, hasty>>

\* A connection as old as the configuration allows is given up for a new one; the
\* handler sees it closed and waiting to reconnect.
TurnRefreshes(t) ==
  /\ Turn(t, "CONNECTED") /\ "DISCONNECT" \notin status_bits /\ refresh /\ Goto(t, "poll")
  /\ connection' = "closed" /\ state' = "INIT" /\ asked' = TRUE
  /\ \E more \in {{}, {"DISCONNECT"}, {"RECONNECT"}} : status_bits' = status_bits \cup more
  /\ UNCHANGED <<configVars, run, task_handle, owner, other, started, hasty>>

\* MQTT_STATE_WAIT_RECONNECT: at the user's request,
TurnRequested(t) ==
  /\ Turn(t, "WAIT_RECONNECT") /\ ~auto_reconnect /\ "RECONNECT" \in status_bits
  /\ Goto(t, "poll") /\ state' = "INIT" /\ status_bits' = status_bits \ {"RECONNECT"}
  /\ UNCHANGED <<configVars, run, task_handle, connection, owner, other, askVars>>

\* when the time is over,
TurnTimeout(t) ==
  /\ Turn(t, "WAIT_RECONNECT") /\ auto_reconnect
  /\ Goto(t, "poll") /\ state' = "INIT"
  /\ UNCHANGED <<configVars, run, status_bits, task_handle, connection, owner, other, askVars>>

\* or else the lock is given back, and the task waits for the bit or for a while.
TurnWaits(t) ==
  /\ Turn(t, "WAIT_RECONNECT") /\ (auto_reconnect \/ "RECONNECT" \notin status_bits)
  /\ Goto(t, "waiting")
  /\ UNCHANGED <<configVars, clientVars, task_handle, connection, owner, other, askVars>>

Waited(t) ==
  /\ task[t] = "waiting" /\ Goto(t, "loop")
  /\ UNCHANGED <<configVars, clientVars, task_handle, connection, owner, other, askVars>>

\* The lock is free; the state says whether the socket is polled,
Poll(t) ==
  /\ task[t] = "poll" /\ Goto(t, IF state = "CONNECTED" THEN "polling" ELSE "loop")
  /\ UNCHANGED <<configVars, clientVars, task_handle, connection, owner, other, askVars>>

\* and a poll that fails aborts the connection, whatever the state is by then.
Polled(t) ==
  /\ task[t] = "polling" /\ Goto(t, "loop")
  /\ \/ UNCHANGED <<state, status_bits, connection, asked>>
     \/ connection = "lost" /\ Unlocked /\ AbortConnection("WAIT_RECONNECT", status_bits)
  /\ UNCHANGED <<configVars, run, task_handle, owner, other, started, hasty>>

\* After the loop, no lock held: the transport and the outbox, the state, the bit.
CloseTransport(t) ==
  /\ task[t] = "ending" /\ Goto(t, "closed") /\ connection' = "closed"
  /\ UNCHANGED <<configVars, clientVars, task_handle, owner, other, askVars>>

SetDisconnected(t) ==
  /\ task[t] = "closed" /\ Goto(t, "disconnected") /\ state' = "DISCONNECTED"
  /\ UNCHANGED <<configVars, run, status_bits, task_handle, connection, owner, other, askVars>>

SetStopped(t) ==
  /\ task[t] = "disconnected" /\ Goto(t, "none") /\ status_bits' = status_bits \cup {"STOPPED"}
  /\ UNCHANGED <<configVars, run, state, task_handle, connection, owner, other, askVars>>

\* What a task makes of a client that is freed is anything: the model ends there.
Task(t) ==
  /\ owner # "freed"
  /\ \/ SetRun(t) \/ SetState(t) \/ ClearStopped(t) \/ LoopTop(t)
     \/ TurnDisconnected(t) \/ TurnInit(t) \/ Connects(t) \/ ConnectFails(t)
     \/ TurnDisconnects(t) \/ TurnConnected(t) \/ TurnRefreshes(t)
     \/ TurnRequested(t) \/ TurnTimeout(t) \/ TurnWaits(t) \/ Waited(t)
     \/ Poll(t) \/ Polled(t)
     \/ CloseTransport(t) \/ SetDisconnected(t) \/ SetStopped(t)

\* The network.
ConnectionLost ==
  /\ connection = "open" /\ connection' = "lost"
  /\ UNCHANGED <<configVars, clientVars, task_handle, task, owner, other, askVars>>

Next ==
  \/ Start \/ Stop \/ Destroy \/ Waits
  \/ Disconnect \/ \E o \in Others : ReconnectChecks(o) \/ ReconnectSets(o)
  \/ \E t \in Tasks : Task(t)
  \/ ConnectionLost

Spec == Init /\ [][Next]_vars

\* The task runs when it can, what it waits for ends, a timer that is looked at
\* again and again elapses, and a caller goes on whose wait is over, or who waits for
\* a lock that is free again and again. Nobody has to call anything.
Fairness ==
  /\ \A t \in Tasks : WF_vars(Task(t)) /\ SF_vars(TurnTimeout(t))
  /\ WF_vars(Waits) /\ SF_vars(DestroyStops)

FairSpec == Spec /\ Fairness

-----------------------------------------------------------------------------
(* Correctness.                                                              *)

\* mqtt_client.h:446 ("Stops MQTT client tasks"), mqtt_client.c:923-947, 1837-1842,
\* 1927-1958: once a stop has returned, until the next start, and once the client is
\* freed, no task of it is left to use it and its connection is closed.
Quiet ==
  hasty = "never" /\ (~started \/ owner = "freed") =>
    connection = "closed" /\ \A t \in Tasks : task[t] = "none"

\* mqtt_client.h:351 ("disable_auto_reconnect"): a client that does not reconnect by
\* itself makes at most one attempt for all that was asked of it since the last one began,
\* by a start, a reconnect or the configured refresh, and none when nothing was. A request
\* that is set during an attempt counts for the next (mqtt_client.c:1669, 1796-1811,
\* 1886-1900).
ConnectsAsAsked ==
  [][\A t \in Tasks : task[t] # "connecting" /\ task'[t] = "connecting" =>
         auto_reconnect \/ asked \/ hasty = "once"]_vars

\* A call takes effect, with the fairness above: a stop returns, a disconnect of a
\* connected client ends its connection, and a reconnect that was accepted makes the
\* client try, unless it is stopped meanwhile (mqtt_client.c:1731-1735, 1804-1823,
\* 1875-1900, 1927-1958).
CallsTakeEffect ==
  /\ owner \in {"stopping", "destroy", "destroying"} ~> owner \in {"idle", "freed"} \/ hasty = "once"
  /\ "DISCONNECT" \in status_bits /\ state = "CONNECTED" ~> state # "CONNECTED" \/ hasty = "once"
  /\ "RECONNECT" \in status_bits /\ run ~>
       ~run \/ state = "CONNECTED" \/ hasty = "once" \/ \E t \in Tasks : task[t] = "connecting"
==============================================================================
