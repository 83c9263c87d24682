--------------------------- MODULE LifecycleProofs ---------------------------
(***************************************************************************)
(* Lifecycle for any number of tasks and threads and whatever the owner    *)
(* calls: until the owner is hasty once, at most one task lives, none is   *)
(* left when a stop has returned or the client is freed, and no attempt to *)
(* connect is made unasked.                                                *)
(***************************************************************************)
EXTENDS Lifecycle, TLAPS

\* Where the current task is.
Current  == task[task_handle]
Starting == {"created", "running", "initial"}
Ending   == {"ending", "closed", "disconnected"}

\* What the task's place says of the client: the run flag, the stopped bit, the transport.
TaskInv ==
  /\ Current \in {"none", "closed", "disconnected"} \cup Starting => connection = "closed"
  /\ Current \in Starting => started /\ asked
  /\ Current \in {"none", "created"} \cup Ending => ~run
  /\ Current \notin {"none"} \cup Starting => "STOPPED" \notin status_bits

\* What the owner's place says of the task: while a stop waits, the stopped bit is this
\* run's.
OwnerInv ==
  /\ ~started => Current = "none" /\ owner \in {"idle", "freed"}
  /\ owner = "freed" => Current = "none"
  /\ owner \in {"stopping", "destroying"} /\ "STOPPED" \in status_bits => Current = "none"
  /\ owner \in {"stopping", "destroying"} => Current # "created" /\ ~run

\* A client about to try, or told to, was asked to.
AskInv ==
  /\ "RECONNECT" \in status_bits => asked
  /\ ~auto_reconnect /\ state = "INIT" /\ Current \notin {"none", "connecting"} => asked

Settled == TaskInv /\ OwnerInv /\ AskInv

IInv == TypeOK /\ (hasty = "never" => Settled)

-----------------------------------------------------------------------------
\* Nothing is started, nothing is dispatched, and no task lives.
LEMMA InitInv == Init => IInv
  BY DEF Init, States, TaskPcs, OwnerPcs, Bits, IInv, Settled, TypeOK, TaskInv, OwnerInv, AskInv, Current, Starting, Ending

\* The owner's calls keep the invariant: one that stops or frees a run whose task has not
\* cleared the stopped bit is hasty.
LEMMA OwnerKeeps == ASSUME IInv, Start \/ Stop \/ Destroy \/ Waits PROVE IInv'
  <1> USE DEF configVars, Bits, States, TaskPcs, OwnerPcs, IInv, Settled, TypeOK, TaskInv, OwnerInv, AskInv, Current, Starting, Ending
  <1>1. CASE Start
    BY IInv, <1>1 DEF Start, Note, Alive, Unlocked, Startable, Goto, clientVars
  <1>2. CASE Stop
    BY IInv, <1>2 DEF Stop, StopRequest, Unsettled, Note, Unlocked
  <1>3. CASE Destroy
    BY IInv, <1>3 DEF Destroy, Unsettled, Note, clientVars
  <1>4. CASE StopReturns
    BY IInv, <1>4 DEF StopReturns, clientVars
  <1>5. CASE DestroyStops
    <2>1. CASE StopRequest
      BY IInv, <1>5, <2>1 DEF DestroyStops, StopRequest, Unsettled, Note, Unlocked
    <2>2. CASE ~ run
      BY IInv, <1>5, <2>2 DEF DestroyStops, StopRequest, Unsettled, Note, Unlocked
    <2> QED BY <1>5, <2>1, <2>2 DEF DestroyStops
  <1>6. CASE DestroyReturns
    BY IInv, <1>6 DEF DestroyReturns, clientVars, askVars
  <1> QED BY <1>1, <1>2, <1>3, <1>4, <1>5, <1>6 DEF Waits

\* Calls of other threads, and a connection that is lost.
LEMMA OthersKeep ==
  ASSUME IInv, Disconnect \/ (\E o \in Others : ReconnectChecks(o) \/ ReconnectSets(o)) \/ ConnectionLost
  PROVE  IInv'
  <1> USE DEF configVars, Bits, States, TaskPcs, OwnerPcs, IInv, Settled, TypeOK, TaskInv, OwnerInv, AskInv, Current, Starting, Ending
  <1>1. CASE Disconnect
    BY IInv, <1>1 DEF Disconnect, askVars
  <1>2. ASSUME NEW o \in Others, ReconnectChecks(o) PROVE IInv'
    BY IInv, <1>2 DEF ReconnectChecks, clientVars, askVars
  <1>3. ASSUME NEW o \in Others, ReconnectSets(o) PROVE IInv'
    BY IInv, <1>3 DEF ReconnectSets
  <1>4. CASE ConnectionLost
    BY IInv, <1>4 DEF ConnectionLost, clientVars, askVars
  <1> QED BY <1>1, <1>2, <1>3, <1>4

\* What a handler may have set by the end of its event.
LEMMA DispatchSets ==
  ASSUME NEW s \in States, NEW bits \in SUBSET Bits, asked \in BOOLEAN, Dispatch(s, bits)
  PROVE  /\ status_bits' \in SUBSET Bits /\ asked' \in BOOLEAN /\ (asked => asked')
         /\ ("STOPPED" \in status_bits' <=> "STOPPED" \in bits)
         /\ ("RECONNECT" \in status_bits' => "RECONNECT" \in bits \/ asked')
  BY DEF Dispatch, Bits

\* The task goes from one place of its loop to another.
LEMMA TypesKept ==
  ASSUME TypeOK, NEW t \in Tasks, NEW pc \in TaskPcs, Goto(t, pc), task[t] # "none",
         run' \in BOOLEAN, state' \in States, status_bits' \in SUBSET Bits,
         connection' \in {"closed", "open", "lost"}, asked' \in BOOLEAN,
         UNCHANGED <<configVars, task_handle, owner, other, started, hasty>>
  PROVE  TypeOK'
  BY DEF TypeOK, Goto, configVars

\* A connection is made or aborted, and the handlers are told.
LEMMA SessionKeeps ==
  ASSUME IInv, NEW t \in Tasks, task[t] \in {"connecting", "turn", "polling"},
         NEW pc \in {"poll", "loop"}, Goto(t, pc),
         NEW bits \in {status_bits, status_bits \ {"DISCONNECT"}},
         state' \in {"CONNECTED", "WAIT_RECONNECT"}, Dispatch(state', bits),
         connection' \in {"open", "closed"},
         UNCHANGED <<configVars, run, task_handle, owner, other, started, hasty>>
  PROVE  IInv'
  <1>0. TypeOK /\ pc \in TaskPcs /\ bits \in SUBSET Bits /\ state' \in States /\ asked \in BOOLEAN /\ run \in BOOLEAN
    BY DEF IInv, TypeOK, TaskPcs, States
  <1>1. /\ status_bits' \in SUBSET Bits /\ asked' \in BOOLEAN /\ (asked => asked')
        /\ ("STOPPED" \in status_bits' <=> "STOPPED" \in status_bits)
        /\ ("RECONNECT" \in status_bits' => "RECONNECT" \in status_bits \/ asked')
    BY <1>0, DispatchSets
  <1>2. TypeOK'
    BY <1>0, <1>1, TypesKept
  <1>3. ASSUME hasty' = "never" PROVE Settled'
    <2>1. Settled /\ t = task_handle /\ Current = task[t]
      BY <1>3 DEF IInv, TypeOK, Current
    <2>2. Current' = pc /\ UNCHANGED <<run, task_handle, owner, started, auto_reconnect>>
      BY <2>1 DEF IInv, TypeOK, Current, Goto, configVars
    <2>3. TaskInv'
      BY <1>1, <2>1, <2>2 DEF Settled, TaskInv, Starting, Ending
    <2>4. OwnerInv'
      BY <1>1, <2>1, <2>2 DEF Settled, OwnerInv
    <2>5. AskInv'
      BY <1>1, <2>1, <2>2 DEF Settled, AskInv
    <2> QED BY <2>3, <2>4, <2>5 DEF Settled
  <1> QED BY <1>2, <1>3 DEF IInv

\* A step of the task: it is the current one.
LEMMA TaskKeeps == ASSUME IInv, NEW t \in Tasks, Task(t) PROVE IInv'
  <1> USE DEF configVars, Goto, Bits, States, TaskPcs, OwnerPcs, IInv, Settled, TypeOK, TaskInv, OwnerInv, AskInv, Current, Starting, Ending
  <1>1. CASE SetRun(t)
    BY IInv, <1>1 DEF SetRun, askVars
  <1>2. CASE SetState(t)
    BY IInv, <1>2 DEF SetState, askVars
  <1>3. CASE ClearStopped(t)
    BY IInv, <1>3 DEF ClearStopped, askVars
  <1>4. CASE LoopTop(t)
    BY IInv, <1>4 DEF LoopTop, clientVars, askVars
  <1>5. CASE TurnDisconnected(t)
    BY IInv, <1>5 DEF TurnDisconnected, Turn, clientVars, askVars
  <1>6. CASE TurnInit(t)
    <2>1. TypeOK'
      <3>1. TypeOK /\ task[t] # "none" /\ (Goto(t, "poll") \/ Goto(t, "connecting"))
        BY IInv, <1>6 DEF TurnInit, Turn
      <3>2. /\ run' \in BOOLEAN /\ state' \in States /\ connection' \in {"closed", "open", "lost"}
            /\ status_bits' \in SUBSET Bits /\ asked' \in BOOLEAN
        BY IInv, <1>6 DEF TurnInit, Turn, ClearedByInit
      <3>3. UNCHANGED <<configVars, task_handle, owner, other, started, hasty>>
        BY <1>6 DEF TurnInit
      <3>4. "poll" \in TaskPcs /\ "connecting" \in TaskPcs
        OBVIOUS
      <3> HIDE DEF configVars, Goto, Bits, States, TaskPcs, OwnerPcs, IInv, Settled, TypeOK
      <3> QED BY <3>1, <3>2, <3>3, <3>4, TypesKept
    <2>2. hasty' = "never" => TaskInv'
      BY IInv, <1>6 DEF TurnInit, Turn, ClearedByInit
    <2>3. hasty' = "never" => OwnerInv'
      BY IInv, <1>6 DEF TurnInit, Turn, ClearedByInit
    <2>4. hasty' = "never" => AskInv'
      BY IInv, <1>6 DEF TurnInit, Turn, ClearedByInit
    <2> QED BY <2>1, <2>2, <2>3, <2>4
  <1> HIDE DEF configVars, Goto, Bits, States, TaskPcs, OwnerPcs, IInv, Settled, TypeOK, TaskInv, OwnerInv, AskInv, Current, Starting, Ending
  <1>7. CASE Connects(t)
    BY <1>7, SessionKeeps DEF Connects
  <1>8. CASE ConnectFails(t)
    BY <1>8, SessionKeeps DEF ConnectFails, AbortConnection
  <1>9. CASE TurnDisconnects(t)
    BY <1>9, SessionKeeps DEF TurnDisconnects, Turn, AbortConnection
  <1>10. CASE TurnConnected(t)
    <2>1. CASE UNCHANGED <<state, status_bits, connection, asked>>
      BY <1>10, <2>1 DEF TurnConnected, Turn, configVars, Bits, States, TaskPcs, OwnerPcs, IInv, Settled, TypeOK, TaskInv, OwnerInv, AskInv, Current, Starting, Ending, Goto
    <2>2. CASE AbortConnection("WAIT_RECONNECT", status_bits)
      BY <1>10, <2>2, SessionKeeps DEF TurnConnected, Turn, AbortConnection
    <2> QED BY <1>10, <2>1, <2>2 DEF TurnConnected
  <1>16. CASE Polled(t)
    <2>1. CASE UNCHANGED <<state, status_bits, connection, asked>>
      BY <1>16, <2>1 DEF Polled, configVars, Bits, States, TaskPcs, OwnerPcs, IInv, Settled, TypeOK, TaskInv, OwnerInv, AskInv, Current, Starting, Ending, Goto
    <2>2. CASE AbortConnection("WAIT_RECONNECT", status_bits)
      BY <1>16, <2>2, SessionKeeps DEF Polled, AbortConnection
    <2> QED BY <1>16, <2>1, <2>2 DEF Polled
  <1> USE DEF configVars, Goto, Bits, States, TaskPcs, OwnerPcs, IInv, Settled, TypeOK, TaskInv, OwnerInv, AskInv, Current, Starting, Ending
  <1>11. CASE TurnRequested(t)
    BY IInv, <1>11 DEF TurnRequested, Turn, askVars
  <1>12. CASE TurnTimeout(t)
    BY IInv, <1>12 DEF TurnTimeout, Turn, askVars
  <1>13. CASE TurnWaits(t)
    BY IInv, <1>13 DEF TurnWaits, Turn, clientVars, askVars
  <1>14. CASE Waited(t)
    BY IInv, <1>14 DEF Waited, clientVars, askVars
  <1>15. CASE Poll(t)
    BY IInv, <1>15 DEF Poll, clientVars, askVars
  <1>17. CASE CloseTransport(t)
    BY IInv, <1>17 DEF CloseTransport, clientVars, askVars
  <1>18. CASE SetDisconnected(t)
    BY IInv, <1>18 DEF SetDisconnected, askVars
  <1>19. CASE SetStopped(t)
    BY IInv, <1>19 DEF SetStopped, askVars
  <1>20. CASE TurnRefreshes(t)
    <2>1. TypeOK'
      BY IInv, <1>20 DEF TurnRefreshes, Turn
    <2>2. hasty' = "never" => TaskInv'
      BY IInv, <1>20 DEF TurnRefreshes, Turn
    <2>3. hasty' = "never" => OwnerInv'
      BY IInv, <1>20 DEF TurnRefreshes, Turn
    <2>4. hasty' = "never" => AskInv'
      BY IInv, <1>20 DEF TurnRefreshes, Turn
    <2> QED BY <2>1, <2>2, <2>3, <2>4
  <1> QED BY Task(t), <1>1, <1>2, <1>3, <1>4, <1>5, <1>6, <1>7, <1>8, <1>9, <1>10, <1>11, <1>12, <1>13, <1>14, <1>15, <1>16, <1>17, <1>18, <1>19, <1>20 DEF Task

\* Every step keeps the invariant.
LEMMA NextKeeps == ASSUME IInv, [Next]_vars PROVE IInv'
  <1>1. CASE Next
    BY IInv, <1>1, OwnerKeeps, OthersKeep, TaskKeeps DEF Next
  <1>2. CASE UNCHANGED vars
    BY IInv, <1>2 DEF vars, configVars, clientVars, askVars, IInv, Settled, TypeOK, TaskInv, OwnerInv, AskInv, Current, Starting, Ending
  <1> QED BY <1>1, <1>2

LEMMA Invariance == Spec => []IInv
  <1>1. Init => IInv
    BY InitInv
  <1>2. IInv /\ [Next]_vars => IInv'
    BY NextKeeps
  <1> QED BY <1>1, <1>2, PTL DEF Spec

\* mqtt_client_priv.h: until the owner is hasty the client has one task at most, the one in
\* task_handle, for any number of tasks that could be created.
THEOREM OneTask == Spec => []TypeOK
  <1>1. IInv => TypeOK
    BY DEF IInv
  <1> QED BY <1>1, Invariance, PTL

\* mqtt_client.c:923-958, 1837-1842, 1927-1958: a stop that has returned leaves no task and no connection
\* behind, nor does freeing the client: nothing uses it any more. That takes an owner who was never
\* hasty: a start again before a stop, or a stop or free between 1655 and 1658 or of a task
\* that ends by itself, is what hasty names.
THEOREM StopIsQuiet == Spec => []Quiet
  <1>1. IInv => Quiet
    BY DEF IInv, Settled, TypeOK, TaskInv, OwnerInv, Quiet, Current, Starting, Ending
  <1> QED BY <1>1, Invariance, PTL

\* mqtt_client.c:1669, 1804-1823, 1886-1900: without auto_reconnect every attempt was asked for,
\* until the owner is hasty.
THEOREM AttemptsAreAsked == Spec => ConnectsAsAsked
  <1> DEFINE Asked == \A t \in Tasks : task[t] # "connecting" /\ task'[t] = "connecting" =>
                             auto_reconnect \/ asked \/ hasty = "once"
  <1>1. ASSUME IInv, [Next]_vars PROVE Asked
    <2>1. CASE UNCHANGED vars
      BY <2>1 DEF vars
    <2>2. ASSUME NEW t \in Tasks, NEW pc \in TaskPcs, Goto(t, pc),
                 pc = "connecting" => task[t] = "turn" /\ state = "INIT"
          PROVE  Asked
      BY <1>1, <2>2 DEF IInv, Settled, TypeOK, AskInv, Current, Goto
    <2>3. ASSUME NEW t \in Tasks, Task(t) PROVE Asked
      BY <2>2, <2>3 DEF Task, TaskPcs, SetRun, SetState, ClearStopped, LoopTop, TurnDisconnected, TurnInit, Turn,
        Connects, ConnectFails, TurnDisconnects, TurnConnected, TurnRefreshes, TurnRequested, TurnTimeout, TurnWaits, Waited,
        Poll, Polled, CloseTransport, SetDisconnected, SetStopped
    <2>4. CASE Start
      BY <1>1, <2>4 DEF Start, Goto, IInv, TypeOK
    <2>5. CASE Next /\ ~Start /\ ~(\E t \in Tasks : Task(t))
      BY <2>5 DEF Next, Stop, Destroy, Waits, StopReturns, DestroyStops, DestroyReturns, Disconnect, ReconnectChecks,
        ReconnectSets, ConnectionLost
    <2> QED BY <1>1, <2>1, <2>3, <2>4, <2>5
  <1>2. Spec => [][Asked]_vars
    BY <1>1, Invariance, PTL DEF Spec
  <1> QED BY <1>2 DEF ConnectsAsAsked
=============================================================================
