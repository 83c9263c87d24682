------------------------------- MODULE Delivery -------------------------------
(***************************************************************************)
(* What the MQTT client promises of a message handed to it: it is kept     *)
(* until it is acknowledged or given up, it may be delivered any number of *)
(* times, given up or not, and it is acknowledged only if it was.          *)
(***************************************************************************)
CONSTANTS Msgs

VARIABLES status,    \* of a message: "idle", "kept", "acked", "gone"
          delivered  \* the messages the broker has taken

Init == status = [m \in Msgs |-> "idle"] /\ delivered = {}

\* The client takes the message; it need not keep one of QoS 0.
Hand(m) ==
  /\ status[m] = "idle"
  /\ \E s \in {"kept", "gone"} : status' = [status EXCEPT ![m] = s]
  /\ UNCHANGED delivered

Deliver(m) ==
  /\ status[m] # "idle"
  /\ delivered' = delivered \cup {m}
  /\ UNCHANGED status

Acknowledge(m) ==
  /\ status[m] = "kept" /\ m \in delivered
  /\ status' = [status EXCEPT ![m] = "acked"]
  /\ UNCHANGED delivered

\* Messages expire, or the client ends.
GiveUp(ms) ==
  /\ \A m \in ms : status[m] = "kept"
  /\ status' = [m \in Msgs |-> IF m \in ms THEN "gone" ELSE status[m]]
  /\ UNCHANGED delivered

Next ==
  \/ \E m \in Msgs : Hand(m) \/ Deliver(m) \/ Acknowledge(m)
  \/ \E ms \in SUBSET Msgs : GiveUp(ms)

Spec == Init /\ [][Next]_<<status, delivered>>
===============================================================================
