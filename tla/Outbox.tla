-------------------------------- MODULE Outbox --------------------------------
(***************************************************************************)
(* lib/mqtt_outbox.c of the MQTT component: the list in which the client   *)
(* keeps a message until it is acknowledged. An item is a record of its    *)
(* message identifier, type, QoS and pending state; its buffer is          *)
(* abstracted to the message m it encodes, and its tick to choices of the  *)
(* caller (whether an item has expired, whether a retransmission is due).  *)
(***************************************************************************)
EXTENDS Naturals, Sequences, SequencesExt

Pendings == {"QUEUED", "TRANSMITTED", "ACKNOWLEDGED"}
MsgTypes == {"PUBLISH", "SUBSCRIBE"}

\* outbox_enqueue: at the tail, and not transmitted yet.
Enqueue(outbox, m, id, type, qos) ==
  Append(outbox, [m |-> m, id |-> id, type |-> type, qos |-> qos, pending |-> "QUEUED"])

\* outbox_get, outbox_dequeue: the place of the first item of that identifier, or
\* of that pending state; 0 when there is none. Neither removes the item.
Get(outbox, id)          == SelectInSeq(outbox, LAMBDA item : item.id = id)
Dequeue(outbox, pending) == SelectInSeq(outbox, LAMBDA item : item.pending = pending)

\* outbox_set_pending: on whatever item outbox_get finds.
SetPending(outbox, id, pending) ==
  LET i == Get(outbox, id)
  IN  IF i = 0 THEN outbox ELSE [outbox EXCEPT ![i].pending = pending]

\* Mutant: the identifier is not compared.
InitiatorOfType(outbox, id, type) == SelectInSeq(outbox, LAMBDA item : item.type = type)

\* The item that outbox_delete(id, type) removes; 0 when there is none.
Initiator(outbox, id, type) ==
  SelectInSeq(outbox, LAMBDA item : item.id = id /\ item.type = type)

\* Mutant: the items behind the one deleted are lost with it.
DeleteTail(outbox, i) == SubSeq(outbox, 1, i - 1)

\* outbox_delete_item, and one turn of the loops that delete.
DeleteItem(outbox, i) == RemoveAt(outbox, i)
===============================================================================
