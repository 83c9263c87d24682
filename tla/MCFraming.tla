------------------------------ MODULE MCFraming ------------------------------
(* Framing with the streams of its runs.                                     *)
EXTENDS Framing

Publish(id, fixed, header, from, len) ==
  [publish |-> TRUE, id |-> id, fixed |-> fixed, header |-> header, from |-> from, to |-> from + len]
Other(from, len) ==
  [publish |-> FALSE, id |-> FALSE, fixed |-> 2, header |-> 4, from |-> from, to |-> from + len]

\* A SUBACK, a PUBLISH that just fits, one with a remaining length of two bytes that
\* is handed over in parts, a PUBACK, two with headers one and two bytes longer than
\* the buffer, and one without an identifier whose topic is cut off.
\* Tops holds the first of the two bytes of remaining length of the long one (20)
\* and the upper half of some identifiers (2, 154), a topic's first letter (9, 10)
\* and a packet type (0).
StreamPackets == << Other(0, 5), Publish(TRUE, 2, 10, 5, 14), Publish(TRUE, 3, 10, 19, 133), Other(152, 4),
                    Publish(TRUE, 2, 15, 156, 20), Publish(TRUE, 2, 16, 176, 18), Publish(FALSE, 2, 16, 194, 30) >>
StreamTops == {0, 2, 9, 10, 20, 154}

\* Two PUBACKs; both bytes of the identifier of the first have the top bit.
SplitPackets == << Other(0, 4), Other(4, 4) >>
SplitTops == {2, 3}
===============================================================================
