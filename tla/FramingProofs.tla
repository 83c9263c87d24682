---------------------------- MODULE FramingProofs ----------------------------
(***************************************************************************)
(* Framing for every stream of packets, every size of the buffer and any   *)
(* number of sessions: the reader never writes past its buffer, and when   *)
(* short packets do not end in two bytes with the top bit set, it never    *)
(* reads past the end of a message either and keeps in step with the       *)
(* stream.                                                                 *)
(***************************************************************************)
EXTENDS Framing, TLAPS

\* The last two bytes of a packet of at most five do not both have the top bit set (an
\* acknowledgement whose identifier has, for one). The run "split" shows what the reader
\* makes of one that has them.
LastBytesLow ==
  \A n \in 1 .. Len(Packets) :
    LET p == Packets[n] IN p.to - p.from <= 5 => ~ (p.to - 2 \in Tops /\ p.to - 1 \in Tops)

Begun == pc \in {"length", "topic", "body", "process", "payload"} \/ (pc = "idle" /\ read_len > 0)

\* The buffer holds the bytes of the stream from the start of a message on.
StepInv ==
  /\ pc \in {"first", "length", "topic", "body", "process"} => InStep
  /\ pc = "idle" /\ (read_len > 0 \/ (LastBytesLow /\ stalls = 0)) => InStep
  /\ pc = "first" => read_len = 0
  /\ Begun => handled < Len(Packets)

\* The message is one whose first part can be taken into the buffer.
Fitting == Total <= Buf \/ (Current.publish /\ Current.header <= Buf + 2)

\* The part that is read fits the message and the buffer.
PartInv ==
  /\ pc = "idle" /\ read_len > 0 => (LastBytesLow => read_len < Target)
  /\ pc = "length" => /\ read_len >= 1 /\ read_len < 6 /\ (read_len = 1 \/ LastHasTop)
                      /\ LastBytesLow => read_len < Total
  /\ pc = "topic" => /\ Buf < Total /\ Current.publish
                     /\ Current.fixed <= read_len /\ read_len < Current.fixed + 2
  /\ pc = "body" => read_len < Target /\ Fitting
  /\ pc = "process" => Fitting /\ (LastBytesLow => read_len = Target)
  /\ pc = "payload" => /\ msg_read_len < Total /\ pos = Boundary(handled) + msg_read_len
                       /\ TopicEnd <= Buf

IInv == TypeOK /\ StepInv /\ PartInv

USE BoundsAssumption

\* The stream is finite.
LEMMA CountOfPackets == Len(Packets) \in Nat
  BY PacketAssumption

\* What the assumption says of the packet that is being read.
LEMMA CurrentPacket ==
  ASSUME handled \in 0 .. Len(Packets), handled < Len(Packets)
  PROVE  /\ Current.fixed \in 2 .. 5 /\ Boundary(handled) \in Nat /\ Total \in Nat
         /\ Boundary(handled + 1) = Boundary(handled) + Total
         /\ Current.to = Boundary(handled) + Total
         /\ Current.fixed <= Total
         /\ Current.publish \in BOOLEAN /\ Current.id \in BOOLEAN
         /\ Current.header \in Nat /\ Current.header <= Total
         /\ \A i \in 1 .. Current.fixed - 1 : (Boundary(handled) + i \in Tops) <=> (i < Current.fixed - 1)
         /\ LastBytesLow /\ Total <= 5 =>
              ~ (Boundary(handled) + Total - 2 \in Tops /\ Boundary(handled) + Total - 1 \in Tops)
  <1> DEFINE n == handled + 1
  <1>1. n \in 1 .. Len(Packets) /\ Len(Packets) \in Nat
    BY CountOfPackets
  <1>2. Packets[n] \in Packet
    BY <1>1, PacketAssumption
  <1>3. /\ Current = Packets[n] /\ Current.from \in Nat /\ Current.to \in Nat /\ Current.header \in Nat
        /\ Current.fixed \in 2 .. 5 /\ Current.publish \in BOOLEAN /\ Current.id \in BOOLEAN
    BY <1>2 DEF Current, Packet
  <1>4. /\ Current.from = Boundary(handled) /\ Current.to >= Current.from + Current.header
        /\ Current.header >= Current.fixed
        /\ \A i \in 1 .. Current.fixed - 1 : (Current.from + i \in Tops) <=> (i < Current.fixed - 1)
    <2>1. Current.from = Boundary(n - 1) /\ n - 1 = handled
      BY <1>1, <1>3, PacketAssumption
    <2> QED BY <1>1, <1>3, <2>1, PacketAssumption
  <1>5. Boundary(handled + 1) = Current.to
    BY <1>1, <1>3 DEF Boundary
  <1>6. LastBytesLow /\ Total <= 5 => ~ (Current.to - 2 \in Tops /\ Current.to - 1 \in Tops)
    BY <1>1, <1>3 DEF LastBytesLow, Total
  <1>7. Boundary(handled) \in Nat /\ Total = Current.to - Boundary(handled)
    BY <1>3, <1>4 DEF Total
  <1>8. /\ Total \in Nat /\ Current.to = Boundary(handled) + Total /\ Current.fixed <= Total
        /\ Current.header <= Total
    <2>1. Current.to >= Boundary(handled) + Current.header /\ Current.header >= Current.fixed
      BY <1>4
    <2>2. ASSUME NEW to \in Nat, NEW from \in Nat, NEW header \in Nat, NEW fixed \in Nat,
                 to >= from + header, header >= fixed
          PROVE  to - from \in Nat /\ to = from + (to - from) /\ fixed <= to - from /\ header <= to - from
      BY <2>2
    <2> DEFINE to == Current.to from == Boundary(handled) header == Current.header fixed == Current.fixed
    <2>3. fixed \in Nat /\ to \in Nat /\ from \in Nat /\ header \in Nat /\ Total = to - from
      BY <1>3, <1>7
    <2>4. to >= from + header /\ header >= fixed
      BY <2>1
    <2> HIDE DEF to, from, header, fixed
    <2>5. to - from \in Nat /\ to = from + (to - from) /\ fixed <= to - from /\ header <= to - from
      BY <2>2, <2>3, <2>4
    <2> QED BY <2>3, <2>5 DEF to, from, header, fixed
  <1>9. /\ \A i \in 1 .. Current.fixed - 1 : (Boundary(handled) + i \in Tops) <=> (i < Current.fixed - 1)
        /\ LastBytesLow /\ Total <= 5 =>
             ~ (Boundary(handled) + Total - 2 \in Tops /\ Boundary(handled) + Total - 1 \in Tops)
    <2>1. /\ Current.to - 2 = Boundary(handled) + Total - 2
          /\ Current.to - 1 = Boundary(handled) + Total - 1
      BY <1>7, <1>8
    <2> QED BY <1>4, <1>6, <2>1
  <1> QED BY <1>3, <1>5, <1>7, <1>8, <1>9

\* The buffer's bound of a message.
LEMMA TargetBound ==
  ASSUME Total \in Nat
  PROVE  /\ Target \in Nat /\ Target <= Total /\ Target <= Buf
         /\ Target = Total \/ (Target = Buf /\ Buf < Total)
  BY DEF Target

\* Where the reader goes when it knows the remaining length.
LEMMA AfterLengthGoes ==
  ASSUME TypeOK, handled < Len(Packets), NEW n \in Nat, n >= Current.fixed,
         n <= Buf, LastBytesLow => n <= Total
  PROVE  /\ AfterLength(n) \in {"aborted", "topic", "body", "process"}
         /\ AfterLength(n) = "topic" => Buf < Total /\ Current.publish /\ n < Current.fixed + 2
         /\ AfterLength(n) = "body" => n < Target /\ Fitting
         /\ AfterLength(n) = "process" => Fitting /\ (LastBytesLow => n = Target)
  <1>1. /\ Total \in Nat /\ Current.fixed \in 2 .. 5 /\ Current.publish \in BOOLEAN
        /\ Current.header \in Nat
    BY CurrentPacket DEF TypeOK
  <1>2. /\ Target \in Nat /\ Target <= Total /\ Target <= Buf
        /\ Target = Total \/ (Target = Buf /\ Buf < Total)
    BY <1>1, TargetBound
  <1>3. ~ (Buf < Total) <=> Total <= Buf
    BY <1>1
  <1>4. ~ (n < Target) => (LastBytesLow => n = Target)
    BY <1>1, <1>2
  <1>5. ~ (Buf < Current.header - 2) <=> Current.header <= Buf + 2
    BY <1>1
  <1>6. \/ AfterLength(n) = "aborted"
        \/ AfterLength(n) = "topic" /\ Buf < Total /\ Current.publish /\ n < Current.fixed + 2
        \/ AfterLength(n) = "body" /\ n < Target /\ Fitting
        \/ AfterLength(n) = "process" /\ Fitting /\ ~ (n < Target)
    <2>1. CASE Buf < Total /\ ~ Current.publish
      <3>1. AfterLength(n) = "aborted"
        BY <1>1, <2>1 DEF AfterLength
      <3> QED BY <3>1
    <2>2. CASE Buf < Total /\ Current.publish /\ n < Current.fixed + 2
      BY <2>2 DEF AfterLength
    <2>3. CASE Buf < Total /\ Current.publish /\ ~ (n < Current.fixed + 2) /\ Buf < Current.header - 2
      BY <2>3 DEF AfterLength
    <2> DEFINE accepted == ~ (Buf < Total)
                           \/ (Current.publish /\ ~ (n < Current.fixed + 2) /\ ~ (Buf < Current.header - 2))
    <2>4. accepted => Fitting
      BY <1>3, <1>5 DEF Fitting
    <2>5. CASE accepted /\ n < Target
      BY <2>4, <2>5 DEF AfterLength
    <2>6. CASE accepted /\ ~ (n < Target)
      BY <2>4, <2>6 DEF AfterLength
    <2> QED BY <1>1, <2>1, <2>2, <2>3, <2>5, <2>6
  <1> QED BY <1>4, <1>6

\* A part of at least two bytes whose last byte does not have the top bit, or of six, holds
\* the fixed header.
LEMMA HeaderRead ==
  ASSUME TypeOK, handled < Len(Packets), NEW n \in Nat, n >= 2,
         n >= 6 \/ Boundary(handled) + n - 1 \notin Tops
  PROVE  n >= Current.fixed
  <1>1. /\ Current.fixed \in 2 .. 5 /\ Boundary(handled) \in Nat
        /\ \A i \in 1 .. Current.fixed - 1 : (Boundary(handled) + i \in Tops) <=> (i < Current.fixed - 1)
    BY CurrentPacket DEF TypeOK
  <1>2. SUFFICES ASSUME n < Current.fixed PROVE FALSE
    BY <1>1
  <1>3. n - 1 \in 1 .. Current.fixed - 1 /\ n - 1 < Current.fixed - 1
    BY <1>1, <1>2
  <1>4. Boundary(handled) + (n - 1) \in Tops
    BY <1>1, <1>3
  <1> QED BY <1>1, <1>2, <1>4

\* A call that begins or resumes a message.
LEMMA CallKeeps == ASSUME IInv, Call PROVE IInv'
  <1> USE DEF IInv, TypeOK
  <1>1. /\ pc = "idle" /\ InStep /\ previous' = read_len
        /\ UNCHANGED <<pos, read_len, msg_read_len, handled, stalls, sessions>>
    BY DEF Call
  <1>2. CASE read_len = 0
    BY <1>1, <1>2 DEF Call, StepInv, PartInv, InStep, Begun
  <1>3. CASE read_len > 0
    <2>0. /\ handled < Len(Packets) /\ InStep /\ (LastBytesLow => read_len < Target)
      BY <1>1, <1>3 DEF StepInv, PartInv, Begun
    <2>a. /\ Total \in Nat /\ Boundary(handled) \in Nat /\ Current.fixed \in 2 .. 5
      BY <2>0, CurrentPacket
    <2>b. LastBytesLow => read_len < Total /\ read_len <= Total
      BY <2>0, <2>a, TargetBound
    <2>1. CASE ReadsLength(read_len, LastHasTop)
      <3>1. pc' = "length" /\ read_len < 6 /\ (read_len = 1 \/ LastHasTop)
        BY <1>1, <1>3, <2>1 DEF Call, ReadsLength
      <3> QED BY <1>1, <1>3, <2>0, <2>b, <3>1 DEF StepInv, PartInv, InStep, Begun, Fitting, Target, Total, Current, LastHasTop
    <2>2. CASE ~ ReadsLength(read_len, LastHasTop)
      <3>1. pc' = AfterLength(read_len) /\ read_len >= 2 /\ (read_len >= 6 \/ ~ LastHasTop)
        BY <1>1, <1>3, <2>2 DEF Call, ReadsLength
      <3>2. read_len >= 6 \/ Boundary(handled) + read_len - 1 \notin Tops
        <4>1. pos - 1 = Boundary(handled) + read_len - 1
          BY <2>0, <2>a DEF InStep
        <4> QED BY <3>1, <4>1 DEF LastHasTop
      <3>3. read_len >= Current.fixed
        BY <2>0, <3>1, <3>2, HeaderRead
      <3>4. /\ pc' \in {"aborted", "topic", "body", "process"}
            /\ pc' = "topic" => Buf < Total /\ Current.publish /\ read_len < Current.fixed + 2
            /\ pc' = "body" => read_len < Target /\ Fitting
            /\ pc' = "process" => Fitting /\ (LastBytesLow => read_len = Target)
        BY <2>0, <2>b, <3>1, <3>3, AfterLengthGoes
      <3> QED BY <1>1, <2>0, <3>3, <3>4 DEF StepInv, PartInv, InStep, Begun, Fitting, Target, Total, Current
    <2> QED BY <2>1, <2>2
  <1> QED BY <1>2, <1>3

\* A read that times out leaves the part as it was.
LEMMA TimeOutKeeps ==
  ASSUME IInv, pc \in {"length", "topic", "body"}, TimedOut, Frame
  PROVE  IInv'
  <1> USE DEF IInv, TypeOK
  <1>1. /\ UNCHANGED <<pos, read_len, previous, msg_read_len, handled, stalls, sessions>>
        /\ pc' \in {"aborted", "idle"}
    BY DEF TimedOut, Frame
  <1>2. handled < Len(Packets) /\ InStep
    BY DEF StepInv, Begun
  <1>3. Total \in Nat /\ Current.fixed \in 2 .. 5
    BY <1>2, CurrentPacket
  <1>4. LastBytesLow => read_len < Target
    BY <1>3 DEF PartInv, Target
  <1> QED BY <1>1, <1>2, <1>4 DEF StepInv, PartInv, InStep, Begun, Fitting, Target, Total, Current

\* The first byte of a message is its packet type.
LEMMA FirstKeeps == ASSUME IInv, ReadFirst PROVE IInv'
  <1> USE DEF IInv, TypeOK
  <1>0. pc = "first" /\ read_len = 0 /\ InStep
    BY DEF ReadFirst, StepInv
  <1>b. Boundary(handled) \in Nat
    <2>1. CASE handled < Len(Packets)
      BY <2>1, CurrentPacket
    <2>2. CASE handled = Len(Packets)
      <3>1. CASE handled = 0
        BY <3>1 DEF Boundary
      <3>2. CASE handled > 0
        <4>1. handled \in 1 .. Len(Packets) /\ Packets[handled] \in Packet
          BY <2>2, <3>2, CountOfPackets, PacketAssumption
        <4> QED BY <4>1 DEF Boundary, Packet
      <3> QED BY <3>1, <3>2
    <2> QED BY <2>1, <2>2
  <1>c. Boundary(handled) = pos
    BY <1>0, <1>b DEF InStep
  <1>1. PICK k \in Arriving(1) : Took(k) /\ pc' = IF k = 0 THEN "idle" ELSE "length"
    BY DEF ReadFirst
  <1>2. k \in 0 .. 1 /\ pos + k <= Boundary(Len(Packets))
    BY <1>1 DEF Arriving
  <1>3. UNCHANGED <<previous, msg_read_len, handled, stalls, sessions>>
    BY DEF ReadFirst, Frame
  <1>4. CASE k = 0
    BY <1>0, <1>1, <1>3, <1>4 DEF Took, StepInv, PartInv, InStep, Begun
  <1>5. CASE k = 1
    <2>1. handled < Len(Packets)
      <3>1. CASE handled = Len(Packets)
        BY <1>2, <1>5, <1>c, <3>1
      <3> QED BY <3>1
    <2>2. Total \in Nat /\ Current.fixed \in 2 .. 5 /\ Current.fixed <= Total
      BY <2>1, CurrentPacket
    <2>3. read_len' = 1 /\ pos' = pos + 1 /\ pc' = "length"
      BY <1>0, <1>1, <1>5 DEF Took
    <2>4. 1 < Total
      BY <2>2
    <2>5. pos' = Boundary(handled) + 1 /\ pos' \in Nat
      BY <1>c, <2>3
    <2> QED BY <1>3, <2>1, <2>3, <2>4, <2>5 DEF StepInv, PartInv, InStep, Begun, Total, Current
  <1> QED BY <1>2, <1>4, <1>5

\* A byte of the remaining length.
LEMMA LengthKeeps == ASSUME IInv, ReadLength PROVE IInv'
  <1> USE DEF IInv, TypeOK
  <1>0. /\ pc = "length" /\ handled < Len(Packets) /\ InStep
        /\ read_len >= 1 /\ read_len < 6 /\ (read_len = 1 \/ LastHasTop)
        /\ LastBytesLow => read_len < Total
    BY DEF ReadLength, StepInv, PartInv, Begun
  <1>a. /\ Total \in Nat /\ Boundary(handled) \in Nat /\ Current.fixed \in 2 .. 5 /\ Current.fixed <= Total
        /\ \A i \in 1 .. Current.fixed - 1 : (Boundary(handled) + i \in Tops) <=> (i < Current.fixed - 1)
        /\ LastBytesLow /\ Total <= 5 =>
              ~ (Boundary(handled) + Total - 2 \in Tops /\ Boundary(handled) + Total - 1 \in Tops)
    BY <1>0, CurrentPacket
  <1>1. CASE TimedOut /\ Frame
    BY <1>0, <1>1, TimeOutKeeps
  <1>2. CASE /\ Took(1) /\ Frame
             /\ pc' = IF read_len + 1 < 6 /\ pos \in Tops THEN "length" ELSE AfterLength(read_len + 1)
    <2> DEFINE n == read_len + 1
    <2>0. /\ n \in Nat /\ n >= 2 /\ n <= 6 /\ n <= Buf /\ (LastBytesLow => n <= Total)
          /\ read_len' = n /\ pos' = pos + 1 /\ pos = Boundary(handled) + n - 1
          /\ UNCHANGED <<previous, msg_read_len, handled, stalls, sessions>>
      BY <1>0, <1>2, <1>a DEF Took, Frame, InStep
    <2>1. CASE n < 6 /\ pos \in Tops
      <3>1. LastBytesLow => n < Total
        <4>1. SUFFICES ASSUME LastBytesLow, n = Total PROVE FALSE
          BY <1>a, <2>0
        <4>2. Boundary(handled) + Total - 1 \in Tops /\ Total <= 5
          BY <2>0, <2>1, <4>1
        <4>3. CASE read_len = 1
          <5>1. Current.fixed = 2 /\ Total = 2
            BY <1>a, <4>1, <4>3
          <5>2. 1 \in 1 .. Current.fixed - 1 /\ ~ (1 < Current.fixed - 1)
            BY <5>1
          <5>3. Boundary(handled) + 1 \notin Tops
            BY <1>a, <5>2
          <5>4. Boundary(handled) + Total - 1 = Boundary(handled) + 1
            BY <1>a, <5>1
          <5> QED BY <4>2, <5>3, <5>4
        <4>4. CASE LastHasTop
          <5>1. pos - 1 = Boundary(handled) + Total - 2
            <6>1. pos = Boundary(handled) + n - 1 /\ n = Total
              BY <2>0, <4>1
            <6> HIDE DEF IInv, TypeOK, n
            <6> QED BY <1>a, <6>1
          <5> QED BY <1>a, <4>1, <4>2, <4>4, <5>1 DEF LastHasTop
        <4> QED BY <1>0, <4>3, <4>4
      <3>2. pc' = "length" /\ LastHasTop'
        BY <1>2, <2>0, <2>1 DEF LastHasTop
      <3>3. pos' = Boundary(handled) + n
        <4> HIDE DEF n
        <4> QED BY <1>a, <2>0
      <3>4. pos' \in Nat
        BY <1>a, <2>0, <3>3
      <3> HIDE DEF n
      <3> QED BY <1>0, <2>0, <2>1, <3>1, <3>2, <3>3, <3>4 DEF StepInv, PartInv, InStep, Begun, Total, Current
    <2>2. CASE ~ (n < 6 /\ pos \in Tops)
      <3>1. pc' = AfterLength(n) /\ (n >= 6 \/ Boundary(handled) + n - 1 \notin Tops)
        BY <1>2, <2>0, <2>2
      <3>2. n >= Current.fixed
        BY <1>0, <2>0, <3>1, HeaderRead
      <3>3. pos' = Boundary(handled) + n
        BY <1>a, <2>0
      <3> HIDE DEF n
      <3>4. /\ pc' \in {"aborted", "topic", "body", "process"}
            /\ pc' = "topic" => Buf < Total /\ Current.publish /\ n < Current.fixed + 2
            /\ pc' = "body" => n < Target /\ Fitting
            /\ pc' = "process" => Fitting /\ (LastBytesLow => n = Target)
        BY <1>0, <2>0, <3>1, <3>2, AfterLengthGoes
      <3>5. pos' \in Nat /\ read_len' \in 0 .. Buf
        BY <1>a, <2>0, <3>3
      <3> QED BY <1>0, <2>0, <3>2, <3>3, <3>4, <3>5 DEF StepInv, PartInv, InStep, Begun, Fitting, Target, Total, Current
    <2> QED BY <2>1, <2>2
  <1> QED BY <1>1, <1>2 DEF ReadLength

\* The length of the topic.
LEMMA TopicKeeps == ASSUME IInv, ReadTopicLength PROVE IInv'
  <1> USE DEF IInv, TypeOK
  <1>0. /\ pc = "topic" /\ handled < Len(Packets) /\ InStep /\ Buf < Total /\ Current.publish
        /\ Current.fixed <= read_len /\ read_len < Current.fixed + 2
    BY DEF ReadTopicLength, StepInv, PartInv, Begun
  <1>a. Total \in Nat /\ Boundary(handled) \in Nat /\ Current.fixed \in 2 .. 5
    BY <1>0, CurrentPacket
  <1>1. CASE TimedOut /\ Frame
    BY <1>0, <1>1, TimeOutKeeps
  <1>2. ASSUME NEW k \in Arriving(read_len - Current.fixed + 2) \ {0}, Took(k), Frame,
               IF read_len + k < Current.fixed + 2 THEN LeftInProgress ELSE pc' = AfterLength(read_len + k)
        PROVE  IInv'
    <2> DEFINE n == read_len + k
    <2>0. k \in 1 .. read_len - Current.fixed + 2
      BY <1>0, <1>2, <1>a DEF Arriving
    <2>1. /\ n \in Nat /\ n <= 9 /\ n <= Buf /\ n < Total /\ n > 0 /\ n >= Current.fixed
          /\ read_len' = n /\ pos' = Boundary(handled) + n /\ pos' \in Nat
          /\ UNCHANGED <<previous, msg_read_len, handled, stalls, sessions>>
      <3>1. pos' = pos + k /\ read_len' = read_len + k /\ pos = Boundary(handled) + read_len
        BY <1>0, <1>2 DEF Took, InStep
      <3>0. Current.fixed \in Nat /\ read_len \in Nat /\ k \in Nat /\ k > 0
        BY <1>a, <2>0
      <3>2. n \in Nat /\ n <= 9 /\ n > 0 /\ n >= Current.fixed
        <4>1. read_len <= Current.fixed + 1 /\ k <= read_len - Current.fixed + 2 /\ Current.fixed <= 5
          BY <1>0, <1>a, <2>0, <3>0
        <4> QED BY <1>0, <3>0, <4>1
      <3>5. read_len' = n /\ pos' = Boundary(handled) + n /\ pos' \in Nat
        <4> HIDE DEF IInv, TypeOK
        <4> QED BY <1>a, <3>0, <3>1
      <3>3. UNCHANGED <<previous, msg_read_len, handled, stalls, sessions>>
        BY <1>2 DEF Frame
      <3>4. n <= Buf /\ n < Total
        <4> HIDE DEF n
        <4> QED BY <1>0, <1>a, <3>2
      <3> QED BY <3>2, <3>3, <3>4, <3>5
    <2>2. CASE n < Current.fixed + 2
      <3>1. pc' = "idle" /\ n < Target
        BY <1>0, <1>2, <1>a, <2>1, <2>2 DEF LeftInProgress, Target
      <3> HIDE DEF n
      <3> QED BY <1>0, <2>1, <3>1 DEF StepInv, PartInv, InStep, Begun, Fitting, Target, Total, Current
    <2>3. CASE ~ (n < Current.fixed + 2)
      <3>1. pc' = AfterLength(n)
        BY <1>2, <2>3
      <3> HIDE DEF n
      <3>2. /\ pc' \in {"aborted", "topic", "body", "process"}
            /\ pc' = "topic" => Buf < Total /\ Current.publish /\ n < Current.fixed + 2
            /\ pc' = "body" => n < Target /\ Fitting
            /\ pc' = "process" => Fitting /\ (LastBytesLow => n = Target)
        BY <1>0, <1>a, <2>1, <3>1, AfterLengthGoes
      <3> QED BY <1>0, <2>1, <3>2 DEF StepInv, PartInv, InStep, Begun, Fitting, Target, Total, Current
    <2> QED BY <2>2, <2>3
  <1> QED BY <1>1, <1>2 DEF ReadTopicLength

\* The rest of the message, or what of it fits the buffer.
LEMMA BodyKeeps == ASSUME IInv, ReadBody PROVE IInv'
  <1> USE DEF IInv, TypeOK
  <1>0. /\ pc = "body" /\ handled < Len(Packets) /\ InStep
        /\ read_len < Target /\ Fitting
    BY DEF ReadBody, StepInv, PartInv, Begun
  <1>a. Total \in Nat /\ Boundary(handled) \in Nat
    BY <1>0, CurrentPacket
  <1>b. Target \in Nat /\ Target <= Total /\ Target <= Buf
    BY <1>a, TargetBound
  <1>1. CASE TimedOut /\ Frame
    BY <1>0, <1>1, TimeOutKeeps
  <1>2. ASSUME NEW k \in Arriving(Target - read_len) \ {0}, Took(k), Frame,
               IF read_len + k < Target THEN LeftInProgress ELSE pc' = "process"
        PROVE  IInv'
    <2> DEFINE n == read_len + k
    <2>0. k \in 1 .. Target - read_len
      BY <1>2 DEF Arriving
    <2>1. /\ n \in Nat /\ n <= Target /\ n <= Buf /\ n > 0
          /\ read_len' = n /\ pos' = Boundary(handled) + n /\ pos' \in Nat
          /\ UNCHANGED <<previous, msg_read_len, handled, stalls, sessions>>
      <3>1. pos' = pos + k /\ read_len' = read_len + k /\ pos = Boundary(handled) + read_len
        BY <1>0, <1>2 DEF Took, InStep
      <3>0. read_len \in Nat /\ k \in Nat /\ k > 0 /\ k <= Target - read_len
        BY <1>b, <2>0
      <3>2. n \in Nat /\ n <= Target /\ n <= Buf /\ n > 0
        BY <1>b, <3>0
      <3>4. read_len' = n /\ pos' = Boundary(handled) + n /\ pos' \in Nat
        BY <1>a, <3>0, <3>1
      <3>3. UNCHANGED <<previous, msg_read_len, handled, stalls, sessions>>
        BY <1>2 DEF Frame
      <3> QED BY <3>2, <3>3, <3>4
    <2>2. (pc' = "idle" /\ n < Target) \/ (pc' = "process" /\ n = Target)
      BY <1>2, <1>b, <2>1 DEF LeftInProgress
    <2> HIDE DEF n
    <2> QED BY <1>0, <2>1, <2>2 DEF StepInv, PartInv, InStep, Begun, Fitting, Target, Total, Current
  <1> QED BY <1>1, <1>2 DEF ReadBody

\* The message is handled, or its first part.
LEMMA ProcessKeeps == ASSUME IInv, Process PROVE IInv'
  <1> USE DEF IInv, TypeOK
  <1>0. /\ pc = "process" /\ handled < Len(Packets) /\ InStep
        /\ Current.publish \/ Total <= Buf
        /\ LastBytesLow => read_len = Target
        /\ msg_read_len' = read_len /\ UNCHANGED <<pos, previous, stalls, sessions>>
    BY DEF Process, StepInv, PartInv, Begun, Fitting
  <1>a. Total \in Nat /\ Boundary(handled) \in Nat /\ Boundary(handled + 1) = Boundary(handled) + Total
    BY <1>0, CurrentPacket
  <1>b. Target = Total \/ (Target = Buf /\ Buf < Total)
    BY <1>a, TargetBound
  <1>3. CASE Current.publish /\ NoTopic
    <2>1. pc' = "aborted" /\ UNCHANGED <<handled, read_len>>
      BY <1>3 DEF Process
    <2> QED BY <1>0, <2>1 DEF StepInv, PartInv, Begun
  <1>1. CASE Current.publish /\ ~ NoTopic /\ read_len < Total
    <2>1. pc' = "payload" /\ UNCHANGED <<handled, read_len>>
      BY <1>1 DEF Process
    <2>2. TopicEnd <= Buf
      <3>1. ~ (read_len < TopicEnd) /\ read_len \in Nat /\ read_len <= Buf
        BY <1>1 DEF NoTopic
      <3>2. Current.header \in Nat /\ Current.id \in BOOLEAN
        BY <1>0, CurrentPacket
      <3>3. CASE Current.id
        BY <3>1, <3>2, <3>3 DEF TopicEnd
      <3>4. CASE ~ Current.id
        BY <3>1, <3>2, <3>4 DEF TopicEnd
      <3> QED BY <3>2, <3>3, <3>4
    <2> QED BY <1>0, <1>1, <2>1, <2>2 DEF StepInv, PartInv, InStep, Begun, TopicEnd, Total, Current
  <1>2. CASE ~ (Current.publish /\ NoTopic) /\ ~ (Current.publish /\ read_len < Total)
    <2>1. handled' = handled + 1 /\ read_len' = 0 /\ pc' = "idle"
      BY <1>2 DEF Process, Done
    <2>2. LastBytesLow => read_len = Total
      BY <1>0, <1>2, <1>a, <1>b
    <2>3. LastBytesLow => InStep'
      BY <1>0, <1>a, <2>1, <2>2 DEF InStep
    <2> QED BY <1>0, <2>1, <2>3 DEF StepInv, PartInv, Begun
  <1> QED BY <1>1, <1>2, <1>3

\* A further part of a payload, or a pause in it.
LEMMA PayloadKeeps == ASSUME IInv, ReadPayload \/ PayloadStalls PROVE IInv'
  <1> USE DEF IInv, TypeOK
  <1>0. /\ pc = "payload" /\ handled < Len(Packets) /\ msg_read_len < Total
        /\ pos = Boundary(handled) + msg_read_len /\ TopicEnd <= Buf
    BY DEF ReadPayload, PayloadStalls, StepInv, PartInv, Begun
  <1>a. Total \in Nat /\ Boundary(handled) \in Nat /\ Boundary(handled + 1) = Boundary(handled) + Total
    BY <1>0, CurrentPacket
  <1>1. CASE PayloadStalls
    <2>1. /\ stalls' = stalls + 1 /\ stalls' > 0 /\ stalls' \in 0 .. Stalls
          /\ handled' = handled + 1 /\ read_len' = 0 /\ pc' = "idle"
          /\ UNCHANGED <<pos, previous, msg_read_len, sessions>>
      BY <1>1 DEF PayloadStalls, Done
    <2> QED BY <1>0, <2>1 DEF StepInv, PartInv, Begun
  <1>2. ASSUME NEW k \in Arriving(IF Total - msg_read_len > Buf THEN Buf ELSE Total - msg_read_len) \ {0},
               pos' = pos + k, msg_read_len' = msg_read_len + k,
               IF msg_read_len + k < Total THEN UNCHANGED <<pc, handled, read_len>> ELSE Done,
               UNCHANGED <<previous, stalls, sessions>>
        PROVE  IInv'
    <2> DEFINE room == IF Total - msg_read_len > Buf THEN Buf ELSE Total - msg_read_len
    <2>a. room \in Nat /\ room <= Total - msg_read_len
      BY <1>0, <1>a
    <2>b. k \in 1 .. room
      <3> HIDE DEF room
      <3>1. k \in Arriving(room) \ {0}
        BY <1>2 DEF room
      <3> QED BY <2>a, <3>1 DEF Arriving
    <2> HIDE DEF room
    <2>0. /\ k \in Nat /\ msg_read_len + k <= Total /\ msg_read_len' \in Nat /\ pos' \in Nat
          /\ pos' = Boundary(handled) + msg_read_len'
      <3>1. msg_read_len \in Nat /\ pos' = pos + k /\ msg_read_len' = msg_read_len + k
        BY <1>2
      <3> HIDE DEF IInv, TypeOK
      <3> QED BY <1>0, <1>a, <2>a, <2>b, <3>1
    <2>1. CASE msg_read_len + k < Total
      <3>1. UNCHANGED <<pc, handled, read_len, previous, stalls, sessions>> /\ msg_read_len' < Total
        BY <1>2, <2>1
      <3>2. TopicEnd <= Buf
        BY <1>0
      <3> QED BY <1>0, <2>0, <3>1, <3>2 DEF StepInv, PartInv, InStep, Begun, TopicEnd, Total, Current
    <2>2. CASE ~ (msg_read_len + k < Total)
      <3>1. handled' = handled + 1 /\ read_len' = 0 /\ pc' = "idle"
        BY <1>2, <2>2 DEF Done
      <3>2. pos' = Boundary(handled + 1)
        <4>1. msg_read_len' = Total
          BY <1>0, <1>2, <1>a, <2>0, <2>2
        <4> QED BY <1>a, <2>0, <4>1
      <3>3. InStep'
        BY <1>a, <3>1, <3>2 DEF InStep
      <3> QED BY <1>0, <1>2, <2>0, <3>1, <3>3 DEF StepInv, PartInv, Begun
    <2> QED BY <2>1, <2>2
  <1> QED BY <1>1, <1>2 DEF ReadPayload

\* IInv is inductive.
LEMMA Invariant == Spec => []IInv
  <1>1. ASSUME Init PROVE IInv
    <2>1. TypeOK
      <3>1. Len(Packets) \in Nat
        BY CountOfPackets
      <3>2. 0 \in 0 .. Buf /\ 0 \in 0 .. Len(Packets) /\ 0 \in 0 .. Stalls /\ 1 \in 0 .. Sessions
        BY <3>1
      <3> QED BY <1>1, <3>2 DEF Init, TypeOK
    <2>2. StepInv /\ PartInv
      BY <1>1 DEF Init, StepInv, PartInv, InStep, Begun, Boundary
    <2> QED BY <2>1, <2>2 DEF IInv
  <1>2. ASSUME IInv, [Next]_vars PROVE IInv'
    <2>1. CASE ReadFails \/ AnswerFails
      BY <1>2, <2>1 DEF ReadFails, AnswerFails, IInv, TypeOK, StepInv, PartInv, Begun
    <2>2. CASE Reconnect
      <3>1. /\ pos' = 0 /\ handled' = 0 /\ read_len' = 0 /\ pc' = "idle" /\ sessions' = sessions + 1
            /\ sessions < Sessions /\ UNCHANGED <<previous, msg_read_len, stalls>>
        BY <2>2 DEF Reconnect
      <3>2. InStep' /\ ~ Begun'
        BY <3>1 DEF InStep, Boundary, Begun
      <3> QED BY <1>2, <3>1, <3>2 DEF IInv, TypeOK, StepInv, PartInv
    <2>3. CASE UNCHANGED vars
      BY <1>2, <2>3 DEF vars, IInv, TypeOK, StepInv, PartInv, InStep, Begun, Fitting, Target, TopicEnd, Total, Current, LastHasTop
    <2> QED BY <1>2, <2>1, <2>2, <2>3, CallKeeps, FirstKeeps, LengthKeeps, TopicKeeps, BodyKeeps, ProcessKeeps,
      PayloadKeeps DEF Next, Receive
  <1>3. IInv /\ [Next]_vars => IInv'
    BY <1>2
  <1>4. Init => IInv
    BY <1>1
  <1> QED BY <1>3, <1>4, PTL DEF Spec

\* mqtt_client.c:1240-1349: whatever the broker sends, in_buffer_read_len stays within the buffer.
THEOREM TypeCorrect == Spec => []TypeOK
  <1>1. IInv => TypeOK
    BY DEF IInv
  <1> QED BY <1>1, Invariant, PTL

\* mqtt_client.c:1302-1349: nothing is read past the end of the buffer or of the message, and what
\* mqtt_get_id reads was read from the stream, unless the headers are one or two bytes too long.
THEOREM ReadsWithinBuffer == ASSUME LastBytesLow PROVE Spec => []WithinBuffer
  <1>1. ASSUME IInv PROVE WithinBuffer
    <2>1. read_len <= Buf /\ read_len \in Nat
      BY <1>1 DEF IInv, TypeOK
    <2>2. ASSUME pc \in {"topic", "body", "process"} PROVE read_len <= Total
      <3>1. Total \in Nat /\ Current.fixed \in 2 .. 5
        BY <1>1, <2>2, CurrentPacket DEF IInv, TypeOK, StepInv, Begun
      <3>2. Target \in Nat /\ Target <= Total
        BY <3>1, TargetBound
      <3> QED BY <1>1, <2>1, <2>2, <3>1, <3>2 DEF IInv, PartInv
    <2>3. pc = "payload" => TopicEnd <= Buf
      BY <1>1 DEF IInv, PartInv
    <2>4. ASSUME pc = "process"
          PROVE  Current.header <= read_len \/ Current.header \in {Buf + 1, Buf + 2}
      <3>1. /\ Total \in Nat /\ Current.header \in Nat /\ Current.header <= Total
            /\ Fitting /\ read_len = Target
        BY <1>1, <2>4, CurrentPacket DEF IInv, TypeOK, StepInv, PartInv, Begun
      <3>2. CASE Total <= Buf
        <4>1. read_len = Total
          BY <3>1, <3>2 DEF Target
        <4> QED BY <3>1, <4>1
      <3>3. CASE Buf < Total /\ Current.header <= Buf + 2
        <4>1. read_len = Buf
          BY <3>1, <3>3 DEF Target
        <4> QED BY <3>1, <3>3, <4>1
      <3> QED BY <3>1, <3>2, <3>3 DEF Fitting
    <2> QED BY <2>1, <2>2, <2>3, <2>4 DEF WithinBuffer
  <1>2. IInv => WithinBuffer
    BY <1>1
  <1> QED BY <1>2, Invariant, PTL

\* mqtt_client.c:1244-1253: between calls the client is in step with the stream: what was taken off it
\* is the messages handled and the part in the buffer, unless a payload stalled.
THEOREM MessagesAreWhole == ASSUME LastBytesLow PROVE Spec => []WholeMessages
  <1>1. IInv => WholeMessages
    BY DEF IInv, StepInv, WholeMessages
  <1> QED BY <1>1, Invariant, PTL
===============================================================================
