---------------------------- MODULE PacketsProofs ----------------------------
(***************************************************************************)
(* Theorems about the packets the MQTT client builds, keeps and receives,  *)
(* for every size of the buffers, every set of messages and                *)
(* configurations, and any number of calls and sessions.                   *)
(***************************************************************************)
EXTENDS Packets, WellFoundedInduction, SequenceTheorems, TLAPS

-----------------------------------------------------------------------------
(* Fields and sizes.                                                       *)

Names == {"protocol", "properties", "client_id", "will_properties", "will_topic", "will_message", "username",
          "password", "topic", "id", "filter", "options", "reason"}
Field == [is : Names, len : Nat]

LessThan == {ss \in Nat \X Nat : ss[1] < ss[2]}

\* A set of natural numbers that is not empty has a least one.
LEMMA Least ==
  ASSUME NEW I \in SUBSET Nat, I # {}
  PROVE  \E i \in I : \A j \in I : i <= j
  <1>1. IsWellFoundedOn(LessThan, Nat)
    BY NatLessThanWellFounded, Zenon DEF OpToRel, LessThan
  <1>2. PICK i \in I : \A j \in I : ~ (<<j, i>> \in LessThan)
    BY <1>1, WFMin
  <1>3. ASSUME NEW a \in Nat, NEW b \in Nat, ~ (a <= b) PROVE <<b, a>> \in LessThan
    BY <1>3 DEF LessThan
  <1> QED BY <1>2, <1>3

\* The length of every field is a number.
LEMMA FieldsHaveLengths ==
  ASSUME NEW fields \in Seq(Field)
  PROVE  Len(fields) \in Nat /\ \A n \in 1 .. Len(fields) : fields[n].len \in Nat
  <1>1. ASSUME NEW n \in 1 .. Len(fields) PROVE fields[n] \in Field
    OBVIOUS
  <1>2. ASSUME NEW f \in Field PROVE f.len \in Nat
    BY <1>2 DEF Field
  <1> QED BY <1>1, <1>2

\* The partial sums of a list of fields.
SumsOf(sums, fields) ==
    /\ sums \in [0 .. Len(fields) -> Nat]
    /\ sums[0] = 0
    /\ \A n \in 1 .. Len(fields) : sums[n] = sums[n - 1] + fields[n].len

\* Every list of fields has partial sums: from those of all its fields but the last one.
LEMMA SumsExist ==
  ASSUME NEW fields \in Seq(Field)
  PROVE  \E sums : SumsOf(sums, fields)
  <1> DEFINE L == Len(fields)
             Upto(s, k) == /\ s \in [0 .. k -> Nat] /\ s[0] = 0
                           /\ \A n \in 1 .. k : s[n] = s[n - 1] + fields[n].len
             Bad == {k \in 0 .. L : ~ \E s : Upto(s, k)}
  <1>1. L \in Nat /\ \A n \in 1 .. L : fields[n].len \in Nat
    BY FieldsHaveLengths
  <1>2. SUFFICES ASSUME Bad # {} PROVE FALSE
    BY <1>1 DEF SumsOf
  <1>3. Bad \in SUBSET Nat
    OBVIOUS
  <1>4. PICK k \in Bad : \A j \in Bad : k <= j
    BY <1>2, <1>3, Least
  <1>5. k # 0
    <2>1. Upto([n \in {0} |-> 0], 0)
      OBVIOUS
    <2> QED BY <2>1
  <1>6. k - 1 \in 0 .. L /\ ~ (k - 1 \in Bad) /\ k \in 1 .. L
    <2>1. k \in 1 .. L
      BY <1>1, <1>5
    <2> HIDE DEF Bad
    <2>2. ~ (k - 1 \in Bad)
      BY <1>1, <1>3, <1>4, <2>1
    <2> QED BY <1>1, <2>1, <2>2
  <1>7. PICK s : Upto(s, k - 1)
    BY <1>6
  <1> DEFINE t == [n \in 0 .. k |-> IF n = k THEN s[k - 1] + fields[k].len ELSE s[n]]
  <1>8. Upto(t, k)
    <2>1. fields[k].len \in Nat /\ s[k - 1] \in Nat
      BY <1>1, <1>6, <1>7
    <2>2. t \in [0 .. k -> Nat]
      BY <1>1, <1>6, <1>7, <2>1
    <2>3. t[0] = 0
      BY <1>1, <1>6, <1>7
    <2>4. ASSUME NEW n \in 1 .. k PROVE t[n] = t[n - 1] + fields[n].len
      <3>1. n \in 0 .. k /\ n - 1 \in 0 .. k /\ n - 1 # k
        BY <1>1, <1>6
      <3>2. t[n - 1] = s[n - 1] /\ t[n] = IF n = k THEN s[k - 1] + fields[k].len ELSE s[n]
        BY <3>1
      <3>3. CASE n = k
        BY <3>2, <3>3
      <3>4. CASE n # k
        <4>1. n \in 1 .. k - 1
          BY <1>1, <1>6, <3>4
        <4> QED BY <1>7, <3>2, <3>4, <4>1
      <3> QED BY <3>3, <3>4
    <2> QED BY <2>2, <2>3, <2>4
  <1> QED BY <1>4, <1>8

\* Size adds them up.
LEMMA SizeSums ==
  ASSUME NEW fields \in Seq(Field)
  PROVE  \E sums : SumsOf(sums, fields) /\ Size(fields) = sums[Len(fields)]
  <1> DEFINE L == Len(fields)
             upTo[n \in 0 .. L] == IF n = 0 THEN 0 ELSE upTo[n - 1] + fields[n].len
  <1>1. PICK s : SumsOf(s, fields)
    BY SumsExist
  <1>2. L \in Nat /\ \A n \in 1 .. L : fields[n].len \in Nat
    BY FieldsHaveLengths
  <1>3. s = [n \in 0 .. L |-> IF n = 0 THEN 0 ELSE s[n - 1] + fields[n].len]
    BY <1>1, <1>2 DEF SumsOf
  <1>4. upTo = [n \in 0 .. L |-> IF n = 0 THEN 0 ELSE upTo[n - 1] + fields[n].len]
    BY <1>3
  <1>5. Size(fields) = upTo[L]
    BY DEF Size
  <1> HIDE DEF upTo
  <1>6. upTo[0] = 0 /\ \A n \in 1 .. L : upTo[n] = upTo[n - 1] + fields[n].len
    BY <1>2, <1>4
  <1>7. \A n \in 0 .. L : upTo[n] = s[n]
    <2> DEFINE Bad == {n \in 0 .. L : upTo[n] # s[n]}
    <2>1. SUFFICES ASSUME Bad # {} PROVE FALSE
      OBVIOUS
    <2>2. Bad \in SUBSET Nat
      BY <1>2
    <2>3. PICK k \in Bad : \A j \in Bad : k <= j
      BY <2>1, <2>2, Least
    <2>4. k # 0 
      BY <1>1, <1>6 DEF SumsOf
    <2>5. k - 1 \in 0 .. L /\ ~ (k - 1 \in Bad) /\ k \in 1 .. L
      BY <1>2, <2>3, <2>4
    <2> QED BY <1>1, <1>6, <2>5 DEF SumsOf
  <1> QED BY <1>1, <1>2, <1>5, <1>7

\* The size of a list of fields is a number.
LEMMA SizeIsNat ==
  ASSUME NEW fields \in Seq(Field)
  PROVE  Size(fields) \in Nat
  <1>1. PICK sums : SumsOf(sums, fields) /\ Size(fields) = sums[Len(fields)]
    BY SizeSums
  <1>2. Len(fields) \in 0 .. Len(fields)
    BY FieldsHaveLengths
  <1> QED BY <1>1, <1>2 DEF SumsOf

LEMMA SizeOfNone == Size(<<>>) = 0
  <1>1. <<>> \in Seq(Field) /\ Len(<<>>) = 0
    OBVIOUS
  <1>2. PICK sums : SumsOf(sums, <<>>) /\ Size(<<>>) = sums[Len(<<>>)]
    BY <1>1, SizeSums
  <1> QED BY <1>1, <1>2 DEF SumsOf

\* One field takes its own length.
LEMMA SizeOfOne ==
  ASSUME NEW f \in Field
  PROVE  <<f>> \in Seq(Field) /\ Size(<<f>>) = f.len
  <1>1. <<f>> \in Seq(Field) /\ Len(<<f>>) = 1 /\ <<f>>[1] = f
    OBVIOUS
  <1>2. PICK sums : SumsOf(sums, <<f>>) /\ Size(<<f>>) = sums[Len(<<f>>)]
    BY <1>1, SizeSums
  <1>3. f.len \in Nat
    BY DEF Field
  <1>4. sums[0] = 0 /\ sums[1] = sums[0] + f.len
    BY <1>1, <1>2 DEF SumsOf
  <1> QED BY <1>1, <1>2, <1>3, <1>4

\* The sums of two lists together are those of the first, and then those of the second
\* on top of its size.
LEMMA SizeOfBoth ==
  ASSUME NEW s \in Seq(Field), NEW t \in Seq(Field)
  PROVE  Size(s \o t) = Size(s) + Size(t)
  <1>1. PICK a : SumsOf(a, s) /\ Size(s) = a[Len(s)]
    BY SizeSums
  <1>2. PICK b : SumsOf(b, t) /\ Size(t) = b[Len(t)]
    BY SizeSums
  <1>3. /\ s \o t \in Seq(Field) /\ Len(s \o t) = Len(s) + Len(t)
        /\ \A i \in 1 .. Len(s) + Len(t) : (s \o t)[i] = IF i <= Len(s) THEN s[i] ELSE t[i - Len(s)]
    BY ConcatProperties
  <1>4. PICK c : SumsOf(c, s \o t) /\ Size(s \o t) = c[Len(s \o t)]
    BY <1>3, SizeSums
  <1>5. /\ Len(s) \in Nat /\ \A i \in 1 .. Len(s) : s[i].len \in Nat
        /\ Len(t) \in Nat /\ \A i \in 1 .. Len(t) : t[i].len \in Nat
    BY FieldsHaveLengths
  <1> DEFINE N == Len(s) + Len(t)
             d == [n \in 0 .. N |-> IF n <= Len(s) THEN a[n] ELSE a[Len(s)] + b[n - Len(s)]]
             Bad == {n \in 0 .. N : c[n] # d[n]}
  <1>6. \A n \in 0 .. N : c[n] = d[n]
    <2>1. SUFFICES ASSUME Bad # {} PROVE FALSE
      OBVIOUS
    <2>2. Bad \in SUBSET Nat
      BY <1>5
    <2>3. PICK k \in Bad : \A j \in Bad : k <= j
      BY <2>1, <2>2, Least
    <2>4. d[0] = 0 /\ c[0] = 0
      BY <1>1, <1>4, <1>5 DEF SumsOf
    <2>5. k \in 1 .. N
      BY <1>5, <2>3, <2>4
    <2>6. ~ (k - 1 \in Bad)
      <3> HIDE DEF Bad
      <3> QED BY <1>5, <2>2, <2>3, <2>5
    <2>7. k - 1 \in 0 .. N /\ c[k - 1] = d[k - 1]
      BY <1>5, <2>5, <2>6
    <2>8. c[k] = c[k - 1] + (s \o t)[k].len
      BY <1>3, <1>4, <2>5 DEF SumsOf
    <2>9. d[k] = d[k - 1] + (s \o t)[k].len
      <3>1. CASE k <= Len(s)
        <4>1. d[k] = a[k] /\ d[k - 1] = a[k - 1] /\ (s \o t)[k] = s[k] /\ k \in 1 .. Len(s)
          BY <1>3, <1>5, <2>5, <2>7, <3>1
        <4> QED BY <1>1, <4>1 DEF SumsOf
      <3>2. CASE ~ (k <= Len(s))
        <4>1. k - Len(s) \in 1 .. Len(t) /\ k \in 0 .. N
          BY <1>5, <2>5, <3>2
        <4>2. d[k] = a[Len(s)] + b[k - Len(s)] /\ (s \o t)[k] = t[k - Len(s)]
          BY <1>3, <1>5, <2>5, <3>2, <4>1
        <4>3. b[k - Len(s)] = b[k - Len(s) - 1] + t[k - Len(s)].len
          BY <1>2, <4>1 DEF SumsOf
        <4>4. d[k - 1] = a[Len(s)] + b[k - Len(s) - 1]
          <5>1. CASE k - 1 = Len(s)
            <6>1. d[k - 1] = a[Len(s)] /\ k - Len(s) - 1 = 0
              BY <1>5, <2>5, <2>7, <5>1
            <6>2. b[0] = 0
              BY <1>2 DEF SumsOf
            <6>3. Len(s) \in 0 .. Len(s)
              BY <1>5
            <6>4. a[Len(s)] \in Nat
              BY <1>1, <6>3 DEF SumsOf
            <6> QED BY <6>1, <6>2, <6>4
          <5>2. CASE k - 1 # Len(s)
            <6>1. ~ (k - 1 <= Len(s)) /\ k - 1 - Len(s) = k - Len(s) - 1
              BY <1>5, <2>5, <3>2, <5>2
            <6> QED BY <2>7, <6>1
          <5> QED BY <5>1, <5>2
        <4>5. a[Len(s)] \in Nat /\ b[k - Len(s) - 1] \in Nat /\ t[k - Len(s)].len \in Nat
          <5>1. Len(s) \in 0 .. Len(s) /\ k - Len(s) - 1 \in 0 .. Len(t)
            BY <1>5, <4>1
          <5> QED BY <1>1, <1>2, <1>5, <4>1, <5>1 DEF SumsOf
        <4> HIDE DEF d
        <4> QED BY <4>2, <4>3, <4>4, <4>5
      <3> QED BY <3>1, <3>2
    <2> QED BY <2>3, <2>7, <2>8, <2>9
  <1>7. c[N] = a[Len(s)] + b[Len(t)]
    <2>1. N \in 0 .. N /\ Len(s) \in 0 .. Len(s)
      BY <1>5
    <2>2. CASE Len(t) = 0
      BY <1>1, <1>2, <1>5, <1>6, <2>1, <2>2 DEF SumsOf
    <2>3. CASE Len(t) # 0
      <3>1. ~ (N <= Len(s)) /\ N - Len(s) = Len(t)
        BY <1>5, <2>3
      <3> QED BY <1>6, <2>1, <3>1
    <2> QED BY <2>2, <2>3
  <1> QED BY <1>1, <1>2, <1>3, <1>4, <1>7

-----------------------------------------------------------------------------
LEMMA LengthBytesRange ==
  ASSUME NEW n
  PROVE  LengthBytes(n) \in Nat /\ 1 <= LengthBytes(n) /\ LengthBytes(n) <= 4
  BY DEF LengthBytes

\* The kinds of fields, and their lengths.
LEMMA StringIsField ==
  ASSUME NEW name \in Names, NEW n \in Nat
  PROVE  String(name, n) \in Field /\ String(name, n).len = 2 + n
  BY DEF String, Field

LEMMA NumberIsField ==
  ASSUME NEW name \in Names, NEW n \in Nat
  PROVE  Number(name, n) \in Field /\ Number(name, n).len = n
  BY DEF Number, Field

\* The properties are one field in version 5, of at least one byte, and none in version 3.
LEMMA PropertiesAreFields ==
  ASSUME NEW v, NEW name \in Names, NEW n \in Nat
  PROVE  /\ Properties(v, name, n) \in Seq(Field)
         /\ Size(Properties(v, name, n)) \in Nat
         /\ v = 5 => Size(Properties(v, name, n)) > 0
         /\ v # 5 => Size(Properties(v, name, n)) = 0
  <1> DEFINE f == [is |-> name, len |-> LengthBytes(n) + n]
  <1>1. f \in Field /\ f.len > 0
    BY LengthBytesRange DEF Field
  <1> HIDE DEF f
  <1>2. CASE v = 5
    <2>1. Properties(v, name, n) = <<f>>
      BY <1>2 DEF Properties, f
    <2>2. <<f>> \in Seq(Field) /\ Size(<<f>>) = f.len /\ f.len \in Nat
      BY <1>1, SizeOfOne, FieldsHaveLengths DEF Field
    <2> QED BY <1>1, <1>2, <2>1, <2>2
  <1>3. CASE v # 5
    <2>1. Properties(v, name, n) = <<>>
      BY <1>3 DEF Properties
    <2> QED BY <1>3, <2>1, SizeOfNone
  <1> QED BY <1>2, <1>3

\* The fields of a PUBLISH, and what they take.
LEMMA PublishFieldsSize ==
  ASSUME NEW v, NEW m, m.topic \in Nat, m.qos \in 0 .. 2, m.properties \in Nat
  PROVE  /\ PublishFields(v, m) \in Seq(Field)
         /\ Size(PublishFields(v, m)) \in Nat
         /\ Size(PublishFields(v, m)) = 2 + m.topic + IdBytes(m) + Size(Properties(v, "properties", m.properties))
  <1> DEFINE s == <<String("topic", m.topic)>>
             t == Maybe(m.qos > 0, <<Number("id", 2)>>)
             u == Properties(v, "properties", m.properties)
  <1>1. s \in Seq(Field) /\ Size(s) = 2 + m.topic
    <2>1. String("topic", m.topic) \in Field /\ String("topic", m.topic).len = 2 + m.topic
      BY StringIsField DEF Names
    <2> QED BY <2>1, SizeOfOne
  <1>2. t \in Seq(Field) /\ Size(t) = IdBytes(m)
    <2>1. Number("id", 2) \in Field /\ Number("id", 2).len = 2
      BY NumberIsField DEF Names
    <2>2. <<Number("id", 2)>> \in Seq(Field) /\ Size(<<Number("id", 2)>>) = 2
      BY <2>1, SizeOfOne
    <2>3. t = IF m.qos > 0 THEN <<Number("id", 2)>> ELSE <<>>
      BY DEF Maybe
    <2> HIDE DEF t
    <2>4. CASE m.qos > 0
      BY <2>2, <2>3, <2>4 DEF IdBytes
    <2>5. CASE ~ (m.qos > 0)
      <3>1. t = <<>> /\ IdBytes(m) = 0
        BY <2>3, <2>5 DEF IdBytes
      <3>2. <<>> \in Seq(Field)
        OBVIOUS
      <3> QED BY <3>1, <3>2, SizeOfNone
    <2> QED BY <2>4, <2>5
  <1>3. u \in Seq(Field)
    <2>1. "properties" \in Names
      BY DEF Names
    <2> QED BY <2>1, PropertiesAreFields
  <1>4. PublishFields(v, m) = s \o t \o u
    BY DEF PublishFields
  <1> HIDE DEF s, t, u
  <1>5. s \o t \in Seq(Field) /\ s \o t \o u \in Seq(Field)
    BY <1>1, <1>2, <1>3, ConcatProperties
  <1>6. Size(s \o t \o u) = Size(s) + Size(t) + Size(u)
    BY <1>1, <1>2, <1>3, <1>5, SizeOfBoth
  <1>7. Size(s) \in Nat /\ Size(t) \in Nat /\ Size(u) \in Nat
    BY <1>1, <1>2, <1>3, SizeIsNat
  <1>8. Size(PublishFields(v, m)) \in Nat
    BY <1>4, <1>5, SizeIsNat
  <1>9. Size(PublishFields(v, m)) = 2 + m.topic + IdBytes(m) + Size(u)
    BY <1>1, <1>2, <1>4, <1>6
  <1> QED BY <1>4, <1>5, <1>8, <1>9 DEF u

\* The total of a message sent in fragments counts the place of the fixed header.
Headers == [total : {0} \cup {n \in Nat : n >= 5}, offset : Nat]

\* fini_message: with nothing left of an earlier message, the header announces the packet.
LEMMA FiniAnnounces ==
  ASSUME NEW o \in Headers, NEW body \in Nat, NEW built, built = FiniMessage(o, body)
  PROVE  /\ built.says \in Nat /\ built.length \in Nat /\ built.outbound \in Headers
         /\ built.outbound.total = o.total
         /\ o.total = 0 => built.says = built.length /\ built.length <= MaxFixedHeader + body
  BY LengthBytesRange DEF FiniMessage, Headers, Plus, MaxFixedHeader

\* What mqtt_msg_publish makes of a message: it is whole in the buffer, or as much of it as
\* fits, and the header then announces the rest.
WholeInBuffer(built, m) ==
    /\ built.outbound.total = 0
    /\ built.held = m.payload
    /\ built.says = built.length /\ built.length <= BufferLength

FirstFragment(built, m) ==
    /\ built.outbound.total # 0
    /\ built.held < m.payload
    /\ built.length - built.outbound.offset = built.held
    /\ built.says = built.length + (m.payload - built.held)

Start(v, m) == MaxFixedHeader + Size(PublishFields(v, m))

\* mqtt_msg_publish: types whatever is left in the outbound message, and what it makes of the
\* message when nothing is.
LEMMA PublishBuilds ==
  ASSUME NEW v, NEW m \in Messages, NEW o \in Headers,
         Fits(PublishFields(v, m)), NEW built, built = PublishMessage(v, m, o)
  PROVE  /\ built.says \in Nat /\ built.length \in Nat /\ built.held \in Nat /\ built.outbound \in Headers
         /\ m.payload = 0 \/ built.outbound.total = 0 \/ FirstFragment(built, m)
         /\ o.total = 0 => WholeInBuffer(built, m) \/ FirstFragment(built, m)
         /\ o.total = 0 /\ Start(v, m) + m.payload <= BufferLength => WholeInBuffer(built, m)
  <1> DEFINE start  == Start(v, m)
             room   == BufferLength - start
             bodied == IF v = 3 /\ m.null THEN o
                       ELSE IF m.payload > room THEN [total |-> m.payload + start, offset |-> start]
                       ELSE [o EXCEPT !.total = 0]
             held   == IF m.payload > room THEN room ELSE m.payload
             body   == start + held - MaxFixedHeader
             fini   == FiniMessage(bodied, body)
  <1>1. /\ m.topic \in Nat /\ m.qos \in 0 .. 2 /\ m.properties \in Nat /\ m.payload \in Nat
        /\ m.null => m.payload = 0
    BY MessagesAssumption
  <1>2. /\ start \in Nat /\ start >= MaxFixedHeader /\ start <= BufferLength /\ BufferLength \in Nat
        /\ MaxFixedHeader = 5
    BY <1>1, PublishFieldsSize, BufferAssumption DEF Start, Fits, MaxFixedHeader
  <1>3. built.says = fini.says /\ built.length = fini.length /\ built.outbound = fini.outbound /\ built.held = held
    BY DEF PublishMessage, Start
  <1> HIDE DEF start
  <1>4. held \in Nat /\ body \in Nat /\ held <= m.payload /\ held <= room
    BY <1>1, <1>2
  <1>5. bodied \in Headers
    BY <1>1, <1>2 DEF Headers
  <1>6. CASE m.payload <= room
    <2>1. /\ held = m.payload
          /\ o.total = 0 => bodied.total = 0
          /\ m.payload = 0 \/ bodied.total = 0
      BY <1>1, <1>2, <1>6 DEF Headers
    <2> HIDE DEF bodied, held
    <2>2. MaxFixedHeader + body <= BufferLength
      BY <1>1, <1>2, <1>4, <1>6, <2>1
    <2> HIDE DEF body
    <2>3. /\ fini.says \in Nat /\ fini.length \in Nat /\ fini.outbound \in Headers
          /\ fini.outbound.total = bodied.total
          /\ bodied.total = 0 => fini.says = fini.length /\ fini.length <= MaxFixedHeader + body
      BY <1>4, <1>5, <2>1, FiniAnnounces
    <2> QED BY <1>2, <1>3, <1>4, <2>1, <2>2, <2>3 DEF WholeInBuffer
  <1>7. CASE m.payload > room
    <2>1. bodied = [total |-> m.payload + start, offset |-> start] /\ held = room
      BY <1>1, <1>2, <1>7
    <2> DEFINE remaining == m.payload + start - MaxFixedHeader
               bytes == LengthBytes(remaining)
    <2>2. bytes \in Nat /\ 1 <= bytes /\ bytes <= 4
      BY LengthBytesRange
    <2> HIDE DEF bytes
    <2>3. m.payload + start # 0
      BY <1>1, <1>2
    <2>4. /\ fini.says = 1 + bytes + remaining
          /\ fini.length = 1 + bytes + body
          /\ fini.outbound = [total |-> m.payload + start, offset |-> Plus(start - (MaxFixedHeader - 1 - bytes))]
      <3>1. bodied.total = m.payload + start /\ bodied.offset = start
        BY <2>1
      <3>2. [bodied EXCEPT !.offset = Plus(start - (MaxFixedHeader - 1 - bytes))]
              = [total |-> m.payload + start, offset |-> Plus(start - (MaxFixedHeader - 1 - bytes))]
        BY <2>1
      <3> HIDE DEF bodied, held, body
      <3>3. fini = [says |-> 1 + LengthBytes(bodied.total - MaxFixedHeader) + (bodied.total - MaxFixedHeader),
                    length |-> 1 + LengthBytes(bodied.total - MaxFixedHeader) + body,
                    outbound |-> [bodied EXCEPT !.offset = Plus(bodied.offset
                                     - (MaxFixedHeader - 1 - LengthBytes(bodied.total - MaxFixedHeader)))]]
        BY <2>3, <3>1 DEF FiniMessage
      <3>4. bodied.total - MaxFixedHeader = remaining
        BY <1>1, <1>2, <3>1
      <3>5. LengthBytes(bodied.total - MaxFixedHeader) = bytes
        BY <3>4, Zenon DEF bytes
      <3> HIDE DEF fini, bytes, remaining
      <3> QED BY <3>1, <3>2, <3>3, <3>4, <3>5
    <2> HIDE DEF fini, bodied, held
    <2>5. Plus(start - (MaxFixedHeader - 1 - bytes)) = start - 4 + bytes
      BY <1>2, <2>2 DEF Plus
    <2>6. body = BufferLength - MaxFixedHeader
      BY <1>2, <2>1
    <2>7. /\ built.says \in Nat /\ built.length \in Nat /\ built.held \in Nat /\ built.outbound \in Headers
      BY <1>1, <1>2, <1>3, <1>4, <2>1, <2>2, <2>4, <2>5, <2>6 DEF Headers
    <2>8. FirstFragment(built, m)
      BY <1>1, <1>2, <1>3, <1>7, <2>1, <2>2, <2>4, <2>5, <2>6 DEF FirstFragment
    <2>9. ~ (start + m.payload <= BufferLength)
      BY <1>1, <1>2, <1>7
    <2> QED BY <2>7, <2>8, <2>9 DEF start
  <1> QED BY <1>1, <1>2, <1>6, <1>7

\* The other packets are lists of fields too.
LEMMA MaybeFields ==
  ASSUME NEW condition, NEW s \in Seq(Field)
  PROVE  Maybe(condition, s) \in Seq(Field)
  <1>1. <<>> \in Seq(Field)
    OBVIOUS
  <1> QED BY <1>1 DEF Maybe

\* Lists of one field, and lists put together.
LEMMA OneString ==
  ASSUME NEW name \in Names, NEW n \in Nat
  PROVE  <<String(name, n)>> \in Seq(Field)
  BY StringIsField, SizeOfOne

LEMMA OneNumber ==
  ASSUME NEW name \in Names, NEW n \in Nat
  PROVE  <<Number(name, n)>> \in Seq(Field)
  BY NumberIsField, SizeOfOne

LEMMA BothAreFields ==
  ASSUME NEW s \in Seq(Field), NEW t \in Seq(Field)
  PROVE  s \o t \in Seq(Field)
  BY ConcatProperties

\* mqtt_msg_connect, mqtt5_msg_connect.
LEMMA ConnectIsFields ==
  ASSUME NEW v, NEW i \in Infos
  PROVE  ConnectFields(v, i) \in Seq(Field)
  <1>1. /\ i.client_id \in Nat /\ i.will_topic \in Nat /\ i.will_message \in Nat
        /\ i.username \in Nat /\ i.password \in Nat /\ i.properties \in Nat
    BY MessagesAssumption
  <1>2. /\ <<Number("protocol", 10)>> \in Seq(Field)
        /\ <<String("client_id", i.client_id)>> \in Seq(Field)
        /\ <<String("username", i.username)>> \in Seq(Field)
        /\ <<String("password", i.password)>> \in Seq(Field)
    BY <1>1, OneNumber, OneString DEF Names
  <1>3. <<String("will_topic", i.will_topic), String("will_message", i.will_message)>> \in Seq(Field)
    <2>1. String("will_topic", i.will_topic) \in Field /\ String("will_message", i.will_message) \in Field
      BY <1>1, StringIsField DEF Names
    <2> QED BY <2>1
  <1>4. /\ Properties(v, "properties", i.properties) \in Seq(Field)
        /\ Properties(v, "will_properties", i.properties) \in Seq(Field)
    BY <1>1, PropertiesAreFields DEF Names
  <1> DEFINE a == <<Number("protocol", 10)>>
             b == Properties(v, "properties", i.properties)
             c == <<String("client_id", i.client_id)>>
             d == Maybe(i.will_topic > 0, Properties(v, "will_properties", i.properties)
                     \o <<String("will_topic", i.will_topic), String("will_message", i.will_message)>>)
             e == Maybe(i.username > 0 \/ i.password > 0, <<String("username", i.username)>>)
             f == Maybe(i.password > 0, <<String("password", i.password)>>)
  <1>5. d \in Seq(Field)
    BY <1>3, <1>4, BothAreFields, MaybeFields
  <1>6. e \in Seq(Field) /\ f \in Seq(Field)
    BY <1>2, MaybeFields
  <1>7. ConnectFields(v, i) = a \o b \o c \o d \o e \o f
    BY DEF ConnectFields
  <1> HIDE DEF a, b, c, d, e, f
  <1>8. a \o b \in Seq(Field)
    BY <1>2, <1>4, BothAreFields DEF a, b
  <1>9. a \o b \o c \o d \in Seq(Field)
    BY <1>2, <1>5, <1>8, BothAreFields DEF c
  <1> QED BY <1>6, <1>7, <1>9, BothAreFields

\* The packets without a payload.
LEMMA ControlIsFields ==
  ASSUME NEW v \in Versions
  PROVE  /\ PingreqFields \in Seq(Field) /\ AckFields(v) \in Seq(Field)
         /\ \A n \in Nat : DisconnectFields(v, n) \in Seq(Field)
  <1>1. \A n \in Nat : Properties(v, "properties", n) \in Seq(Field)
    BY PropertiesAreFields DEF Names
  <1>2. <<Number("id", 2)>> \in Seq(Field) /\ <<Number("reason", 1)>> \in Seq(Field)
    BY OneNumber DEF Names
  <1>3. Maybe(v = 5, <<Number("reason", 1)>>) \in Seq(Field)
    BY <1>2, MaybeFields
  <1>4. AckFields(v) \in Seq(Field)
    BY <1>1, <1>2, <1>3, BothAreFields DEF AckFields
  <1>5. \A n \in Nat : DisconnectFields(v, n) \in Seq(Field)
    BY <1>1, <1>3, BothAreFields DEF DisconnectFields
  <1>6. PingreqFields \in Seq(Field)
    BY DEF PingreqFields
  <1> QED BY <1>4, <1>5, <1>6

\* The packets of the two kinds of subscription.
LEMMA UnsubscribeIsFields ==
  ASSUME NEW v \in Versions, NEW f \in Nat, NEW share \in Nat
  PROVE  UnsubscribeFields(v, f, 0, share) \in Seq(Field)
  <1>1. Properties(v, "properties", 0) \in Seq(Field)
    BY PropertiesAreFields DEF Names
  <1>2. f + (IF v = 5 THEN share ELSE 0) \in Nat
    OBVIOUS
  <1>3. /\ <<Number("id", 2)>> \in Seq(Field)
        /\ <<String("filter", f + (IF v = 5 THEN share ELSE 0))>> \in Seq(Field)
    BY <1>2, OneNumber, OneString DEF Names
  <1> QED BY <1>1, <1>3, BothAreFields DEF UnsubscribeFields

LEMMA SubscribeIsFields ==
  ASSUME NEW v \in Versions, NEW filters \in Seq(Nat), NEW p \in Nat, NEW share \in Nat
  PROVE  SubscribeFields(v, filters, p, share) \in Seq(Field)
  <1> DEFINE options == [i \in 1..2 * Len(filters) |->
                            IF i % 2 = 0 THEN Number("options", 1)
                            ELSE String("filter", filters[(i + 1) \div 2] + (IF v = 5 THEN share ELSE 0))]
  <1>1. Properties(v, "properties", p) \in Seq(Field)
    BY PropertiesAreFields DEF Names
  <1>2. <<Number("id", 2)>> \in Seq(Field)
    BY OneNumber DEF Names
  <1>3. ASSUME NEW i \in 1..2 * Len(filters) PROVE options[i] \in Field
    <2>1. Number("options", 1) \in Field
      BY NumberIsField DEF Names
    <2>2. CASE i % 2 = 0
      BY <2>1, <2>2
    <2>3. CASE i % 2 # 0
      <3>1. (i + 1) \div 2 \in 1 .. Len(filters)
        BY <2>3
      <3>2. filters[(i + 1) \div 2] \in Nat
        BY <3>1
      <3>3. filters[(i + 1) \div 2] + (IF v = 5 THEN share ELSE 0) \in Nat
        BY <3>2
      <3>4. String("filter", filters[(i + 1) \div 2] + (IF v = 5 THEN share ELSE 0)) \in Field
        BY <3>3, StringIsField DEF Names
      <3> QED BY <2>3, <3>4
    <2> QED BY <2>2, <2>3
  <1>4. options \in Seq(Field)
    <2>1. 2 * Len(filters) \in Nat
      OBVIOUS
    <2> QED BY <1>3, <2>1
  <1>5. SubscribeFields(v, filters, p, share) = <<Number("id", 2)>> \o Properties(v, "properties", p) \o options
    BY DEF SubscribeFields
  <1> HIDE DEF options
  <1> QED BY <1>1, <1>2, <1>4, <1>5, BothAreFields

-----------------------------------------------------------------------------
(* The inductive invariant.                                                *)

Parts == Seq(Int \X Int)
BuiltPackets == [type : {"connect", "control", "publish"}, says : Nat, written : Nat, chunks : Parts, payload : Nat]
Items == [pending : {"queued", "transmitted"}, qos : 0..2, packet : BuiltPackets]
Sendings == [type : {"publish"}, qos : 0..2, payload : Nat, says : Nat, length : Nat, remaining_len : Nat,
             data : Int \X Int, chunks : Parts, written : Nat]
Maxima == {0} \cup AliasMaxima

OutTypes ==
    /\ outbound \in Headers
    /\ outbox \in Seq(Items) /\ Len(outbox) <= MaxItems
    /\ sending \in Sendings \cup {None}
    /\ packet \in BuiltPackets \cup {None}
    /\ sending # None => state = "connected"

InTypes ==
    /\ peer_topic_alias \in [Aliases -> Nat] /\ aliases \in [Aliases -> Nat]
    /\ topic_alias_maximum \in Maxima /\ granted \in Maxima

SessionTypes ==
    /\ version \in Versions /\ info \in Infos /\ state \in {"wait", "connected"}
    /\ left \in {"nothing", "total"}

Types == SessionTypes /\ OutTypes /\ InTypes

\* Between two packets no length of an earlier message is left.
Cleared == sending = None => outbound.total = 0

\* A message larger than the buffer, while it is written: what went out, the fragment in the
\* buffer and what is left behind it make up the message, and the parts follow each other.
Rest == sending.remaining_len - DataSent

Follows(chunks, data) ==
    data[1] = IF chunks = <<>> THEN 0 ELSE chunks[Len(chunks)][2]

Joined(chunks) == \A i \in DOMAIN chunks : chunks[i][1] = IF i = 1 THEN 0 ELSE chunks[i - 1][2]

Sending ==
    sending # None /\ sending.says > BufferLength =>
        /\ Rest >= 0
        /\ sending.says = sending.written + sending.length + Rest
        /\ sending.data[2] = sending.payload - Rest
        /\ Follows(sending.chunks, sending.data) /\ Joined(sending.chunks)

\* What the outbox keeps is whole.
Complete(p) == Framed(p) /\ (p.type = "publish" => InOrder(p))
Kept == \A i \in DOMAIN outbox : Complete(outbox[i].packet)

OnTheWire == packet # None /\ (packet.type = "publish" => packet.says > BufferLength) => Complete(packet)

\* In a session the client lists every alias the broker has given out, with its topic.
AliasesKnown ==
    state = "connected" => \A a \in Aliases : aliases[a] # 0 => peer_topic_alias[a] = aliases[a]


-----------------------------------------------------------------------------
(* The packets that the calls build.                                       *)

\* A packet without data, built in the outbound message.
LEMMA BuildsPacket ==
  ASSUME NEW fields \in Seq(Field), outbound \in Headers, NEW type \in {"connect", "control"},
         NEW p, p = Whole(type, Build(fields), <<>>, 0)
  PROVE  /\ p \in BuiltPackets /\ p.type = type
         /\ Build(fields).outbound \in Headers /\ Build(fields).outbound.total = outbound.total
         /\ outbound.total = 0 => Complete(p)
  <1>1. Size(fields) \in Nat
    BY SizeIsNat
  <1> DEFINE b == Build(fields)
  <1>2. b = FiniMessage(outbound, Size(fields))
    BY DEF Build
  <1> HIDE DEF b
  <1>3. /\ b.says \in Nat /\ b.length \in Nat /\ b.outbound \in Headers /\ b.outbound.total = outbound.total
        /\ outbound.total = 0 => b.says = b.length
    BY <1>1, <1>2, FiniAnnounces
  <1>4. p = [type |-> type, says |-> b.says, written |-> b.length, chunks |-> <<>>, payload |-> 0]
    BY DEF Whole, b
  <1>5. <<>> \in Parts
    BY DEF Parts
  <1>6. p \in BuiltPackets /\ p.type = type
    BY <1>3, <1>4, <1>5 DEF BuiltPackets
  <1>7. outbound.total = 0 => Complete(p)
    BY <1>3, <1>4 DEF Complete, Framed
  <1> QED BY <1>3, <1>6, <1>7 DEF b

\* The item of a publish: the parts of its payload follow each other, and all of it is kept.
LEMMA StoresPacket ==
  ASSUME NEW m \in Messages, NEW built, built.says \in Nat, built.length \in Nat, built.held \in Nat,
         built.outbound \in Headers,
         m.payload = 0 \/ built.outbound.total = 0 \/ FirstFragment(built, m),
         NEW p, p = Stored(built, m)
  PROVE  /\ p \in BuiltPackets /\ p.type = "publish"
         /\ WholeInBuffer(built, m) \/ FirstFragment(built, m) => Complete(p)
  <1>1. m.payload \in Nat
    BY MessagesAssumption
  <1>2. built.outbound.total \in Nat /\ built.outbound.offset \in Nat
    BY DEF Headers
  <1> DEFINE first == built.length - built.outbound.offset
  <1>3. /\ p.type = "publish" /\ p.says = built.says /\ p.payload = m.payload
        /\ p.chunks = Chunks(built, m)
        /\ p.written = built.length + (IF built.outbound.total = 0 THEN 0 ELSE m.payload - first)
    BY DEF Stored
  <1>4. p = [type |-> p.type, says |-> p.says, payload |-> p.payload, chunks |-> p.chunks, written |-> p.written]
    BY DEF Stored
  <1>5. CASE built.outbound.total = 0
    <2>1. p.chunks = <<<<0, built.held>>>> /\ p.written = built.length
      BY <1>1, <1>2, <1>3, <1>5 DEF Chunks
    <2>2. p.chunks \in Parts /\ Len(p.chunks) = 1 /\ p.chunks[1] = <<0, built.held>>
      BY <2>1 DEF Parts
    <2>3. p \in BuiltPackets
      BY <1>1, <1>3, <1>4, <2>1, <2>2 DEF BuiltPackets
    <2>4. ASSUME WholeInBuffer(built, m) PROVE Complete(p)
      <3>1. Framed(p)
        BY <1>3, <2>1, <2>4 DEF Framed, WholeInBuffer
      <3>2. p.chunks[1][1] = 0 /\ p.chunks[1][2] = p.payload
        BY <1>3, <2>2, <2>4 DEF WholeInBuffer
      <3>3. DOMAIN p.chunks = {1} /\ p.chunks # <<>>
        BY <2>2 DEF Parts
      <3>4. InOrder(p)
        BY <2>2, <3>2, <3>3 DEF InOrder
      <3> QED BY <3>1, <3>4 DEF Complete
    <2>5. ~ FirstFragment(built, m)
      BY <1>5 DEF FirstFragment
    <2> QED BY <1>3, <2>3, <2>4, <2>5
  <1>6. CASE built.outbound.total # 0
    <2>1. p.chunks = <<<<0, built.held>>, <<first, m.payload>>>> /\ p.written = built.length + (m.payload - first)
      BY <1>3, <1>6 DEF Chunks
    <2>2. first \in Int
      BY <1>2
    <2> HIDE DEF first
    <2>3. /\ p.chunks \in Parts /\ Len(p.chunks) = 2
          /\ p.chunks[1] = <<0, built.held>> /\ p.chunks[2] = <<first, m.payload>>
      BY <1>1, <2>1, <2>2 DEF Parts
    <2>4. p.written \in Nat
      <3>1. CASE m.payload = 0
        BY <1>1, <1>2, <2>1, <3>1 DEF first
      <3>2. CASE FirstFragment(built, m)
        BY <1>1, <1>2, <2>1, <3>2 DEF first, FirstFragment
      <3> QED BY <1>6, <3>1, <3>2
    <2>5. p \in BuiltPackets
      BY <1>1, <1>3, <1>4, <2>3, <2>4 DEF BuiltPackets
    <2>6. ASSUME FirstFragment(built, m) PROVE Complete(p)
      <3>1. first = built.held
        BY <2>6 DEF FirstFragment, first
      <3>2. Framed(p)
        BY <1>3, <2>1, <2>6, <3>1 DEF Framed, FirstFragment
      <3>3. DOMAIN p.chunks = {1, 2} /\ p.chunks # <<>>
        BY <2>3 DEF Parts
      <3>4. InOrder(p)
        BY <1>3, <2>3, <3>1, <3>3 DEF InOrder
      <3> QED BY <3>2, <3>4 DEF Complete
    <2>7. ~ WholeInBuffer(built, m)
      BY <1>6 DEF WholeInBuffer
    <2> QED BY <1>3, <2>5, <2>6, <2>7
  <1> QED BY <1>5, <1>6

\* make_publish, and its message in the outbox.
LEMMA PublishIsBuilt ==
  ASSUME NEW m \in Messages, outbound \in Headers, Creatable(m), version \in Versions
  PROVE  /\ Built(m).says \in Nat /\ Built(m).length \in Nat /\ Built(m).held \in Nat
         /\ Built(m).outbound \in Headers /\ ClearTotal(Built(m).outbound) \in Headers
         /\ ClearTotal(Built(m).outbound).total = 0
         /\ Stored(Built(m), m) \in BuiltPackets
         /\ outbound.total = 0 => /\ WholeInBuffer(Built(m), m) \/ FirstFragment(Built(m), m)
                                  /\ Complete(Stored(Built(m), m))
         /\ outbound.total = 0 /\ Start(version, m) + m.payload <= BufferLength => WholeInBuffer(Built(m), m)
  <1> DEFINE b == Built(m)
  <1>1. b = PublishMessage(version, m, outbound) /\ Fits(PublishFields(version, m))
    BY DEF Built, Creatable
  <1> HIDE DEF b
  <1>2. /\ b.says \in Nat /\ b.length \in Nat /\ b.held \in Nat /\ b.outbound \in Headers
        /\ m.payload = 0 \/ b.outbound.total = 0 \/ FirstFragment(b, m)
        /\ outbound.total = 0 => WholeInBuffer(b, m) \/ FirstFragment(b, m)
        /\ outbound.total = 0 /\ Start(version, m) + m.payload <= BufferLength => WholeInBuffer(b, m)
    BY <1>1, PublishBuilds
  <1>3. /\ Stored(b, m) \in BuiltPackets
        /\ WholeInBuffer(b, m) \/ FirstFragment(b, m) => Complete(Stored(b, m))
    BY <1>2, StoresPacket
  <1>4. ClearTotal(b.outbound) \in Headers /\ ClearTotal(b.outbound).total = 0
    BY <1>2 DEF ClearTotal, Headers
  <1> QED BY <1>2, <1>3, <1>4 DEF b

-----------------------------------------------------------------------------
(* The outbox.                                                             *)

LEMMA ItemIsTyped ==
  ASSUME NEW pending \in {"queued", "transmitted"}, NEW qos \in 0..2, NEW p \in BuiltPackets
  PROVE  Item(pending, qos, p) \in Items /\ Item(pending, qos, p).packet = p
  BY DEF Item, Items

\* What the operations of the outbox keep: the types, the bound, and that items are whole.
LEMMA EnqueueAdds ==
  ASSUME outbox \in Seq(Items), Len(outbox) < MaxItems, NEW item \in Items, Enqueue(item)
  PROVE  /\ outbox' \in Seq(Items) /\ Len(outbox') <= MaxItems
         /\ Kept /\ Complete(item.packet) => Kept'
  <1>1. outbox' = Append(outbox, item)
    BY DEF Enqueue
  <1>2. /\ outbox' \in Seq(Items) /\ Len(outbox') = Len(outbox) + 1
        /\ \A i \in 1 .. Len(outbox) : outbox'[i] = outbox[i]
        /\ outbox'[Len(outbox) + 1] = item
    BY <1>1, AppendProperties
  <1>3. Len(outbox) \in Nat /\ MaxItems \in Nat
    BY UsesAssumption
  <1>4. ASSUME Kept, Complete(item.packet), NEW i \in DOMAIN outbox' PROVE Complete(outbox'[i].packet)
    <2>1. i \in 1 .. Len(outbox) \/ i = Len(outbox) + 1
      BY <1>2, <1>3
    <2>2. DOMAIN outbox = 1 .. Len(outbox)
      OBVIOUS
    <2> QED BY <1>2, <1>4, <2>1, <2>2 DEF Kept
  <1>5. Kept /\ Complete(item.packet) => Kept'
    BY <1>4 DEF Kept, Complete, Framed, InOrder
  <1> QED BY <1>2, <1>3, <1>5

LEMMA WithoutRemoves ==
  ASSUME outbox \in Seq(Items), Len(outbox) <= MaxItems, NEW i \in DOMAIN outbox, outbox' = Without(i)
  PROVE  /\ outbox' \in Seq(Items) /\ Len(outbox') <= MaxItems
         /\ Kept => Kept'
  <1>1. /\ Len(outbox) \in Nat /\ MaxItems \in Nat /\ DOMAIN outbox = 1 .. Len(outbox)
        /\ Len(outbox) - 1 \in Nat
    BY UsesAssumption
  <1>2. outbox' = [j \in 1 .. Len(outbox) - 1 |-> outbox[IF j < i THEN j ELSE j + 1]]
    BY DEF Without
  <1>3. ASSUME NEW j \in 1 .. Len(outbox) - 1
        PROVE  (IF j < i THEN j ELSE j + 1) \in DOMAIN outbox
    BY <1>1
  <1>4. ASSUME NEW j \in 1 .. Len(outbox) - 1
        PROVE  outbox[IF j < i THEN j ELSE j + 1] \in Items
    BY <1>1, <1>3
  <1>5. outbox' \in Seq(Items) /\ Len(outbox') = Len(outbox) - 1 /\ DOMAIN outbox' = 1 .. Len(outbox) - 1
    BY <1>1, <1>2, <1>4
  <1>6. ASSUME Kept, NEW j \in DOMAIN outbox' PROVE Complete(outbox'[j].packet)
    BY <1>2, <1>3, <1>5, <1>6 DEF Kept
  <1>7. Kept => Kept'
    BY <1>6 DEF Kept, Complete, Framed, InOrder
  <1> QED BY <1>1, <1>5, <1>7

LEMMA TransmittedKeeps ==
  ASSUME outbox \in Seq(Items), Len(outbox) <= MaxItems, NEW i \in Int,
         outbox' = [outbox EXCEPT ![i].pending = "transmitted"]
  PROVE  /\ outbox' \in Seq(Items) /\ Len(outbox') <= MaxItems
         /\ Kept => Kept'
  <1>1. DOMAIN outbox = 1 .. Len(outbox) /\ Len(outbox) \in Nat
    OBVIOUS
  <1>2. DOMAIN outbox' = 1 .. Len(outbox)
    BY <1>1
  <1>3. ASSUME NEW j \in 1 .. Len(outbox)
        PROVE  outbox'[j] \in Items /\ outbox'[j].packet = outbox[j].packet
    <2>1. outbox[j] \in Items
      BY <1>1
    <2>2. outbox'[j] = IF j = i THEN [outbox[j] EXCEPT !.pending = "transmitted"] ELSE outbox[j]
      BY <1>1
    <2> QED BY <2>1, <2>2 DEF Items
  <1>4. outbox' \in [1 .. Len(outbox) -> Items]
    BY <1>1, <1>3
  <1>5. outbox' \in Seq(Items) /\ Len(outbox') = Len(outbox)
    <2>1. outbox' \in Seq(Items)
      BY <1>1, <1>4, SeqDef
    <2> QED BY <1>1, <1>2, <2>1
  <1>6. Kept => Kept'
    <2>1. ASSUME Kept, NEW j \in DOMAIN outbox' PROVE Complete(outbox'[j].packet)
      BY <1>1, <1>2, <1>3, <2>1 DEF Kept
    <2> QED BY <2>1 DEF Kept, Complete, Framed, InOrder
  <1> QED BY <1>5, <1>6

-----------------------------------------------------------------------------
(* The types.                                                              *)


\* A list of filters of either kind of subscription.
LEMMA FiltersAreNumbers ==
  ASSUME NEW filters \in {<<f>> : f \in Filters} \cup (Filters \X Filters)
  PROVE  filters \in Seq(Nat)
  <1>1. CASE filters \in {<<f>> : f \in Filters}
    <2>1. PICK f \in Filters : filters = <<f>>
      BY <1>1
    <2>2. f \in Nat
      BY UsesAssumption
    <2> QED BY <2>1, <2>2
  <1>2. CASE filters \in Filters \X Filters
    <2>1. PICK f \in Filters, g \in Filters : filters = <<f, g>>
      BY <1>2
    <2>2. f \in Nat /\ g \in Nat
      BY UsesAssumption
    <2> QED BY <2>1, <2>2
  <1> QED BY <1>1, <1>2

LEMMA BaseIsNat == Base \in Nat /\ 0 \in Nat
  BY BufferAssumption

\* A subscription, and what it takes to build one: the fields are a list of fields.
LEMMA SubscriptionBuilds ==
  ASSUME version \in Versions, Subscribe \/ Unsubscribe
  PROVE  \E fields \in Seq(Field) : SubscribeOrUnsubscribe(fields)
  <1>1. CASE Subscribe
    <2>1. PICK filters \in {<<f>> : f \in Filters} \cup (Filters \X Filters), p \in {0, Base}, share \in {0, Share} :
            SubscribeOrUnsubscribe(SubscribeFields(version, filters, p, share))
      BY <1>1 DEF Subscribe
    <2>2. filters \in Seq(Nat) /\ p \in Nat /\ share \in Nat
      BY FiltersAreNumbers, BaseIsNat, UsesAssumption
    <2> QED BY <2>1, <2>2, SubscribeIsFields
  <1>2. CASE Unsubscribe
    <2>1. PICK f \in Filters, share \in {0, Share} :
            SubscribeOrUnsubscribe(UnsubscribeFields(version, f, 0, share))
      BY <1>2 DEF Unsubscribe
    <2>2. f \in Nat /\ share \in Nat
      BY UsesAssumption
    <2> QED BY <2>1, <2>2, UnsubscribeIsFields
  <1> QED BY <1>1, <1>2

\* What SendControl chooses from are lists of fields.
LEMMA ControlBuilds ==
  ASSUME version \in Versions
  PROVE  ControlFields \subseteq Seq(Field)
  <1>1. PingreqFields \in Seq(Field) /\ AckFields(version) \in Seq(Field) /\ DisconnectFields(version, 0) \in Seq(Field)
    BY ControlIsFields
  <1> QED BY <1>1 DEF ControlFields

\* The message that BeginPublish hands to the loop.
LEMMA LoopStarts ==
  ASSUME NEW m \in Messages, outbound \in Headers, Creatable(m), version \in Versions, BeginPublish(m)
  PROVE  sending' \in Sendings /\ sending' # None
  <1> DEFINE b == Built(m)
  <1>1. b.says \in Nat /\ b.length \in Nat /\ b.held \in Nat
    BY PublishIsBuilt
  <1>2. m.payload \in Nat /\ m.qos \in 0..2
    BY MessagesAssumption
  <1>3. sending' = [type |-> "publish", qos |-> m.qos, payload |-> m.payload, says |-> b.says,
                    length |-> b.length, remaining_len |-> m.payload,
                    data |-> <<0, b.held>>, chunks |-> <<>>, written |-> 0]
    BY DEF BeginPublish
  <1> HIDE DEF b
  <1>4. <<>> \in Parts /\ <<0, b.held>> \in Int \X Int
    BY <1>1 DEF Parts
  <1>5. sending' \in Sendings
    BY <1>1, <1>2, <1>3, <1>4 DEF Sendings
  <1>6. None = [type |-> "none"] /\ sending'.type = "publish"
    BY <1>3 DEF None
  <1> QED BY <1>5, <1>6

\* The parts of the message in the loop.
LEMMA SendingOrNone ==
  ASSUME sending \in Sendings \cup {None}, sending # None
  PROVE  /\ sending \in Sendings
         /\ sending.qos \in 0..2 /\ sending.payload \in Nat /\ sending.says \in Nat /\ sending.length \in Nat
         /\ sending.remaining_len \in Nat /\ sending.data \in Int \X Int /\ sending.chunks \in Seq(Int \X Int)
         /\ sending.written \in Nat
  BY DEF Sendings, Parts

\* A turn of the loop: the next fragment, or the whole message.
LEMMA LoopTurns ==
  ASSUME outbound \in Headers, sending \in Sendings \cup {None}, Fragment
  PROVE  /\ sending # None /\ Rest \in Int
         /\ Append(sending.chunks, sending.data) \in Parts
         /\ \/ /\ Rest > 0 /\ packet' = None /\ outbox' = outbox
               /\ sending' \in Sendings /\ sending' # None
               /\ sending'.payload = sending.payload /\ sending'.says = sending.says
               /\ sending'.remaining_len = Rest
               /\ sending'.length = IF Rest > BufferLength THEN BufferLength ELSE Rest
               /\ sending'.data = <<sending.payload - Rest, sending.payload - Rest + sending'.length>>
               /\ sending'.chunks = Append(sending.chunks, sending.data)
               /\ sending'.written = sending.written + sending.length
            \/ /\ ~ (Rest > 0) /\ sending' = None
               /\ packet' \in BuiltPackets
               /\ packet' = [type |-> "publish", says |-> sending.says, payload |-> sending.payload,
                             chunks |-> Append(sending.chunks, sending.data),
                             written |-> sending.written + sending.length]
               /\ outbox' = outbox \/ outbox' = [outbox EXCEPT ![Len(outbox)].pending = "transmitted"]
  <1>1. sending # None /\ sending \in Sendings
    BY DEF Fragment
  <1>2. /\ sending.qos \in 0..2 /\ sending.payload \in Nat /\ sending.says \in Nat /\ sending.length \in Nat
        /\ sending.remaining_len \in Nat /\ sending.data \in Int \X Int /\ sending.chunks \in Seq(Int \X Int)
        /\ sending.written \in Nat
    BY <1>1, SendingOrNone
  <1>3. outbound.offset \in Nat /\ BufferLength \in Nat
    BY BufferAssumption DEF Headers
  <1>4. Rest \in Int
    BY <1>2, <1>3 DEF Rest, DataSent
  <1> DEFINE chunks == Append(sending.chunks, sending.data)
             size == IF Rest > BufferLength THEN BufferLength ELSE Rest
             from == sending.payload - Rest
  <1>5. chunks \in Parts
    BY <1>2, AppendProperties DEF Parts
  <1>6. CASE Rest > 0
    <2>1. /\ sending' = [sending EXCEPT !.remaining_len = Rest, !.length = size, !.data = <<from, from + size>>,
                           !.chunks = chunks, !.written = @ + sending.length]
          /\ packet' = None /\ outbox' = outbox
      BY <1>1, <1>6 DEF Fragment, Rest
    <2>2. size \in Nat /\ from \in Int /\ Rest \in Nat
      BY <1>2, <1>3, <1>4, <1>6
    <2> HIDE DEF size, from, chunks
    <2>3. sending' = [type |-> sending.type, qos |-> sending.qos, payload |-> sending.payload, says |-> sending.says,
                      length |-> size, remaining_len |-> Rest, data |-> <<from, from + size>>,
                      chunks |-> chunks, written |-> sending.written + sending.length]
      BY <1>1, <2>1 DEF Sendings
    <2>4. <<from, from + size>> \in Int \X Int
      BY <2>2
    <2>5. sending' \in Sendings
      BY <1>1, <1>2, <1>5, <2>2, <2>3, <2>4 DEF Sendings
    <2>6. sending' # None
      BY <2>5 DEF Sendings, None
    <2> QED BY <1>1, <1>4, <1>5, <1>6, <2>1, <2>3, <2>5, <2>6 DEF size, from, chunks
  <1>7. CASE ~ (Rest > 0)
    <2>1. /\ sending' = None
          /\ packet' = [type |-> "publish", says |-> sending.says, payload |-> sending.payload,
                        chunks |-> chunks, written |-> sending.written + sending.length]
          /\ outbox' = outbox \/ outbox' = [outbox EXCEPT ![Len(outbox)].pending = "transmitted"]
      BY <1>1, <1>7 DEF Fragment, Rest
    <2> HIDE DEF chunks
    <2>2. packet' \in BuiltPackets
      BY <1>2, <1>5, <2>1 DEF BuiltPackets
    <2> QED BY <1>1, <1>4, <1>5, <1>7, <2>1, <2>2 DEF chunks
  <1> QED BY <1>6, <1>7

\* What one step does to the output buffer, the outbox and the wire.
LEMMA OutTypesStep ==
  ASSUME Types, Refused \/ Out \/ In \/ Session
  PROVE  OutTypes'
  <1> USE DEF Types, SessionTypes
  <1>1. /\ outbound \in Headers /\ outbox \in Seq(Items) /\ Len(outbox) <= MaxItems
        /\ sending \in Sendings \cup {None} /\ packet \in BuiltPackets \cup {None}
        /\ sending # None => state = "connected"
        /\ version \in Versions
    BY DEF OutTypes
  <1>2. None \in BuiltPackets \cup {None} /\ None \in Sendings \cup {None}
    OBVIOUS
  <1>3. ASSUME NEW m \in Messages, BeginPublish(m) PROVE OutTypes'
    <2>1. Creatable(m) /\ PublishStored(m) /\ packet' = None /\ state' = state /\ state = "connected"
      BY <1>3 DEF BeginPublish
    <2>2. sending' \in Sendings
      BY <1>1, <1>3, <2>1, LoopStarts
    <2>3. /\ Built(m).outbound \in Headers /\ ClearTotal(Built(m).outbound) \in Headers
          /\ Stored(Built(m), m) \in BuiltPackets
      BY <1>1, <2>1, PublishIsBuilt
    <2>4. m.qos \in 0..2
      BY MessagesAssumption
    <2>5. CASE m.qos = 0
      BY <1>1, <1>2, <2>1, <2>2, <2>3, <2>5 DEF PublishStored, OutTypes
    <2>6. CASE m.qos # 0
      <3>1. /\ Enqueue(Item("queued", m.qos, Stored(Built(m), m))) /\ Len(outbox) < MaxItems
            /\ outbound' = ClearTotal(Built(m).outbound)
        BY <2>1, <2>6 DEF PublishStored
      <3>2. Item("queued", m.qos, Stored(Built(m), m)) \in Items
        BY <2>3, <2>4, ItemIsTyped
      <3>3. outbox' \in Seq(Items) /\ Len(outbox') <= MaxItems
        BY <1>1, <3>1, <3>2, EnqueueAdds
      <3> QED BY <1>2, <2>1, <2>2, <2>3, <3>1, <3>3 DEF OutTypes
    <2> QED BY <2>5, <2>6
  <1>4. ASSUME NEW m \in Messages, PublishOffline(m) \/ EnqueueMessage(m) \/ NotEnqueued(m) PROVE OutTypes'
    <2>1. Creatable(m) /\ packet' = None /\ state' = state /\ sending' = sending
      BY <1>4 DEF PublishOffline, EnqueueMessage, NotEnqueued, NoOutput
    <2>2. /\ Built(m).outbound \in Headers /\ ClearTotal(Built(m).outbound) \in Headers
          /\ Stored(Built(m), m) \in BuiltPackets
      BY <1>1, <2>1, PublishIsBuilt
    <2>3. m.qos \in 0..2
      BY MessagesAssumption
    <2>4. outbound' \in Headers
      BY <1>4, <2>2 DEF PublishOffline, EnqueueMessage, NotEnqueued
    <2>5. \/ outbox' = outbox
          \/ Enqueue(Item("queued", m.qos, Stored(Built(m), m))) /\ Len(outbox) < MaxItems
      BY <1>4 DEF PublishOffline, EnqueueMessage, NotEnqueued
    <2>6. Item("queued", m.qos, Stored(Built(m), m)) \in Items
      BY <2>2, <2>3, ItemIsTyped
    <2>7. outbox' \in Seq(Items) /\ Len(outbox') <= MaxItems
      BY <1>1, <2>5, <2>6, EnqueueAdds
    <2> QED BY <1>1, <1>2, <2>1, <2>4, <2>7 DEF OutTypes
  <1>5. CASE Subscribe \/ Unsubscribe
    <2>1. PICK fields \in Seq(Field) : SubscribeOrUnsubscribe(fields)
      BY <1>1, <1>5, SubscriptionBuilds
    <2> DEFINE p == Whole("control", Build(fields), <<>>, 0)
    <2>2. p \in BuiltPackets /\ Build(fields).outbound \in Headers
      BY <1>1, BuildsPacket
    <2>3. /\ outbound' = Build(fields).outbound /\ packet' \in {p, None}
          /\ Enqueue(Item("transmitted", 1, p)) /\ Len(outbox) < MaxItems
          /\ state' = state /\ sending' = sending
      BY <2>1 DEF SubscribeOrUnsubscribe
    <2> HIDE DEF p
    <2>4. Item("transmitted", 1, p) \in Items
      BY <2>2, ItemIsTyped
    <2>5. outbox' \in Seq(Items) /\ Len(outbox') <= MaxItems
      BY <1>1, <2>3, <2>4, EnqueueAdds
    <2> QED BY <1>1, <1>2, <2>2, <2>3, <2>5 DEF OutTypes
  <1>6. CASE Fragment
    <2>1. outbound' = [total |-> 0, offset |-> 0] /\ state' = state
      BY <1>6 DEF Fragment
    <2>2. outbound' \in Headers
      BY <2>1 DEF Headers
    <2>3. sending # None /\ sending' \in Sendings \cup {None} /\ packet' \in BuiltPackets \cup {None}
      BY <1>1, <1>6, LoopTurns
    <2>4. outbox' = outbox \/ outbox' = [outbox EXCEPT ![Len(outbox)].pending = "transmitted"]
      BY <1>1, <1>6, LoopTurns
    <2>5. outbox' \in Seq(Items) /\ Len(outbox') <= MaxItems
      <3>1. Len(outbox) \in Int
        BY <1>1
      <3> QED BY <1>1, <2>4, <3>1, TransmittedKeeps
    <2> QED BY <1>1, <2>1, <2>2, <2>3, <2>5 DEF OutTypes
  <1>7. CASE FragmentFails
    BY <1>1, <1>2, <1>7 DEF FragmentFails, Abort, ClearTotal, OutTypes, Headers
  <1>8. ASSUME NEW i \in 1..MaxItems, ResendQueued(i) PROVE OutTypes'
    <2>1. i \in DOMAIN outbox /\ i \in Int /\ sending = None /\ sending' = sending /\ outbound' = outbound
      BY <1>8 DEF ResendQueued, Oldest
    <2>2. \/ outbox' = outbox \/ outbox' = Without(i)
          \/ outbox' = [outbox EXCEPT ![i].pending = "transmitted"]
      BY <1>8 DEF ResendQueued
    <2>3. outbox' \in Seq(Items) /\ Len(outbox') <= MaxItems
      BY <1>1, <2>1, <2>2, WithoutRemoves, TransmittedKeeps
    <2>4. packet' = outbox[i].packet \/ packet' = None
      BY <1>8 DEF ResendQueued, Abort
    <2>5. outbox[i] \in Items
      BY <1>1, <2>1
    <2>6. packet' \in BuiltPackets \cup {None}
      BY <2>4, <2>5 DEF Items
    <2> QED BY <1>1, <2>1, <2>3, <2>6 DEF OutTypes
  <1>9. ASSUME NEW i \in 1..MaxItems, Acknowledged(i) PROVE OutTypes'
    <2>1. /\ i \in DOMAIN outbox /\ outbox' = Without(i) /\ packet' = None
          /\ sending' = sending /\ outbound' = outbound /\ state' = state
      BY <1>9 DEF Acknowledged, NoOutput
    <2>2. outbox' \in Seq(Items) /\ Len(outbox') <= MaxItems
      BY <1>1, <2>1, WithoutRemoves
    <2> QED BY <1>1, <1>2, <2>1, <2>2 DEF OutTypes
  <1>10. CASE In
    <2>1. packet' = None /\ UNCHANGED <<outbound, outbox, sending>> /\ (state' = state \/ sending = None)
      BY <1>10 DEF In, SetConnectProperty, Receive, Deliver, Abort, NoOutput
    <2> QED BY <1>1, <1>2, <2>1 DEF OutTypes
  <1>11. CASE SendControl
    <2>1. PICK fields \in ControlFields :
            /\ outbound' = Build(fields).outbound
            /\ WriteOrAbort(Whole("control", Build(fields), <<>>, 0))
      BY <1>11 DEF SendControl
    <2>2. fields \in Seq(Field)
      BY <1>1, ControlBuilds
    <2>3. Whole("control", Build(fields), <<>>, 0) \in BuiltPackets /\ outbound' \in Headers
      BY <1>1, <2>1, <2>2, BuildsPacket
    <2>4. packet' \in BuiltPackets \cup {None}
      BY <2>1, <2>3 DEF WriteOrAbort, Abort
    <2> QED BY <1>1, <1>11, <2>3, <2>4 DEF SendControl, OutTypes
  <1>12. CASE ConnectionLost
    BY <1>1, <1>2, <1>12 DEF ConnectionLost, Abort, OutTypes
  <1>13. ASSUME NEW accepted \in BOOLEAN, ConnectTo(accepted) PROVE OutTypes'
    <2> DEFINE fields == ConnectFields(version, info)
    <2>1. fields \in Seq(Field)
      BY ConnectIsFields
    <2>2. /\ outbound' = Build(fields).outbound /\ packet' = Whole("connect", Build(fields), <<>>, 0)
          /\ sending = None /\ UNCHANGED <<outbox, sending>>
      BY <1>13 DEF ConnectTo
    <2> HIDE DEF fields
    <2>3. packet' \in BuiltPackets /\ outbound' \in Headers
      BY <1>1, <2>1, <2>2, BuildsPacket
    <2> QED BY <1>1, <2>2, <2>3 DEF OutTypes
  <1> QED
    <2>1. CASE Out
      BY <1>3, <1>4, <1>5, <1>6, <1>7, <1>8, <1>9, <2>1 DEF Out, Publish
    <2>2. CASE Session
      BY <1>11, <1>12, <1>13, <2>2 DEF Session
    <2>3. CASE Refused
      BY <1>4, <2>3, UsesAssumption DEF Refused
    <2> QED BY <1>10, <2>1, <2>2, <2>3

\* What one step does to the aliases.
LEMMA InTypesStep ==
  ASSUME Types, Refused \/ Out \/ In \/ Session
  PROVE  InTypes'
  <1>1. /\ peer_topic_alias \in [Aliases -> Nat] /\ aliases \in [Aliases -> Nat]
        /\ topic_alias_maximum \in Maxima /\ granted \in Maxima
    BY DEF Types, InTypes
  <1>2. NoAliases \in [Aliases -> Nat]
    BY DEF NoAliases
  <1>3. CASE UNCHANGED inVars
    BY <1>1, <1>3 DEF inVars, InTypes
  <1>4. ASSUME NEW accepted \in BOOLEAN, ConnectTo(accepted) PROVE InTypes'
    BY <1>1, <1>2, <1>4 DEF ConnectTo, InTypes
  <1>5. ASSUME NEW maximum \in AliasMaxima, SetConnectProperty(maximum) PROVE InTypes'
    BY <1>1, <1>5 DEF SetConnectProperty, InTypes, Maxima
  <1>6. ASSUME NEW p \in Incoming, Receive(p) PROVE InTypes'
    <2>1. p.topic \in Nat
      BY MessagesAssumption
    <2> DEFINE meant == IF p.topic > 0 THEN p.topic ELSE aliases[p.alias]
    <2>2. /\ aliases' = IF p.alias > 0 THEN [aliases EXCEPT ![p.alias] = meant] ELSE aliases
          /\ UNCHANGED <<topic_alias_maximum, granted>>
          /\ \/ peer_topic_alias' = peer_topic_alias
             \/ peer_topic_alias' = UpdateTopicAlias(p.alias, p.topic)
      BY <1>6 DEF Receive, Deliver
    <2>3. aliases' \in [Aliases -> Nat]
      BY <1>1, <2>1, <2>2
    <2>4. peer_topic_alias' \in [Aliases -> Nat]
      BY <1>1, <2>1, <2>2 DEF UpdateTopicAlias
    <2> QED BY <1>1, <2>2, <2>3, <2>4 DEF InTypes
  <1>7. CASE Out
    <2>1. UNCHANGED inVars
      BY <1>7 DEF Out, Subscribe, Unsubscribe, SubscribeOrUnsubscribe, Publish, BeginPublish, PublishOffline,
                  EnqueueMessage, Fragment, FragmentFails, ResendQueued, Acknowledged
    <2> QED BY <1>3, <2>1
  <1>8. CASE SendControl \/ ConnectionLost \/ Refused
    BY <1>3, <1>8 DEF SendControl, ConnectionLost, Refused, NotEnqueued
  <1> QED BY <1>4, <1>5, <1>6, <1>7, <1>8 DEF In, Session

\* What one step does to the state of the client.
LEMMA StateStep ==
  ASSUME Types, Refused \/ Out \/ In \/ Session
  PROVE  state' \in {"wait", "connected"}
  <1>1. state \in {"wait", "connected"}
    BY DEF Types, SessionTypes
  <1>2. CASE Out
    BY <1>1, <1>2 DEF Out, Subscribe, Unsubscribe, SubscribeOrUnsubscribe, Publish, BeginPublish, PublishOffline,
                  EnqueueMessage, Fragment, FragmentFails, ResendQueued, Acknowledged, Abort
  <1>3. CASE In
    BY <1>1, <1>3 DEF In, SetConnectProperty, Receive, Deliver, Abort
  <1>4. CASE Session
    BY <1>1, <1>4 DEF Session, SendControl, ConnectionLost, ConnectTo, WriteOrAbort, Abort
  <1>5. CASE Refused
    BY <1>1, <1>5 DEF Refused, NotEnqueued
  <1> QED BY <1>2, <1>3, <1>4, <1>5

LEMMA TypesInit == Init => Types
  <1> SUFFICES ASSUME Init PROVE Types
    OBVIOUS
  <1>1. SessionTypes
    BY DEF Init, SessionTypes
  <1>2. InTypes
    BY DEF Init, InTypes, NoAliases, Maxima
  <1>3. OutTypes
    <2>1. outbound \in Headers
      BY DEF Init, Headers
    <2>2. outbox \in Seq(Items) /\ Len(outbox) <= MaxItems
      BY UsesAssumption DEF Init
    <2> QED BY <2>1, <2>2 DEF Init, OutTypes
  <1> QED BY <1>1, <1>2, <1>3 DEF Types

LEMMA TypesStep == Types /\ [Next]_vars => Types'
  <1> SUFFICES ASSUME Types, [Next]_vars PROVE Types'
    OBVIOUS
  <1>1. CASE UNCHANGED vars
    BY <1>1 DEF vars, Types, SessionTypes, OutTypes, InTypes
  <1>2. CASE Next
    <2>1. (Refused \/ Out \/ In \/ Session) /\ UNCHANGED <<version, info, use>>
      BY <1>2 DEF Next
    <2>2. OutTypes' /\ InTypes' /\ state' \in {"wait", "connected"}
      BY <2>1, OutTypesStep, InTypesStep, StateStep
    <2>3. left' \in {"nothing", "total"}
      BY <1>2 DEF Next, Refused, NotEnqueued, Types, SessionTypes
    <2> QED BY <2>1, <2>2, <2>3 DEF Types, SessionTypes
  <1> QED BY <1>1, <1>2

\* The types of the variables, for every buffer, message and configuration.
THEOREM TypeCorrect == Spec => []TypeOK
  <1>1. Types => TypeOK
    <2> SUFFICES ASSUME Types PROVE TypeOK
      OBVIOUS
    <2>1. outbound \in [total : Nat, offset : Nat]
      BY DEF Types, OutTypes, Headers
    <2>2. ASSUME NEW i \in DOMAIN outbox
          PROVE  outbox[i].packet.written \in Nat /\ outbox[i].pending \in {"queued", "transmitted"}
      <3>1. outbox[i] \in Items
        BY DEF Types, OutTypes
      <3> QED BY <3>1 DEF Items, BuiltPackets
    <2>3. packet # None => packet.written \in Nat /\ packet.says \in Nat
      BY DEF Types, OutTypes, BuiltPackets
    <2>4. sending # None => state = "connected" /\ sending.remaining_len \in Nat
      BY DEF Types, OutTypes, Sendings
    <2> QED BY <2>1, <2>2, <2>3, <2>4 DEF Types, SessionTypes, OutTypes, InTypes, Maxima, TypeOK
  <1> QED BY <1>1, TypesInit, TypesStep, PTL DEF Spec

-----------------------------------------------------------------------------
(* What goes out.                                                          *)

OutInv == Cleared /\ Sending /\ Kept /\ OnTheWire

\* All of that holds while no message that was given up has left its total behind.
CleanInv == left = "nothing" => OutInv

\* What esp_mqtt_client_publish hands to its loop.
LEMMA FirstTurn ==
  ASSUME NEW m \in Messages, outbound \in Headers, outbound.total = 0, Creatable(m), version \in Versions,
         BeginPublish(m)
  PROVE  Sending'
  <1> DEFINE b == Built(m)
  <1>1. /\ b.says \in Nat /\ b.length \in Nat /\ b.held \in Nat /\ b.outbound \in Headers
        /\ WholeInBuffer(b, m) \/ FirstFragment(b, m)
    BY PublishIsBuilt
  <1>2. /\ sending' = [type |-> "publish", qos |-> m.qos, payload |-> m.payload, says |-> b.says,
                       length |-> b.length, remaining_len |-> m.payload,
                       data |-> <<0, b.held>>, chunks |-> <<>>, written |-> 0]
        /\ outbound' = b.outbound \/ outbound' = ClearTotal(b.outbound)
    BY DEF BeginPublish, PublishStored
  <1>3. m.payload \in Nat /\ BufferLength \in Nat
    BY MessagesAssumption, BufferAssumption
  <1> HIDE DEF b
  <1>4. outbound'.offset = b.outbound.offset /\ b.outbound.offset \in Nat
    BY <1>1, <1>2 DEF ClearTotal, Headers
  <1>5. Rest' = m.payload - (b.length - b.outbound.offset)
    BY <1>2, <1>4 DEF Rest, DataSent
  <1>6. CASE WholeInBuffer(b, m)
    <2>1. ~ (sending'.says > BufferLength)
      BY <1>1, <1>2, <1>3, <1>6 DEF WholeInBuffer
    <2> QED BY <2>1 DEF Sending
  <1>7. CASE FirstFragment(b, m)
    <2>1. Rest' = m.payload - b.held /\ Rest' >= 0 /\ b.says = b.length + (m.payload - b.held)
      BY <1>1, <1>3, <1>5, <1>7 DEF FirstFragment
    <2>2. sending'.says = sending'.written + sending'.length + Rest'
      BY <1>1, <1>2, <1>3, <2>1
    <2>3. sending'.data[2] = sending'.payload - Rest'
      BY <1>1, <1>2, <1>3, <2>1
    <2>4. Follows(sending'.chunks, sending'.data) /\ Joined(sending'.chunks)
      <3>1. sending'.chunks = <<>> /\ sending'.data[1] = 0
        BY <1>2
      <3>2. DOMAIN <<>> = {}
        OBVIOUS
      <3> QED BY <3>1, <3>2 DEF Follows, Joined
    <2> QED BY <2>1, <2>2, <2>3, <2>4 DEF Sending, Follows, Joined
  <1> QED BY <1>1, <1>6, <1>7

\* A list and one more.
With(s, e) == Append(s, e)
Pairs == Int \X Int

LEMMA WithFacts ==
  ASSUME NEW S, NEW s \in Seq(S), NEW e \in S
  PROVE  /\ With(s, e) # <<>> /\ Len(With(s, e)) = Len(s) + 1 /\ Len(s) \in Nat
         /\ With(s, e)[Len(s) + 1] = e
         /\ \A i \in 1 .. Len(s) : With(s, e)[i] = s[i]
         /\ DOMAIN With(s, e) = 1 .. Len(s) + 1 /\ DOMAIN s = 1 .. Len(s)
  <1> DEFINE t == With(s, e)
  <1>1. t \in Seq(S) /\ Len(t) = Len(s) + 1 /\ Len(s) \in Nat /\ t[Len(s) + 1] = e
    BY AppendProperties DEF With
  <1>2. \A i \in 1 .. Len(s) : t[i] = s[i]
    BY AppendProperties DEF With
  <1> HIDE DEF t
  <1>3. t # <<>>
    BY <1>1
  <1>4. DOMAIN t = 1 .. Len(t) /\ DOMAIN s = 1 .. Len(s)
    BY <1>1
  <1> QED BY <1>1, <1>2, <1>3, <1>4 DEF t

\* The next fragment goes behind the last one, and the last one ends the message.
LEMMA NextTurn ==
  ASSUME outbound \in Headers, sending \in Sendings \cup {None}, Sending, Fragment
  PROVE  /\ Sending'
         /\ packet' # None /\ packet'.says > BufferLength => Complete(packet')
  <1> DEFINE chunks == With(sending.chunks, sending.data)
  <1>1. sending # None /\ Rest \in Int /\ chunks \in Parts
    BY LoopTurns DEF With
  <1>2. /\ sending.qos \in 0..2 /\ sending.payload \in Nat /\ sending.says \in Nat /\ sending.length \in Nat
        /\ sending.remaining_len \in Nat /\ sending.data \in Int \X Int /\ sending.chunks \in Seq(Int \X Int)
        /\ sending.written \in Nat
    BY <1>1, SendingOrNone
  <1>3. BufferLength \in Nat
    BY BufferAssumption
  <1>4. outbound' = [total |-> 0, offset |-> 0]
    BY DEF Fragment
  <1>5. sending.says > BufferLength =>
          /\ Rest >= 0 /\ sending.says = sending.written + sending.length + Rest
          /\ sending.data[2] = sending.payload - Rest
          /\ Follows(sending.chunks, sending.data) /\ Joined(sending.chunks)
    BY <1>1 DEF Sending
  <1>6. /\ chunks # <<>> /\ Len(chunks) = Len(sending.chunks) + 1 /\ Len(sending.chunks) \in Nat
        /\ chunks[Len(chunks)] = sending.data
        /\ \A i \in 1 .. Len(sending.chunks) : chunks[i] = sending.chunks[i]
        /\ DOMAIN chunks = 1 .. Len(sending.chunks) + 1 /\ DOMAIN sending.chunks = 1 .. Len(sending.chunks)
    <2>1. sending.chunks \in Seq(Pairs) /\ sending.data \in Pairs
      BY <1>2 DEF Pairs
    <2>2. /\ chunks # <<>> /\ Len(chunks) = Len(sending.chunks) + 1 /\ Len(sending.chunks) \in Nat
          /\ chunks[Len(sending.chunks) + 1] = sending.data
          /\ \A i \in 1 .. Len(sending.chunks) : chunks[i] = sending.chunks[i]
          /\ DOMAIN chunks = 1 .. Len(sending.chunks) + 1 /\ DOMAIN sending.chunks = 1 .. Len(sending.chunks)
      BY <2>1, WithFacts
    <2> QED BY <2>2
  <1> HIDE DEF chunks
  <1>7. Follows(sending.chunks, sending.data) /\ Joined(sending.chunks) => Joined(chunks)
    <2>1. ASSUME Follows(sending.chunks, sending.data), Joined(sending.chunks), NEW i \in DOMAIN chunks
          PROVE  chunks[i][1] = IF i = 1 THEN 0 ELSE chunks[i - 1][2]
      <3>1. CASE i \in 1 .. Len(sending.chunks)
        <4>1. chunks[i] = sending.chunks[i] /\ (i # 1 => chunks[i - 1] = sending.chunks[i - 1])
          <5>1. i # 1 => i - 1 \in 1 .. Len(sending.chunks)
            BY <1>6, <3>1
          <5> QED BY <1>6, <3>1, <5>1
        <4> QED BY <1>6, <2>1, <3>1, <4>1 DEF Joined
      <3>2. CASE i = Len(sending.chunks) + 1
        <4>1. chunks[i] = sending.data
          BY <1>6, <3>2
        <4>2. CASE sending.chunks = <<>>
          <5>1. i = 1
            BY <3>2, <4>2
          <5> QED BY <2>1, <4>1, <4>2, <5>1 DEF Follows
        <4>3. CASE sending.chunks # <<>>
          <5>1. i # 1 /\ i - 1 = Len(sending.chunks) /\ i - 1 \in 1 .. Len(sending.chunks)
            <6>1. Len(sending.chunks) # 0
              BY <1>2, <4>3, EmptySeq
            <6> QED BY <1>6, <3>2, <6>1
          <5> QED BY <1>6, <2>1, <4>1, <4>3, <5>1 DEF Follows
        <4> QED BY <4>2, <4>3
      <3> QED BY <1>6, <2>1, <3>1, <3>2
    <2> QED BY <2>1 DEF Joined
  <1>8. CASE Rest > 0
    <2>1. /\ packet' = None /\ sending' # None
          /\ sending'.payload = sending.payload /\ sending'.says = sending.says
          /\ sending'.remaining_len = Rest
          /\ sending'.length = IF Rest > BufferLength THEN BufferLength ELSE Rest
          /\ sending'.data = <<sending.payload - Rest, sending.payload - Rest + sending'.length>>
          /\ sending'.chunks = chunks
          /\ sending'.written = sending.written + sending.length
      BY <1>8, LoopTurns DEF chunks, With
    <2>2. sending'.length \in Nat /\ sending'.length <= Rest
      BY <1>1, <1>3, <1>8, <2>1
    <2>3. Rest' = Rest - sending'.length
      <3>1. Rest' = sending'.remaining_len - (sending'.length - 0)
        BY <1>4 DEF Rest, DataSent
      <3> QED BY <1>1, <2>1, <2>2, <3>1
    <2> HIDE DEF Rest
    <2>4. ASSUME sending.says > BufferLength
          PROVE  /\ Rest' >= 0
                 /\ sending'.says = sending'.written + sending'.length + Rest'
                 /\ sending'.data[2] = sending'.payload - Rest'
                 /\ Follows(sending'.chunks, sending'.data) /\ Joined(sending'.chunks)
      <3>1. Rest' >= 0
        BY <1>1, <2>2, <2>3
      <3>2. sending'.says = sending'.written + sending'.length + Rest'
        BY <1>1, <1>2, <1>5, <2>1, <2>2, <2>3, <2>4
      <3>3. sending'.data[2] = sending'.payload - Rest' /\ sending'.data[1] = sending.payload - Rest
        BY <1>1, <1>2, <2>1, <2>2, <2>3
      <3>4. Follows(sending'.chunks, sending'.data)
        BY <1>5, <1>6, <2>1, <2>4, <3>3 DEF Follows
      <3>5. Joined(sending'.chunks)
        BY <1>5, <1>7, <2>1, <2>4
      <3> QED BY <3>1, <3>2, <3>3, <3>4, <3>5
    <2>5. Sending'
      BY <2>1, <2>4 DEF Sending, Follows, Joined
    <2> QED BY <2>1, <2>5
  <1>9. CASE ~ (Rest > 0)
    <2>1. /\ sending' = None
          /\ packet' = [type |-> "publish", says |-> sending.says, payload |-> sending.payload,
                        chunks |-> chunks, written |-> sending.written + sending.length]
      BY <1>9, LoopTurns DEF chunks, With
    <2>2. ASSUME sending.says > BufferLength PROVE Complete(packet')
      <3>1. Rest = 0
        BY <1>1, <1>5, <1>9, <2>2
      <3>2. Framed(packet')
        BY <1>2, <1>5, <2>1, <2>2, <3>1 DEF Framed
      <3>3. chunks[Len(chunks)][2] = sending.payload
        BY <1>2, <1>5, <1>6, <2>2, <3>1
      <3>4. InOrder(packet')
        BY <1>5, <1>6, <1>7, <2>1, <2>2, <3>3 DEF InOrder, Joined
      <3> QED BY <3>2, <3>4 DEF Complete
    <2> QED BY <2>1, <2>2 DEF Sending
  <1> QED BY <1>1, <1>8, <1>9

LEMMA OutInvInit == Init => OutInv
  <1> SUFFICES ASSUME Init PROVE OutInv
    OBVIOUS
  <1>1. DOMAIN outbox = {}
    BY DEF Init
  <1> QED BY <1>1 DEF Init, OutInv, Cleared, Sending, Kept, OnTheWire

\* One step of the client in either direction.
LEMMA OutInvAction ==
  ASSUME Types, OutInv, Refused \/ Out \/ In \/ Session, Refused => left' = "nothing"
  PROVE  OutInv'
  <1>1. /\ outbound \in Headers /\ outbox \in Seq(Items) /\ Len(outbox) <= MaxItems
        /\ sending \in Sendings \cup {None} /\ packet \in BuiltPackets \cup {None}
        /\ version \in Versions
    BY DEF Types, SessionTypes, OutTypes
  <1>2. Cleared /\ Sending /\ Kept /\ OnTheWire
    BY DEF OutInv
  <1>3. UNCHANGED outbox => Kept'
    BY <1>2 DEF Kept, Complete, Framed, InOrder
  <1>4. packet' = None => OnTheWire'
    BY DEF OnTheWire
  <1>5. sending' = None => Sending'
    BY DEF Sending
  <1>6. ASSUME NEW p, Complete(p), packet' = p PROVE OnTheWire'
    BY <1>6 DEF OnTheWire, Complete, Framed, InOrder
  <1>7. ASSUME NEW m \in Messages, BeginPublish(m) PROVE OutInv'
    <2>1. Creatable(m) /\ PublishStored(m) /\ packet' = None /\ sending = None
      BY <1>7 DEF BeginPublish, Creatable
    <2>2. outbound.total = 0
      BY <1>2, <2>1 DEF Cleared
    <2>3. Sending' /\ sending' # None
      BY <1>1, <1>7, <2>1, <2>2, FirstTurn, LoopStarts
    <2>4. Stored(Built(m), m) \in BuiltPackets /\ Complete(Stored(Built(m), m))
      BY <1>1, <2>1, <2>2, PublishIsBuilt
    <2>5. Kept'
      <3>1. m.qos \in 0..2
        BY MessagesAssumption
      <3>2. CASE m.qos = 0
        BY <1>3, <2>1, <3>2 DEF PublishStored
      <3>3. CASE m.qos # 0
        <4>1. Enqueue(Item("queued", m.qos, Stored(Built(m), m))) /\ Len(outbox) < MaxItems
          BY <2>1, <3>3 DEF PublishStored
        <4>2. /\ Item("queued", m.qos, Stored(Built(m), m)) \in Items
              /\ Complete(Item("queued", m.qos, Stored(Built(m), m)).packet)
          BY <2>4, <3>1, ItemIsTyped
        <4> QED BY <1>1, <1>2, <4>1, <4>2, EnqueueAdds
      <3> QED BY <3>2, <3>3
    <2> QED BY <1>4, <2>1, <2>3, <2>5 DEF OutInv, Cleared
  <1>8. ASSUME NEW m \in Messages,
               PublishOffline(m) \/ EnqueueMessage(m) \/ (NotEnqueued(m) /\ left' = "nothing")
        PROVE  OutInv'
    <2>1. Creatable(m) /\ packet' = None /\ sending' = sending /\ sending = None
      BY <1>8 DEF PublishOffline, EnqueueMessage, NotEnqueued, NoOutput, Creatable
    <2>2. outbound.total = 0
      BY <1>2, <2>1 DEF Cleared
    <2>3. /\ Stored(Built(m), m) \in BuiltPackets /\ Complete(Stored(Built(m), m))
          /\ ClearTotal(Built(m).outbound).total = 0
          /\ Start(version, m) + m.payload <= BufferLength => WholeInBuffer(Built(m), m)
      BY <1>1, <2>1, <2>2, PublishIsBuilt
    <2>4. outbound'.total = 0
      <3>1. CASE PublishOffline(m) \/ EnqueueMessage(m)
        BY <2>3, <3>1 DEF PublishOffline, EnqueueMessage
      <3>2. CASE NotEnqueued(m) /\ left' = "nothing"
        BY <3>2 DEF NotEnqueued
      <3> QED BY <1>8, <3>1, <3>2
    <2>5. Kept'
      <3>1. \/ outbox' = outbox
            \/ Enqueue(Item("queued", m.qos, Stored(Built(m), m))) /\ Len(outbox) < MaxItems
        BY <1>8 DEF PublishOffline, EnqueueMessage, NotEnqueued
      <3>2. m.qos \in 0..2
        BY MessagesAssumption
      <3>3. /\ Item("queued", m.qos, Stored(Built(m), m)) \in Items
            /\ Complete(Item("queued", m.qos, Stored(Built(m), m)).packet)
        BY <2>3, <3>2, ItemIsTyped
      <3> QED BY <1>1, <1>2, <1>3, <3>1, <3>3, EnqueueAdds
    <2> QED BY <1>4, <1>5, <2>1, <2>4, <2>5 DEF OutInv, Cleared
  <1>9. CASE Subscribe \/ Unsubscribe
    <2>1. PICK fields \in Seq(Field) : SubscribeOrUnsubscribe(fields)
      BY <1>1, <1>9, SubscriptionBuilds
    <2> DEFINE p == Whole("control", Build(fields), <<>>, 0)
    <2>2. /\ outbound' = Build(fields).outbound /\ packet' \in {p, None}
          /\ Enqueue(Item("transmitted", 1, p)) /\ Len(outbox) < MaxItems
          /\ sending = None /\ sending' = sending
      BY <2>1 DEF SubscribeOrUnsubscribe
    <2>3. outbound.total = 0
      BY <1>2, <2>2 DEF Cleared
    <2>4. p \in BuiltPackets /\ outbound'.total = 0 /\ Complete(p)
      BY <1>1, <2>2, <2>3, BuildsPacket
    <2> HIDE DEF p
    <2>5. Item("transmitted", 1, p) \in Items /\ Complete(Item("transmitted", 1, p).packet)
      BY <2>4, ItemIsTyped
    <2>6. Kept'
      BY <1>1, <1>2, <2>2, <2>5, EnqueueAdds
    <2>7. OnTheWire'
      BY <1>4, <1>6, <2>2, <2>4
    <2> QED BY <1>5, <2>2, <2>4, <2>6, <2>7 DEF OutInv, Cleared
  <1>10. CASE Fragment
    <2>1. outbound'.total = 0
      BY <1>10 DEF Fragment
    <2>2. /\ Sending'
          /\ packet' # None /\ packet'.says > BufferLength => Complete(packet')
      BY <1>1, <1>2, <1>10, NextTurn
    <2>3. packet' = None \/ packet'.type = "publish"
      BY <1>1, <1>10, LoopTurns
    <2>4. OnTheWire'
      BY <2>2, <2>3 DEF OnTheWire, Complete, Framed, InOrder
    <2>5. outbox' = outbox \/ outbox' = [outbox EXCEPT ![Len(outbox)].pending = "transmitted"]
      BY <1>1, <1>10, LoopTurns
    <2>6. Kept'
      <3>1. Len(outbox) \in Int
        BY <1>1
      <3> QED BY <1>1, <1>2, <1>3, <2>5, <3>1, TransmittedKeeps
    <2> QED BY <2>1, <2>2, <2>4, <2>6 DEF OutInv, Cleared
  <1>11. CASE FragmentFails
    <2>1. sending' = None /\ packet' = None /\ outbound' = ClearTotal(outbound) /\ outbox' = outbox
      BY <1>11 DEF FragmentFails, Abort
    <2>2. outbound'.total = 0
      BY <1>1, <2>1 DEF ClearTotal, Headers
    <2> QED BY <1>3, <1>4, <1>5, <2>1, <2>2 DEF OutInv, Cleared
  <1>12. ASSUME NEW i \in 1..MaxItems, ResendQueued(i) PROVE OutInv'
    <2>1. i \in DOMAIN outbox /\ i \in Int /\ sending = None /\ sending' = sending /\ outbound' = outbound
      BY <1>12 DEF ResendQueued, Oldest
    <2>2. \/ outbox' = outbox \/ outbox' = Without(i)
          \/ outbox' = [outbox EXCEPT ![i].pending = "transmitted"]
      BY <1>12 DEF ResendQueued
    <2>3. Kept'
      BY <1>1, <1>2, <1>3, <2>1, <2>2, WithoutRemoves, TransmittedKeeps
    <2>4. packet' = outbox[i].packet \/ packet' = None
      BY <1>12 DEF ResendQueued, Abort
    <2>5. Complete(outbox[i].packet)
      BY <1>2, <2>1 DEF Kept
    <2>6. OnTheWire'
      BY <1>4, <1>6, <2>4, <2>5
    <2> QED BY <1>2, <1>5, <2>1, <2>3, <2>6 DEF OutInv, Cleared
  <1>13. ASSUME NEW i \in 1..MaxItems, Acknowledged(i) PROVE OutInv'
    <2>1. /\ i \in DOMAIN outbox /\ outbox' = Without(i) /\ packet' = None
          /\ sending = None /\ sending' = sending /\ outbound' = outbound
      BY <1>13 DEF Acknowledged, NoOutput
    <2>2. Kept'
      BY <1>1, <1>2, <2>1, WithoutRemoves
    <2> QED BY <1>2, <1>4, <1>5, <2>1, <2>2 DEF OutInv, Cleared
  <1>14. CASE In
    <2>1. packet' = None /\ UNCHANGED <<outbound, outbox, sending>> /\ sending = None
      BY <1>14 DEF In, SetConnectProperty, Receive, Deliver, Abort, NoOutput
    <2> QED BY <1>2, <1>3, <1>4, <1>5, <2>1 DEF OutInv, Cleared
  <1>15. CASE SendControl
    <2>1. PICK fields \in ControlFields :
            /\ outbound' = Build(fields).outbound
            /\ WriteOrAbort(Whole("control", Build(fields), <<>>, 0))
      BY <1>15 DEF SendControl
    <2>2. sending = None /\ UNCHANGED <<outbox, sending>>
      BY <1>15 DEF SendControl
    <2>3. fields \in Seq(Field) /\ outbound.total = 0
      BY <1>1, <1>2, <2>2, ControlBuilds DEF Cleared
    <2>4. Complete(Whole("control", Build(fields), <<>>, 0)) /\ outbound'.total = 0
      BY <1>1, <2>1, <2>3, BuildsPacket
    <2>5. OnTheWire'
      BY <1>4, <1>6, <2>1, <2>4 DEF WriteOrAbort, Abort
    <2> QED BY <1>3, <1>5, <2>2, <2>4, <2>5 DEF OutInv, Cleared
  <1>16. CASE ConnectionLost
    BY <1>2, <1>3, <1>4, <1>5, <1>16 DEF ConnectionLost, Abort, OutInv, Cleared
  <1>17. ASSUME NEW accepted \in BOOLEAN, ConnectTo(accepted) PROVE OutInv'
    <2> DEFINE fields == ConnectFields(version, info)
    <2>1. fields \in Seq(Field)
      BY ConnectIsFields DEF Types, SessionTypes
    <2>2. /\ outbound' = Build(fields).outbound /\ packet' = Whole("connect", Build(fields), <<>>, 0)
          /\ sending = None /\ UNCHANGED <<outbox, sending>>
      BY <1>17 DEF ConnectTo
    <2> HIDE DEF fields
    <2>3. outbound.total = 0
      BY <1>2, <2>2 DEF Cleared
    <2>4. Complete(packet') /\ outbound'.total = 0
      BY <1>1, <2>1, <2>2, <2>3, BuildsPacket
    <2> QED BY <1>3, <1>5, <1>6, <2>2, <2>4 DEF OutInv, Cleared
  <1> QED
    <2>1. CASE Out
      BY <1>7, <1>8, <1>9, <1>10, <1>11, <1>12, <1>13, <2>1 DEF Out, Publish
    <2>2. CASE Session
      BY <1>15, <1>16, <1>17, <2>2 DEF Session
    <2>3. CASE Refused
      <3>1. PICK m \in Unkept : NotEnqueued(m)
        BY <2>3 DEF Refused
      <3>2. m \in Messages
        BY UsesAssumption
      <3> QED BY <1>8, <2>3, <3>1, <3>2
    <2> QED BY <1>14, <2>1, <2>2, <2>3

\* One step of any kind.
LEMMA CleanInvStep == Types /\ CleanInv /\ [Next]_vars => CleanInv'
  <1> SUFFICES ASSUME Types, CleanInv, [Next]_vars, left' = "nothing" PROVE OutInv'
    BY DEF CleanInv
  <1>1. CASE UNCHANGED vars
    <2>1. OutInv
      BY <1>1 DEF vars, CleanInv
    <2> QED BY <1>1, <2>1 DEF vars, OutInv, Cleared, Sending, Kept, OnTheWire, Rest, DataSent, Complete, Framed,
                InOrder, Follows, Joined
  <1>2. CASE Refused
    <2>1. left = "nothing"
      BY <1>2 DEF Refused, NotEnqueued
    <2> QED BY <1>2, <2>1, OutInvAction DEF CleanInv
  <1>3. CASE (Out \/ In \/ Session) /\ left' = IF Clean' THEN "nothing" ELSE left
    <2>1. CASE Clean'
      <3>1. DOMAIN outbox' = {}
        BY <2>1 DEF Clean
      <3> QED BY <2>1, <3>1 DEF Clean, OutInv, Cleared, Sending, Kept, OnTheWire
    <2>2. CASE ~ Clean'
      <3>1. left = "nothing"
        BY <1>3, <2>2
      <3> QED BY <1>3, <3>1, OutInvAction DEF CleanInv
    <2> QED BY <2>1, <2>2
  <1> QED BY <1>1, <1>2, <1>3 DEF Next

\* The invariant of the messages on their way, for every history.
LEMMA CleanInvariant == Spec => [](Types /\ CleanInv)
  <1>1. Init => Types /\ CleanInv
    BY TypesInit, OutInvInit DEF CleanInv
  <1>2. Types /\ CleanInv /\ [Next]_vars => Types' /\ CleanInv'
    BY TypesStep, CleanInvStep
  <1> QED BY <1>1, <1>2, PTL DEF Spec

\* Every publish in the outbox, and every one larger than the buffer on the wire, has the
\* bytes its header announces and the payload whole and in order, whatever calls, failed
\* writes and sessions came before (mqtt_msg_publish, the loop of esp_mqtt_client_publish),
\* except behind the total that a message refused by the outbox left.
THEOREM PublishesAreWhole == Spec => []WholePublishes
  <1>1. Types /\ CleanInv => WholePublishes
    <2> SUFFICES ASSUME Types, CleanInv, left = "nothing" PROVE WholePublishes
      BY DEF WholePublishes
    <2>0. OutInv
      BY DEF CleanInv
    <2>1. ASSUME packet # None, packet.type = "publish", packet.says > BufferLength
          PROVE  Framed(packet) /\ InOrder(packet)
      BY <2>0, <2>1 DEF OutInv, OnTheWire, Complete
    <2>2. ASSUME NEW i \in DOMAIN outbox, outbox[i].packet.type = "publish"
          PROVE  Framed(outbox[i].packet) /\ InOrder(outbox[i].packet)
      BY <2>0, <2>2 DEF OutInv, Kept, Complete
    <2> QED BY <2>1, <2>2 DEF WholePublishes
  <1> QED BY <1>1, CleanInvariant, PTL

\* A packet without a payload announces its own length, and not that of a publish that was
\* given up before (fini_message, and the three places that clear the total), except behind
\* the total that a message refused by the outbox left: there nothing clears it.
THEOREM ControlAnnouncesItself == Spec => []ControlFramed
  <1>1. Types /\ CleanInv => ControlFramed
    <2> SUFFICES ASSUME Types, CleanInv, left = "nothing" PROVE AnnouncesItself
      BY DEF ControlFramed
    <2>0. OutInv
      BY DEF CleanInv
    <2>1. packet # None /\ packet.type # "publish" => Framed(packet)
      BY <2>0 DEF OutInv, OnTheWire, Complete
    <2>2. \A i \in DOMAIN outbox : Framed(outbox[i].packet)
      BY <2>0 DEF OutInv, Kept, Complete
    <2> QED BY <2>1, <2>2 DEF AnnouncesItself
  <1> QED BY <1>1, CleanInvariant, PTL

-----------------------------------------------------------------------------
(* What comes in.                                                          *)

\* The headers of the broker's messages fit the input buffer.
HeadersFit ==
    \A p \in Incoming, v \in Versions : FixedHeader(v, p) + Size(PublishFields(v, p)) < InBufferLength

\* The getters of version 3.1.1: what the buffer holds of the payload begins behind the
\* headers, and with what it does not hold it is the whole payload.
LEMMA ReadsVersion3 ==
  ASSUME HeadersFit, NEW p \in Incoming
  PROVE  /\ mqtt_get_publish_data(p).len + Total(3, p) - ReadLength(3, p) = p.payload
         /\ p.payload > 0 => mqtt_get_publish_data(p).at = FixedHeader(3, p) + Size(PublishFields(3, p))
         /\ HasId(3, p) = (p.qos > 0)
  <1>1. p.topic \in Nat /\ p.qos \in 0..2 /\ p.payload \in Nat /\ p.properties \in Nat /\ InBufferLength \in Nat
    BY MessagesAssumption, BufferAssumption
  <1> DEFINE fh == FixedHeader(3, p)
             size == Size(PublishFields(3, p))
             after == AfterTopic(3, p)
             read == ReadLength(3, p)
             total == Total(3, p)
  <1>2. size \in Nat /\ size = 2 + p.topic + IdBytes(p)
    <2>1. Size(Properties(3, "properties", p.properties)) = 0
      <3>1. "properties" \in Names /\ 3 # 5
        BY DEF Names
      <3> QED BY <1>1, <3>1, PropertiesAreFields
    <2> HIDE DEF size
    <2>2. size \in Nat /\ size = 2 + p.topic + IdBytes(p) + Size(Properties(3, "properties", p.properties))
      BY <1>1, PublishFieldsSize DEF size
    <2>3. IdBytes(p) \in Nat
      BY DEF IdBytes
    <2> QED BY <1>1, <2>1, <2>2, <2>3
  <1>3. fh \in Nat
    BY LengthBytesRange DEF FixedHeader
  <1>4. total = fh + size + p.payload /\ after = fh + 2 + p.topic
    <2> HIDE DEF size, fh
    <2>1. total = fh + (size + p.payload)
      BY DEF Total, Remaining, size, fh
    <2> QED BY <1>1, <1>2, <1>3, <2>1 DEF AfterTopic, fh
  <1>5. fh + size < InBufferLength
    BY DEF HeadersFit, Versions
  <1>6. read = IF total > InBufferLength THEN InBufferLength ELSE total
    BY DEF ReadLength
  <1>7. mqtt_get_publish_data(p) =
          IF fh + 2 >= read \/ after >= read \/ (p.qos > 0 /\ after + 2 >= read)
          THEN [at |-> 0, len |-> 0]
          ELSE [at |-> after + IdBytes(p), len |-> read - (after + IdBytes(p))]
    BY DEF mqtt_get_publish_data
  <1>8. HasId(3, p) = (p.qos > 0 /\ after + 2 <= read)
    BY DEF HasId
  <1>9. IdBytes(p) = IF p.qos > 0 THEN 2 ELSE 0
    BY DEF IdBytes
  <1> HIDE DEF fh, size, after, read, total
  <1>10. after + IdBytes(p) = fh + size /\ after \in Nat /\ total \in Nat /\ read \in Nat /\ IdBytes(p) \in Nat
    BY <1>1, <1>2, <1>3, <1>4, <1>6, <1>9
  <1>11. fh + size <= read
    BY <1>1, <1>2, <1>3, <1>4, <1>5, <1>6
  <1>12. HasId(3, p) = (p.qos > 0)
    BY <1>1, <1>8, <1>9, <1>10, <1>11
  <1>13. CASE fh + 2 >= read \/ after >= read \/ (p.qos > 0 /\ after + 2 >= read)
    <2>1. read <= fh + size
      BY <1>1, <1>2, <1>3, <1>4, <1>9, <1>10, <1>13
    <2>2. total = read /\ p.payload = 0
      BY <1>1, <1>2, <1>3, <1>4, <1>5, <1>6, <2>1
    <2>3. mqtt_get_publish_data(p).len = 0
      BY <1>7, <1>13
    <2> QED BY <1>10, <1>12, <2>2, <2>3 DEF total, read
  <1>14. CASE ~ (fh + 2 >= read \/ after >= read \/ (p.qos > 0 /\ after + 2 >= read))
    <2>1. mqtt_get_publish_data(p).at = fh + size /\ mqtt_get_publish_data(p).len = read - (fh + size)
      BY <1>7, <1>10, <1>14
    <2>2. read - (fh + size) + total - read = p.payload
      BY <1>1, <1>2, <1>3, <1>4, <1>10
    <2> QED BY <1>12, <2>1, <2>2 DEF total, read, fh, size
  <1> QED BY <1>13, <1>14

\* The getters of version 5, when they give a payload at all.
LEMMA ReadsVersion5 ==
  ASSUME HeadersFit, NEW p \in Incoming, mqtt5_get_publish_property_payload(p) # NULL
  PROVE  /\ mqtt5_get_publish_property_payload(p).len + Total(5, p) - ReadLength(5, p) = p.payload
         /\ mqtt5_get_publish_property_payload(p).at = FixedHeader(5, p) + Size(PublishFields(5, p))
         /\ HasId(5, p) = (p.qos > 0)
  <1>1. p.topic \in Nat /\ p.qos \in 0..2 /\ p.payload \in Nat /\ p.properties \in Nat /\ InBufferLength \in Nat
    BY MessagesAssumption, BufferAssumption
  <1> DEFINE fh == FixedHeader(5, p)
             props == Size(Properties(5, "properties", p.properties))
             size == Size(PublishFields(5, p))
             after == AfterTopic(5, p)
             read == ReadLength(5, p)
             total == Total(5, p)
  <1>2. props \in Nat /\ size \in Nat /\ size = 2 + p.topic + IdBytes(p) + props
    <2>1. props \in Nat
      BY <1>1, PropertiesAreFields DEF Names
    <2> QED BY <1>1, <2>1, PublishFieldsSize
  <1>3. fh \in Nat
    BY LengthBytesRange DEF FixedHeader
  <1>4. total = fh + size + p.payload /\ after = fh + 2 + p.topic
    <2> HIDE DEF size, fh, props
    <2>1. total = fh + (size + p.payload)
      BY DEF Total, Remaining, size, fh
    <2> QED BY <1>1, <1>2, <1>3, <2>1 DEF AfterTopic, fh
  <1>5. fh + size < InBufferLength
    BY DEF HeadersFit, Versions
  <1>6. read = IF total > InBufferLength THEN InBufferLength ELSE total
    BY DEF ReadLength
  <1>7. mqtt5_get_publish_property_payload(p) =
          [at |-> after + IdBytes(p) + props, len |-> read - (after + IdBytes(p) + props)]
    BY DEF mqtt5_get_publish_property_payload
  <1>8. HasId(5, p) = (p.qos > 0 /\ after + 2 <= read)
    BY DEF HasId
  <1>9. IdBytes(p) = IF p.qos > 0 THEN 2 ELSE 0
    BY DEF IdBytes
  <1> HIDE DEF fh, props, size, after, read, total
  <1>10. /\ after + IdBytes(p) + props = fh + size
         /\ after \in Nat /\ total \in Nat /\ read \in Nat /\ IdBytes(p) \in Nat
    BY <1>1, <1>2, <1>3, <1>4, <1>6, <1>9
  <1>11. fh + size <= read
    BY <1>1, <1>2, <1>3, <1>4, <1>5, <1>6
  <1>12. HasId(5, p) = (p.qos > 0)
    BY <1>1, <1>2, <1>8, <1>9, <1>10, <1>11
  <1>13. /\ mqtt5_get_publish_property_payload(p).at = fh + size
         /\ mqtt5_get_publish_property_payload(p).len = read - (fh + size)
    BY <1>7, <1>10
  <1>14. read - (fh + size) + total - read = p.payload
    BY <1>1, <1>2, <1>3, <1>4, <1>10
  <1> QED BY <1>12, <1>13, <1>14 DEF total, read, fh, size

\* What is delivered is what the broker meant, as long as the client knows its aliases.
LEMMA DeliversMeant ==
  ASSUME HeadersFit, Types, AliasesKnown, NEW p \in Incoming, Receive(p)
  PROVE  AliasesKnown' /\ ReceivedAsMeant'
  <1> DEFINE meant == IF p.topic > 0 THEN p.topic ELSE aliases[p.alias]
  <1>1. /\ state = "connected" /\ meant > 0
        /\ p.alias = 0 \/ (version = 5 /\ p.alias <= granted)
        /\ aliases' = IF p.alias > 0 THEN [aliases EXCEPT ![p.alias] = meant] ELSE aliases
    BY DEF Receive
  <1>2. /\ p.topic \in Nat /\ p.alias \in Nat /\ p.qos \in 0..2 /\ p.payload \in Nat
        /\ p.topic = 0 => p.alias > 0
    BY MessagesAssumption
  <1>3. /\ peer_topic_alias \in [Aliases -> Nat] /\ aliases \in [Aliases -> Nat] /\ version \in {3, 5}
        /\ granted \in {0} \cup AliasMaxima
    BY DEF Types, SessionTypes, InTypes, Maxima, Versions
  <1>4. p.alias > 0 => p.alias \in Aliases
    <2>1. ASSUME p.alias > 0 PROVE p.alias \in Aliases
      <3>1. granted \in AliasMaxima /\ granted \in Nat /\ p.alias <= granted
        BY <1>1, <1>2, <1>3, <2>1, UsesAssumption
      <3>2. p.alias \in 1 .. granted
        BY <1>2, <2>1, <3>1
      <3> QED BY <3>1, <3>2 DEF Aliases
    <2> QED BY <2>1
  <1>5. \A a \in Aliases : aliases[a] # 0 => peer_topic_alias[a] = aliases[a]
    BY <1>1 DEF AliasesKnown
  <1> HIDE DEF meant
  <1>6. CASE TopicOf(p) > 0
    <2>1. Deliver(p, meant)
      BY <1>6 DEF Receive, meant
    <2>2. /\ event' = [type |-> "data", topic |-> TopicOf(p), meant |-> meant,
                 total |-> Data(p).len + Total(version, p) - ReadLength(version, p), payload |-> p.payload,
                 at |-> Data(p).at, behind |-> FixedHeader(version, p) + Size(PublishFields(version, p)),
                 id |-> HasId(version, p), qos |-> p.qos]
          /\ peer_topic_alias' = IF version = 5 /\ p.alias > 0 /\ p.topic > 0
                                 THEN UpdateTopicAlias(p.alias, p.topic) ELSE peer_topic_alias
      BY <2>1 DEF Deliver
    <2>3. meant = IF p.topic > 0 THEN p.topic ELSE aliases[p.alias]
      BY DEF meant
    <2>4. TopicOf(p) = meant
      <3>1. CASE version = 3
        BY <1>1, <1>2, <1>6, <2>3, <3>1 DEF TopicOf
      <3>2. CASE version = 5
        <4>1. TopicOf(p) = IF p.alias > 0 /\ p.topic = 0 THEN peer_topic_alias[p.alias] ELSE p.topic
          BY <1>6, <3>2 DEF TopicOf, GetTopicAlias
        <4>2. CASE p.topic > 0
          BY <1>2, <2>3, <4>1, <4>2
        <4>3. CASE p.topic = 0
          <5>1. p.alias \in Aliases /\ meant = aliases[p.alias] /\ meant # 0
            BY <1>1, <1>2, <1>4, <2>3, <4>3
          <5>2. peer_topic_alias[p.alias] = aliases[p.alias]
            BY <1>5, <5>1
          <5> QED BY <1>2, <4>1, <4>3, <5>1, <5>2
        <4> QED BY <1>2, <4>2, <4>3
      <3> QED BY <1>3, <3>1, <3>2
    <2>5. /\ Data(p).len + Total(version, p) - ReadLength(version, p) = p.payload
          /\ p.payload > 0 => Data(p).at = FixedHeader(version, p) + Size(PublishFields(version, p))
          /\ HasId(version, p) = (p.qos > 0)
      <3>1. CASE version = 3
        BY <3>1, ReadsVersion3 DEF Data
      <3>2. CASE version = 5
        <4>1. mqtt5_get_publish_property_payload(p) # NULL
          BY <1>6, <3>2 DEF TopicOf
        <4> QED BY <3>2, <4>1, ReadsVersion5 DEF Data
      <3> QED BY <1>3, <3>1, <3>2
    <2>6. ReceivedAsMeant'
      BY <2>2, <2>4, <2>5 DEF ReceivedAsMeant
    <2>7. ASSUME NEW a \in Aliases, aliases'[a] # 0 PROVE peer_topic_alias'[a] = aliases'[a]
      <3>1. CASE p.alias > 0 /\ p.topic > 0
        <4>1. /\ version = 5 /\ meant = p.topic
              /\ aliases' = [aliases EXCEPT ![p.alias] = p.topic]
              /\ peer_topic_alias' = [peer_topic_alias EXCEPT ![p.alias] = p.topic]
          <5>1. version = 5 /\ meant = p.topic
            BY <1>1, <1>2, <2>3, <3>1
          <5> QED BY <1>1, <2>2, <3>1, <5>1 DEF UpdateTopicAlias
        <4>2. CASE a = p.alias
          BY <1>3, <4>1, <4>2
        <4>3. CASE a # p.alias
          BY <1>3, <1>5, <2>7, <4>1, <4>3
        <4> QED BY <4>2, <4>3
      <3>2. CASE p.alias > 0 /\ ~ (p.topic > 0)
        <4>1. /\ aliases' = [aliases EXCEPT ![p.alias] = aliases[p.alias]]
              /\ peer_topic_alias' = peer_topic_alias
          BY <1>1, <2>2, <2>3, <3>2
        <4>2. aliases'[a] = aliases[a]
          BY <1>3, <4>1
        <4> QED BY <1>5, <2>7, <4>1, <4>2
      <3>3. CASE ~ (p.alias > 0)
        BY <1>1, <1>5, <2>2, <2>7, <3>3
      <3> QED BY <3>1, <3>2, <3>3
    <2> QED BY <2>6, <2>7 DEF AliasesKnown
  <1>7. CASE ~ (TopicOf(p) > 0)
    <2>1. state' = "wait" /\ event' = None
      BY <1>7 DEF Receive, Abort
    <2> QED BY <2>1 DEF AliasesKnown, ReceivedAsMeant
  <1> QED BY <1>6, <1>7

\* One step keeps the aliases known, and delivers what was meant.
LEMMA AliasesStep ==
  ASSUME HeadersFit
  PROVE  Types /\ AliasesKnown /\ ReceivedAsMeant /\ [Next]_vars => AliasesKnown' /\ ReceivedAsMeant'
  <1> SUFFICES ASSUME Types, AliasesKnown, ReceivedAsMeant, [Next]_vars PROVE AliasesKnown' /\ ReceivedAsMeant'
    OBVIOUS
  <1>1. CASE UNCHANGED vars
    BY <1>1 DEF vars, AliasesKnown, ReceivedAsMeant
  <1>2. ASSUME UNCHANGED <<aliases, peer_topic_alias>>, state' \in {state, "wait"}, event' = None
        PROVE  AliasesKnown' /\ ReceivedAsMeant'
    BY <1>2 DEF AliasesKnown, ReceivedAsMeant
  <1>3. CASE Out
    <2>1. UNCHANGED <<aliases, peer_topic_alias>> /\ state' \in {state, "wait"} /\ event' = None
      BY <1>3 DEF Out, Subscribe, Unsubscribe, SubscribeOrUnsubscribe, Publish, BeginPublish, PublishOffline,
                  EnqueueMessage, Fragment, FragmentFails, ResendQueued, Acknowledged, Abort,
                  NoOutput, inVars
    <2> QED BY <1>2, <2>1
  <1>4. CASE SendControl \/ ConnectionLost
    <2>1. UNCHANGED <<aliases, peer_topic_alias>> /\ state' \in {state, "wait"} /\ event' = None
      BY <1>4 DEF SendControl, ConnectionLost, WriteOrAbort, Abort, inVars
    <2> QED BY <1>2, <2>1
  <1>5. ASSUME NEW accepted \in BOOLEAN, ConnectTo(accepted) PROVE AliasesKnown' /\ ReceivedAsMeant'
    <2>1. event' = None /\ peer_topic_alias' = peer_topic_alias
      BY <1>5 DEF ConnectTo
    <2>2. aliases' = NoAliases \/ UNCHANGED <<aliases, state>>
      BY <1>5 DEF ConnectTo
    <2>3. AliasesKnown'
      BY <2>1, <2>2 DEF AliasesKnown, NoAliases
    <2> QED BY <2>1, <2>3 DEF ReceivedAsMeant
  <1>6. ASSUME NEW maximum \in AliasMaxima, SetConnectProperty(maximum) PROVE AliasesKnown' /\ ReceivedAsMeant'
    <2>1. UNCHANGED <<aliases, peer_topic_alias>> /\ state' \in {state, "wait"} /\ event' = None
      BY <1>6 DEF SetConnectProperty, NoOutput
    <2> QED BY <1>2, <2>1
  <1>7. ASSUME NEW p \in Incoming, Receive(p) PROVE AliasesKnown' /\ ReceivedAsMeant'
    BY <1>7, DeliversMeant
  <1>8. CASE Refused
    <2>1. UNCHANGED <<aliases, peer_topic_alias>> /\ state' \in {state, "wait"} /\ event' = None
      BY <1>8 DEF Refused, NotEnqueued, NoOutput, inVars
    <2> QED BY <1>2, <2>1
  <1> QED BY <1>1, <1>3, <1>4, <1>5, <1>6, <1>7, <1>8 DEF Next, In, Session

\* The application is told the topic the broker meant, through any history of aliases, of
\* sessions and of maxima set meanwhile, and finds the first piece of the payload, its length
\* and the identifier (deliver_publish, the getters of both codecs,
\* esp_mqtt5_get_publish_data).
THEOREM DeliveredAsMeant ==
  ASSUME HeadersFit
  PROVE  Spec => []ReceivedAsMeant
  <1>1. Init => Types /\ AliasesKnown /\ ReceivedAsMeant
    <2>1. Init => AliasesKnown /\ ReceivedAsMeant
      BY DEF Init, AliasesKnown, ReceivedAsMeant
    <2> QED BY <2>1, TypesInit
  <1>2. Types /\ AliasesKnown /\ ReceivedAsMeant /\ [Next]_vars => Types' /\ AliasesKnown' /\ ReceivedAsMeant'
    BY TypesStep, AliasesStep
  <1> QED BY <1>1, <1>2, PTL DEF Spec

-----------------------------------------------------------------------------
(* CONNECT.                                                                *)

NamesOf(fields) == [i \in DOMAIN fields |-> fields[i].is]

\* The names of a list of fields are a list of the same length.
LEMMA NamesAreList ==
  ASSUME NEW s \in Seq(Field)
  PROVE  /\ NamesOf(s) \in Seq(Names) /\ Len(NamesOf(s)) = Len(s)
         /\ \A i \in 1 .. Len(s) : NamesOf(s)[i] = s[i].is
  <1>1. Len(s) \in Nat /\ DOMAIN s = 1 .. Len(s)
    OBVIOUS
  <1>2. ASSUME NEW i \in 1 .. Len(s) PROVE s[i].is \in Names
    <2>1. s[i] \in Field
      BY <1>1
    <2> QED BY <2>1 DEF Field
  <1>3. NamesOf(s) = [i \in 1 .. Len(s) |-> s[i].is]
    BY <1>1 DEF NamesOf
  <1> QED BY <1>1, <1>2, <1>3

\* The names of two lists together.
LEMMA NamesOfBoth ==
  ASSUME NEW s \in Seq(Field), NEW t \in Seq(Field)
  PROVE  NamesOf(s \o t) = NamesOf(s) \o NamesOf(t)
  <1> DEFINE a == NamesOf(s)
             b == NamesOf(t)
             c == NamesOf(s \o t)
  <1>1. /\ s \o t \in Seq(Field) /\ Len(s \o t) = Len(s) + Len(t) /\ Len(s) \in Nat /\ Len(t) \in Nat
        /\ \A i \in 1 .. Len(s) + Len(t) : (s \o t)[i] = IF i <= Len(s) THEN s[i] ELSE t[i - Len(s)]
    BY ConcatProperties
  <1>2. /\ a \in Seq(Names) /\ Len(a) = Len(s) /\ \A i \in 1 .. Len(s) : a[i] = s[i].is
        /\ b \in Seq(Names) /\ Len(b) = Len(t) /\ \A i \in 1 .. Len(t) : b[i] = t[i].is
        /\ c \in Seq(Names) /\ Len(c) = Len(s) + Len(t)
        /\ \A i \in 1 .. Len(s) + Len(t) : c[i] = (s \o t)[i].is
    BY <1>1, NamesAreList
  <1> HIDE DEF a, b, c
  <1>3. /\ a \o b \in Seq(Names) /\ Len(a \o b) = Len(s) + Len(t)
        /\ \A i \in 1 .. Len(s) + Len(t) : (a \o b)[i] = IF i <= Len(s) THEN a[i] ELSE b[i - Len(s)]
    <2>1. a \in Seq(Names) /\ b \in Seq(Names) /\ Len(a) = Len(s) /\ Len(b) = Len(t)
      BY <1>2
    <2>2. /\ a \o b \in Seq(Names) /\ Len(a \o b) = Len(a) + Len(b)
          /\ \A i \in 1 .. Len(a) + Len(b) : (a \o b)[i] = IF i <= Len(a) THEN a[i] ELSE b[i - Len(a)]
      BY <2>1, ConcatProperties
    <2> QED BY <2>1, <2>2
  <1>4. ASSUME NEW i \in 1 .. Len(s) + Len(t) PROVE c[i] = (a \o b)[i]
    <2>1. CASE i <= Len(s)
      <3>1. i \in 1 .. Len(s)
        BY <1>1, <2>1
      <3> QED BY <1>1, <1>2, <1>3, <2>1, <3>1
    <2>2. CASE ~ (i <= Len(s))
      <3>1. i - Len(s) \in 1 .. Len(t)
        BY <1>1, <2>2
      <3> QED BY <1>1, <1>2, <1>3, <2>2, <3>1
    <2> QED BY <2>1, <2>2
  <1>5. c = a \o b
    BY <1>2, <1>3, <1>4, SeqEqual
  <1> QED BY <1>5 DEF a, b, c

LEMMA NamesOfOne ==
  ASSUME NEW f \in Field
  PROVE  NamesOf(<<f>>) = <<f.is>>
  <1>1. DOMAIN <<f>> = {1} /\ <<f>>[1] = f
    OBVIOUS
  <1>2. NamesOf(<<f>>) = [i \in {1} |-> f.is]
    BY <1>1 DEF NamesOf
  <1>3. <<f.is>> = [i \in {1} |-> f.is]
    OBVIOUS
  <1> QED BY <1>2, <1>3

LEMMA NamesOfNone == NamesOf(<<>>) = <<>>
  BY DEF NamesOf

LEMMA PairOfOnes ==
  ASSUME NEW p, NEW q
  PROVE  <<p>> \o <<q>> = <<p, q>>
  <1> DEFINE S == {p, q}
             s == <<p>>
             t == <<q>>
             u == <<p, q>>
  <1>1. s \in Seq(S) /\ t \in Seq(S) /\ Len(s) = 1 /\ Len(t) = 1 /\ s[1] = p /\ t[1] = q
    OBVIOUS
  <1>2. u \in Seq(S) /\ Len(u) = 2 /\ u[1] = p /\ u[2] = q
    OBVIOUS
  <1> HIDE DEF S, s, t, u
  <1>3. s \o t \in Seq(S) /\ Len(s \o t) = 2 /\ (s \o t)[1] = p /\ (s \o t)[2] = q
    <2>1. /\ s \o t \in Seq(S) /\ Len(s \o t) = Len(s) + Len(t)
          /\ \A i \in 1 .. Len(s) + Len(t) : (s \o t)[i] = IF i <= Len(s) THEN s[i] ELSE t[i - Len(s)]
      <3>1. s \in Seq(S) /\ t \in Seq(S)
        BY <1>1
      <3> QED BY <3>1, ConcatProperties
    <2> QED BY <1>1, <2>1
  <1>4. s \o t = u
    <2>1. \A i \in 1 .. Len(u) : (s \o t)[i] = u[i]
      BY <1>2, <1>3
    <2> QED BY <1>2, <1>3, <2>1, SeqEqual
  <1> QED BY <1>4 DEF s, t, u

LEMMA NamesOfProperties ==
  ASSUME NEW v, NEW name \in Names, NEW n \in Nat
  PROVE  NamesOf(Properties(v, name, n)) = Maybe(v = 5, <<name>>)
  <1> DEFINE f == [is |-> name, len |-> LengthBytes(n) + n]
  <1>1. f \in Field /\ f.is = name
    BY LengthBytesRange DEF Field
  <1>2. Properties(v, name, n) = Maybe(v = 5, <<f>>)
    BY DEF Properties, Maybe
  <1> HIDE DEF f
  <1>3. NamesOf(<<f>>) = <<name>> /\ <<f>> \in Seq(Field)
    BY <1>1, NamesOfOne
  <1> QED BY <1>2, <1>3, NamesOfNone DEF Maybe

LEMMA NamesOfTexts ==
  ASSUME NEW name \in Names, NEW n \in Nat
  PROVE  NamesOf(<<String(name, n)>>) = <<name>> /\ NamesOf(<<Number(name, n)>>) = <<name>>
  <1>1. String(name, n) \in Field /\ Number(name, n) \in Field
    BY StringIsField, NumberIsField
  <1>2. String(name, n).is = name /\ Number(name, n).is = name
    BY DEF String, Number
  <1> QED BY <1>1, <1>2, NamesOfOne

\* Read by its flags, a CONNECT of either version gives every text to its field.
LEMMA ConnectReadsBack ==
  ASSUME NEW i \in Infos, version \in Versions
  PROVE  NamesOf(ConnectFields(version, i)) = ConnectOrder(ConnectFlags(i))
  <1>1. /\ i.client_id \in Nat /\ i.will_topic \in Nat /\ i.will_message \in Nat
        /\ i.username \in Nat /\ i.password \in Nat /\ i.properties \in Nat
    BY MessagesAssumption
  <1> DEFINE flags == ConnectFlags(i)
             a == <<Number("protocol", 10)>>
             b == Properties(version, "properties", i.properties)
             c == <<String("client_id", i.client_id)>>
             w == Properties(version, "will_properties", i.properties)
             x == <<String("will_topic", i.will_topic)>>
             y == <<String("will_message", i.will_message)>>
             will == <<String("will_topic", i.will_topic), String("will_message", i.will_message)>>
             user == <<String("username", i.username)>>
             pass == <<String("password", i.password)>>
             d == Maybe(i.will_topic > 0, w \o will)
             e == Maybe(i.username > 0 \/ i.password > 0, user)
             f == Maybe(i.password > 0, pass)
  <1>2. /\ "protocol" \in Names /\ "properties" \in Names /\ "client_id" \in Names /\ "will_properties" \in Names
        /\ "will_topic" \in Names /\ "will_message" \in Names /\ "username" \in Names /\ "password" \in Names
    BY DEF Names
  <1>3. /\ "will" \in flags <=> i.will_topic > 0
        /\ "username" \in flags <=> (i.username > 0 \/ i.password > 0)
        /\ "password" \in flags <=> i.password > 0
    BY DEF ConnectFlags
  <1>4. /\ a \in Seq(Field) /\ c \in Seq(Field) /\ x \in Seq(Field) /\ y \in Seq(Field)
        /\ user \in Seq(Field) /\ pass \in Seq(Field)
    BY <1>1, <1>2, OneString, OneNumber
  <1>5. b \in Seq(Field) /\ w \in Seq(Field)
    BY <1>1, <1>2, PropertiesAreFields
  <1>6. will = x \o y
    OBVIOUS
  <1>7. /\ NamesOf(a) = <<"protocol">> /\ NamesOf(c) = <<"client_id">>
        /\ NamesOf(x) = <<"will_topic">> /\ NamesOf(y) = <<"will_message">>
        /\ NamesOf(user) = <<"username">> /\ NamesOf(pass) = <<"password">>
    BY <1>1, <1>2, NamesOfTexts
  <1>8. /\ NamesOf(b) = Maybe(version = 5, <<"properties">>)
        /\ NamesOf(w) = Maybe(version = 5, <<"will_properties">>)
    BY <1>1, <1>2, NamesOfProperties
  <1>9. ConnectFields(version, i) = a \o b \o c \o d \o e \o f
    BY DEF ConnectFields
  <1> HIDE DEF flags, a, b, c, w, x, y, will, user, pass
  <1>10. w \o will \in Seq(Field) /\ will \in Seq(Field)
    BY <1>4, <1>5, <1>6, BothAreFields
  <1>11. NamesOf(will) = <<"will_topic", "will_message">>
    <2>1. NamesOf(will) = <<"will_topic">> \o <<"will_message">>
      BY <1>4, <1>6, <1>7, NamesOfBoth
    <2>2. <<"will_topic">> \o <<"will_message">> = <<"will_topic", "will_message">>
      BY PairOfOnes
    <2> QED BY <2>1, <2>2
  <1>12. NamesOf(w \o will) = Maybe(version = 5, <<"will_properties">>) \o <<"will_topic", "will_message">>
    BY <1>5, <1>8, <1>10, <1>11, NamesOfBoth
  <1>13. /\ NamesOf(d) = Maybe("will" \in flags, Maybe(version = 5, <<"will_properties">>)
                                                   \o <<"will_topic", "will_message">>)
         /\ NamesOf(e) = Maybe("username" \in flags, <<"username">>)
         /\ NamesOf(f) = Maybe("password" \in flags, <<"password">>)
    <2>1. NamesOf(d) = Maybe("will" \in flags, Maybe(version = 5, <<"will_properties">>)
                                                   \o <<"will_topic", "will_message">>)
      BY <1>3, <1>12, NamesOfNone DEF Maybe
    <2>2. NamesOf(e) = Maybe("username" \in flags, <<"username">>)
      BY <1>3, <1>7, NamesOfNone DEF Maybe
    <2>3. NamesOf(f) = Maybe("password" \in flags, <<"password">>)
      BY <1>3, <1>7, NamesOfNone DEF Maybe
    <2> QED BY <2>1, <2>2, <2>3
  <1>14. d \in Seq(Field) /\ e \in Seq(Field) /\ f \in Seq(Field)
    BY <1>4, <1>10, MaybeFields
  <1> HIDE DEF d, e, f
  <1>15. /\ a \o b \in Seq(Field) /\ a \o b \o c \in Seq(Field) /\ a \o b \o c \o d \in Seq(Field)
         /\ a \o b \o c \o d \o e \in Seq(Field)
    BY <1>4, <1>5, <1>14, BothAreFields
  <1>16. NamesOf(a \o b \o c) = <<"protocol">> \o Maybe(version = 5, <<"properties">>) \o <<"client_id">>
    <2>1. NamesOf(a \o b) = NamesOf(a) \o NamesOf(b)
      BY <1>4, <1>5, NamesOfBoth
    <2>2. NamesOf(a \o b \o c) = NamesOf(a \o b) \o NamesOf(c)
      BY <1>4, <1>15, NamesOfBoth
    <2> QED BY <1>7, <1>8, <2>1, <2>2, Zenon
  <1>17. NamesOf(a \o b \o c \o d \o e \o f) = NamesOf(a \o b \o c) \o NamesOf(d) \o NamesOf(e) \o NamesOf(f)
    <2>1. NamesOf(a \o b \o c \o d) = NamesOf(a \o b \o c) \o NamesOf(d)
      BY <1>14, <1>15, NamesOfBoth
    <2>2. NamesOf(a \o b \o c \o d \o e) = NamesOf(a \o b \o c \o d) \o NamesOf(e)
      BY <1>14, <1>15, NamesOfBoth
    <2>3. NamesOf(a \o b \o c \o d \o e \o f) = NamesOf(a \o b \o c \o d \o e) \o NamesOf(f)
      BY <1>14, <1>15, NamesOfBoth
    <2> QED BY <2>1, <2>2, <2>3
  <1> QED BY <1>9, <1>13, <1>16, <1>17, Zenon DEF ConnectOrder, flags

\* Whatever the configuration, a CONNECT has its texts in the order its flags say, and no
\* password without a user name (mqtt_msg_connect, mqtt5_msg_connect).
THEOREM ConnectReadsByItsFlags == Spec => []ConnectUnderstood
  <1>1. Types => ConnectUnderstood
    <2> SUFFICES ASSUME Types PROVE ConnectUnderstood
      OBVIOUS
    <2>1. info \in Infos /\ version \in Versions
      BY DEF Types, SessionTypes
    <2>2. NamesOf(ConnectFields(version, info)) = ConnectOrder(ConnectFlags(info))
      BY <2>1, ConnectReadsBack
    <2>3. "password" \in ConnectFlags(info) => "username" \in ConnectFlags(info)
      BY DEF ConnectFlags
    <2> QED BY <2>2, <2>3 DEF ConnectUnderstood, NamesOf
  <1> QED BY <1>1, TypesInit, TypesStep, PTL DEF Spec

=============================================================================
