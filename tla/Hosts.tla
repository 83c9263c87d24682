-------------------------------- MODULE Hosts --------------------------------
(***************************************************************************)
(* The other side of Payloads: hosts that ask for metrics and send OTA     *)
(* commands as README.md says, and others that send whatever they like;    *)
(* the broker; and the device's DATA handler, one event after another.     *)
(* What a host means is kept beside the text it sends, so that it can be   *)
(* compared with what the device makes of the text.                        *)
(***************************************************************************)
EXTENDS Payloads

CONSTANTS
  Chars,      \* the characters
  DeviceIds,  \* device identifiers, as sequences of topic levels
  TopicNames, \* topics hosts publish to, as sequences of levels
  Objects,    \* the JSON objects sent as OTA commands
  RawUrls,    \* the texts sent as plain OTA commands
  Requests,   \* payloads README.md gives for a metric request
  Noise       \* any other payloads

ASSUME CharsAssumption ==
  Metrics \cup {"/", "{", "}", "[", "]", "quote", "colon", "comma", "sp", "1", "x", "get", "type", "data",
               "https", "url", "sha256", "Metrics", "OTA", "update"} \subseteq Chars

\* Slashes are what stands between levels. A device has an identifier (read_line_required).
Level == Seq(Chars \ {"/"})

ASSUME TopicsAssumption ==
  /\ TopicNames \subseteq Seq(Level) \ {<<>>}
  /\ DeviceIds \subseteq Seq(Level) \ {<<>>, <<<<>>>>}

\* The names of the metrics fit the buffer they are copied to.
ASSUME MetricsAssumption == MaxMetric > 1

ASSUME PayloadsAssumption ==
  /\ Requests \subseteq {<<>>, <<"get">>, <<"1">>}
  /\ Noise \subseteq Seq(Chars)

\* A URL has no space around it and is not mistaken for an object.
ASSUME UrlsAssumption ==
  \A url \in RawUrls :
    /\ url \in Seq(Chars \ {"nul"})
    /\ url # <<>> => url[1] \notin {"sp", "{"} /\ url[Len(url)] # "sp"

VARIABLES
  device,   \* the levels of s_user_cfg.device_id
  event,    \* the DATA event being handled: topic levels, payload, what its sender meant
  outcome   \* what the handler has done about it

vars == <<device, event, outcome>>

None      == [kind |-> "none"]
NoCommand == [kind |-> "noise"]
Event(levels, payload, meant) == [levels |-> levels, payload |-> payload, meant |-> meant]

\* Texts one behind the other, a separator between them.
Joined(texts, separator) ==
  LET from[i \in DOMAIN texts] == texts[i] \o (IF i = Len(texts) THEN <<>> ELSE separator \o from[i + 1])
  IN IF texts = <<>> THEN <<>> ELSE from[1]

Join(levels) == Joined(levels, <<"/">>)
OtaTopic     == <<<<"OTA">>, <<"update">>>> \o device

-------------------------------------------------------------------------------
(* JSON. An object is a sequence of fields; a value is a text in quotes, a   *)
(* literal (null, a number) or an object.                                    *)

Quoted(text) == <<"quote">> \o text \o <<"quote">>

\* The value of a field as JSON text: Text carries what is between the quotes.
Text(t)    == [kind |-> "text", text |-> t]
Literal    == [kind |-> "literal", text |-> <<"1">>]
Nested(t)  == [kind |-> "nested", text |-> <<"{">> \o t \o <<"}">>]

ValueText(v) == IF v.kind = "text" THEN Quoted(v.text) ELSE v.text

FieldText(f, gap) == Quoted(<<f.key>>) \o gap \o <<"colon">> \o gap \o ValueText(f.value)

Object(fields, gap) ==
  <<"{">> \o gap
    \o Joined([i \in DOMAIN fields |-> FieldText(fields[i], gap)], <<"comma">> \o gap)
    \o gap \o <<"}">>

\* What a field of an object says: its text, or <<>> if it has none.
Says(fields, key) ==
  LET i == SelectInSeq(fields, LAMBDA f : f.key = key /\ f.value.kind = "text")
  IN IF i = 0 THEN <<>> ELSE fields[i].value.text

Value == [kind : {"text"}, text : Seq(Chars \ {"nul", "quote"})]
           \cup [kind : {"literal", "nested"}, text : Seq(Chars \ {"nul"})]
Field == [key : Chars \ {"nul", "quote"}, value : Value]

Mentions(text, word) == \E i \in 1 .. Len(text) - 2 : SubSeq(text, i, i + 2) = Quoted(<<word>>)

\* The fields a command is made of are texts, and no value before them reads like their key.
ASSUME ObjectsAssumption ==
  \A fields \in Objects :
    /\ fields \in Seq(Field)
    /\ \A i \in DOMAIN fields, word \in {"url", "sha256"} :
         /\ fields[i].key = word => fields[i].value.kind = "text"
         /\ Mentions(ValueText(fields[i].value), word) => \E j \in 1 .. i : fields[j].key = word

-------------------------------------------------------------------------------
Init ==
  /\ device \in DeviceIds
  /\ event = None /\ outcome = None

Deliver(levels, payload, meant) ==
  /\ event' = Event(levels, payload, meant)
  /\ UNCHANGED <<device, outcome>>

Idle == event = None

SendObject == Idle /\ \E fields \in Objects, gap \in {<<>>, <<"sp">>} :
  Deliver(OtaTopic, gap \o Object(fields, gap) \o gap,
          [kind |-> "command", url |-> Says(fields, "url"), sha256 |-> Says(fields, "sha256")])

SendUrl == Idle /\ \E url \in RawUrls, before, after \in {<<>>, <<"sp">>, <<"sp", "sp">>} :
  Deliver(OtaTopic, before \o url \o after, [kind |-> "command", url |-> url, sha256 |-> <<>>])

SendNoise == Idle /\ \E payload \in Noise : Deliver(OtaTopic, payload, NoCommand)

Ask == Idle /\ \E levels \in TopicNames, payload \in Requests, before \in {<<>>, <<"sp">>} :
  levels # OtaTopic /\ Deliver(levels, before \o payload, [kind |-> "request"])

Chat == Idle /\ \E levels \in TopicNames, payload \in {<<"x">>, <<"get", "x">>, <<"1", "1">>, <<"sp", "[", "1", "]">>} :
  levels # OtaTopic /\ Deliver(levels, payload, NoCommand)

\* The MQTT task runs the handler on the event.
HandleData ==
  /\ ~ Idle /\ outcome = None
  /\ outcome' = Data(Join(event.levels), event.payload, Join(device))
  /\ UNCHANGED <<device, event>>

\* An answer goes out on the topic of the request, to which the device is subscribed.
Return ==
  /\ outcome # None
  /\ event' = IF outcome.kind = "answer" THEN Event(event.levels, Reply(outcome.metric), NoCommand) ELSE None
  /\ outcome' = None
  /\ UNCHANGED device

Next == SendObject \/ SendUrl \/ SendNoise \/ Ask \/ Chat \/ HandleData \/ Return

Spec == Init /\ [][Next]_vars

-------------------------------------------------------------------------------
Handled == outcome # None

\* The broker's rule for the filter Metrics/+/<device_id> of mqtt_event_handler.
Subscribed(levels) ==
  /\ Len(levels) = 2 + Len(device)
  /\ levels[1] = <<"Metrics">> /\ SubSeq(levels, 3, Len(levels)) = device

\* README.md:26-33, connectivity.c:184-264. The device answers exactly the
\* requests: one of the documented payloads, on a topic that its own subscription
\* covers and that names one of its four metrics. Everything else on any
\* topic, JSON and its own answers coming back included, is ignored; so
\* the slash arithmetic of parse_metrics_topic agrees with the broker's levels.
AnswersRequests ==
  Handled => \A m \in Metrics :
    outcome = Answer(m) <=>
      event.meant.kind = "request" /\ Subscribed(event.levels) /\ event.levels[2] = <<m>>

\* README.md:40-45, connectivity.c:118-182. A command sent in either documented
\* form, in any layout and order of fields, is understood as it was meant: the
\* same URL to its last character, the digest if it fits, and nothing at all
\* if the URL is not HTTPS or the payload does not fit its buffer.
CommandsUnderstood ==
  Handled /\ event.meant.kind = "command" =>
    LET url == event.meant.url
        sha == event.meant.sha256
    IN outcome = IF IsPrefix(<<"https">>, url) /\ Len(event.payload) < MaxUrl
                 THEN Job(url, IF Len(sha) < MaxSha THEN sha ELSE <<>>)
                 ELSE BadPayload

Blank(text) == \A i \in DOMAIN text : text[i] = "sp"

\* connectivity.c:100-182. Whatever arrives as a command, a zero byte, a
\* truncated object or nothing but space included, a job has a whole HTTPS URL
\* that fits: the payload without the space around it, or what stands between
\* two neighbouring quotes of it.
JobsHaveWholeUrls ==
  Handled /\ outcome.kind = "job" =>
    LET url  == outcome.url
        text == CString(event.payload)
        At(i, j) == SubSeq(text, i, j) = url
    IN /\ IsPrefix(<<"https">>, url) /\ Len(url) < MaxUrl
       /\ \E i \in DOMAIN text, j \in DOMAIN text : At(i, j) /\
            \/ /\ Blank(SubSeq(text, 1, i - 1)) /\ Blank(SubSeq(text, j + 1, Len(text)))
               /\ text[i] # "sp" /\ text[j] # "sp"
            \/ /\ i > 1 /\ j < Len(text) /\ text[i - 1] = "quote" /\ text[j + 1] = "quote"
               /\ \A k \in i .. j : text[k] # "quote"
===============================================================================
