------------------------------- MODULE Payloads -------------------------------
(***************************************************************************)
(* src/main/connectivity.c, what a DATA event means: which of the device's *)
(* two subscriptions its topic belongs to, whether its payload is a metric *)
(* request, and which firmware an OTA command names. The code takes topics *)
(* and payloads apart with strchr, strstr and strncmp; hosts put them      *)
(* together from levels and JSON objects (module Hosts).                   *)
(*                                                                         *)
(* A text is a sequence of characters. A word that the code only compares  *)
(* as a whole ("https" for https://, "url", "sha256", "get" in any case,   *)
(* the parts of topics) counts as one of them, "sp" is any of the white    *)
(* space that is trimmed, "nul" a zero byte, and "x" what nothing tests.   *)
(***************************************************************************)
EXTENDS Integers, SequencesExt

CONSTANTS
  MaxUrl,    \* OTA_URL_MAX_LEN
  MaxSha,    \* OTA_SHA256_MAX_LEN
  MaxMetric  \* sizeof(metric) in handle_metrics_topic

ASSUME SizesAssumption == {MaxUrl, MaxSha, MaxMetric} \subseteq Nat \ {0}

Metrics == {"Temp", "HUMIDITY", "PRESSURE", "ALTITUDE"}

\* What a DATA event leads to.
Ignored    == [kind |-> "ignored"]
BadPayload == [kind |-> "bad_payload"]
Answer(m)  == [kind |-> "answer", metric |-> m]
Job(u, s)  == [kind |-> "job", url |-> u, sha256 |-> s]

-------------------------------------------------------------------------------
(* The C library on texts: 0 stands for NULL. *)

CString(s) == LET nul == SelectInSeq(s, LAMBDA c : c = "nul")
              IN IF nul = 0 THEN s ELSE SubSeq(s, 1, nul - 1)

Strchr(s, from, char) ==
  IF from = 0 THEN 0 ELSE SelectInSubSeq(s, from, Len(s), LAMBDA c : c = char)

StrstrQuoted(s, word) ==
  SelectInSeq([i \in 1 .. Len(s) - 2 |-> SubSeq(s, i, i + 2)],
              LAMBDA key : key = <<"quote", word, "quote">>)

NotSpace(c) == c # "sp"

trim_whitespace(text) ==
  LET start == SelectInSeq(text, NotSpace)
  IN IF start = 0 THEN <<>> ELSE SubSeq(text, start, SelectLastInSeq(text, NotSpace))

-------------------------------------------------------------------------------
(* OTA commands *)

\* Mutant: no room is kept for the terminating zero.
FillsTheArray(json, field_name, out_len) ==
  LET colon  == Strchr(json, StrstrQuoted(json, field_name), "colon")
      first  == Strchr(json, colon, "quote")
      second == IF first = 0 THEN 0 ELSE Strchr(json, first + 1, "quote")
      value  == SubSeq(json, first + 1, second - 1)
  IN IF second = 0 \/ Len(value) > out_len THEN <<>> ELSE value

\* Mutant: a value without its closing quote is taken to the end.
TakesTheRest(json, field_name, out_len) ==
  LET colon  == Strchr(json, StrstrQuoted(json, field_name), "colon")
      first  == Strchr(json, colon, "quote")
      value  == SubSeq(json, first + 1, LET second == Strchr(json, first + 1, "quote")
                                        IN IF second = 0 THEN Len(json) ELSE second - 1)
  IN IF first = 0 \/ Len(value) >= out_len THEN <<>> ELSE value

\* <<>> stands for false: an empty value is none either.
extract_json_field(json, field_name, out_len) ==
  LET colon  == Strchr(json, StrstrQuoted(json, field_name), "colon")
      first  == Strchr(json, colon, "quote")
      second == IF first = 0 THEN 0 ELSE Strchr(json, first + 1, "quote")
      value  == SubSeq(json, first + 1, second - 1)
  IN IF second = 0 \/ Len(value) >= out_len THEN <<>> ELSE value

parse_ota_payload(payload) ==
  LET buffer == trim_whitespace(CString(payload))
      json   == IsPrefix(<<"{">>, buffer)
      url    == IF json THEN extract_json_field(buffer, "url", MaxUrl) ELSE buffer
      sha256 == IF json THEN extract_json_field(buffer, "sha256", MaxSha) ELSE <<>>
  IN IF payload # <<>> /\ Len(payload) < MaxUrl /\ IsPrefix(<<"https">>, url)
     THEN Job(url, sha256) ELSE BadPayload

-------------------------------------------------------------------------------
(* Metric requests *)

\* Mutant: the search for the slash does not stop at the first.
SplitsAtTheLastSlash(topic, device_id) ==
  LET slash  == SelectLastInSubSeq(topic, 3, Len(topic), LAMBDA c : c = "/")
      metric == SubSeq(topic, 3, slash - 1)
      device == SubSeq(topic, slash + 1, Len(topic))
  IN IF /\ Len(topic) > 2 + 2 /\ IsPrefix(<<"Metrics", "/">>, topic)
        /\ slash # 0 /\ metric # <<>> /\ device # <<>>
        /\ device = device_id /\ Len(metric) < MaxMetric
     THEN metric ELSE <<>>

\* <<>> stands for false here as well.
parse_metrics_topic(topic, device_id) ==
  LET slash  == Strchr(topic, 3, "/")
      metric == SubSeq(topic, 3, slash - 1)
      device == SubSeq(topic, slash + 1, Len(topic))
  IN IF /\ Len(topic) > 2 + 2 /\ IsPrefix(<<"Metrics", "/">>, topic)
        /\ slash # 0 /\ metric # <<>> /\ device # <<>>
        /\ device = device_id /\ Len(metric) < MaxMetric
     THEN metric ELSE <<>>

is_metrics_request_payload(payload) ==
  LET start == SelectInSeq(payload, NotSpace)
      rest  == SubSeq(payload, start, Len(payload))
  IN \/ start = 0
     \/ rest[1] \notin {"{", "["} /\ rest \in {<<"get">>, <<"1">>}

\* The check of sensor_is_initialized always passes: app_main starts MQTT only after sensor_init
\* has succeeded, and nothing clears the flag again.
handle_metrics_topic(topic, payload, device_id) ==
  LET metric == parse_metrics_topic(topic, device_id)
  IN IF is_metrics_request_payload(payload) /\ metric \in {<<m>> : m \in Metrics}
     THEN Answer(metric[1]) ELSE Ignored

topic_matches_device(topic, device_id) == topic = <<"OTA", "/", "update", "/">> \o device_id

\* The MQTT_EVENT_DATA branch of mqtt_event_handler.
Data(topic, payload, device_id) ==
  IF topic = <<>> THEN Ignored
  ELSE IF topic_matches_device(topic, device_id) THEN parse_ota_payload(payload)
  ELSE handle_metrics_topic(topic, payload, device_id)

\* mqtt_publish_json_to_topic, and the announcement of the CONNECTED event.
Reply(metric) == <<"{", "quote", "type", "quote", "colon", "quote", metric, "quote", "comma",
                   "quote", "data", "quote", "colon", "1", "}">>
===============================================================================
