-------------------------------- MODULE MCHosts --------------------------------
(* Hosts with the payloads and topics of its runs.                           *)
EXTENDS Hosts

MCChars == Metrics \cup {"/", "{", "}", "[", "]", "quote", "colon", "comma", "sp", "nul", "1", "x", "get", "type", "data",
                        "https", "url", "sha256", "Metrics", "OTA", "update", "status", "dev"}

\* A device identifier of one level, and one with a slash in it.
MCDeviceIds == {<<<<"dev">>>>, <<<<"dev">>, <<"x">>>>}

LevelTexts == {<<>>, <<"Metrics">>, <<"Temp">>, <<"status">>, <<"dev">>, <<"x">>, <<"x", "x", "x">>, <<"OTA">>, <<"update">>}
MCTopics   == BoundedSeq(LevelTexts, 4) \ {<<>>}
MCRequests == {<<>>, <<"get">>, <<"1">>}

\* Texts of values: no URL, one that is not HTTPS, one with a port, one as long as a digest may not be.
Texts  == {<<>>, <<"x">>, <<"https", "x">>, <<"https", "colon", "1", "x">>}
Values == {Text(t) : t \in Texts}
ObjectsOf(values) ==
  {fields \in BoundedSeq([key : {"url", "sha256", "x"}, value : values], 3) :
     \A i, j \in DOMAIN fields : i # j => fields[i].key # fields[j].key}

\* Members behind the URL that are no texts, one with a URL of its own.
Tails == {Literal, Nested(Quoted(<<"url">>) \o <<"colon">> \o Quoted(<<"https">>))}

MCObjects ==
  ObjectsOf(Values)
    \cup {<<[key |-> "url", value |-> Text(<<"https", "x">>)], [key |-> "x", value |-> v]>> : v \in Tails}
MCUrls    == {<<"https", "x">>, <<"x">>, <<"https">>, <<"https", "sp", "x">>} \cup {<<"https">> \o [i \in 1 .. n |-> "x"] : n \in 20 .. 30}

\* All short texts, and commands cut off anywhere.
Cut(text) == {SubSeq(text, 1, n) : n \in 0 .. Len(text)}
MCNoise ==
  BoundedSeq({"nul", "sp", "{", "https", "x"}, 5)
    \cup UNION {Cut(Object(fields, <<"sp">>)) : fields \in ObjectsOf({Text(<<"https", "x">>), Text(<<>>)})}
===============================================================================
