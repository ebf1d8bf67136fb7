------------------------------ MODULE MCBroker ------------------------------
(* Broker with concrete names; which filters match comes from TopicName.   *)
EXTENDS Broker, TLC

N == INSTANCE TopicName

a == <<"a">>
b == <<"b">>
Hash == <<"#">>

OneTopic == {a}
(* Two filters that match the topic. *)
TwoFilters == {a, Hash}
(* Two filters that match the topic, and one that does not. *)
ThreeFilters == {a, Hash, b}

MatchTable == [t \in Topics |-> [f \in Filters |-> N!topic_matches(t, f)]]
MCTopicMatches(t, f) == MatchTable[t][f]

CONSTANTS s1, s2

(* A publisher that subscribes too, and a subscriber. *)
PubSubAndSub == [s \in SessionIds |->
                   IF s = s1 THEN {"publish", "subscribe"}
                   ELSE {"subscribe", "connect", "disconnect", "pingreq", "ignored"}]

(* A publisher, and a subscriber whose queue other packets fill as well. *)
PubAndSub == [s \in SessionIds |->
                IF s = s1 THEN {"publish"} ELSE {"subscribe", "pingreq"}]

(* Both may match the topic, the second client with two filters; between   *)
(* them they need one entry more than there are.                           *)
TwoEach == [s \in SessionIds |-> IF s = s1 THEN {a, b} ELSE {a, Hash}]
AnyFilter == [s \in SessionIds |-> Filters]
=============================================================================
