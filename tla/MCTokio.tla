------------------------------ MODULE MCTokio ------------------------------
(* Instances of TokioServer: a publisher and a subscriber. *)
EXTENDS TokioServer

CONSTANTS publisher, subscriber

JustOne == {publisher}
Two == {publisher, subscriber}

PublisherAndSubscriber ==
    [c \in Connections |-> IF c = publisher THEN {"publish", "pingreq", "malformed"} ELSE {"subscribe"}]
TwoSubscribers ==
    [c \in Connections |-> IF c = publisher THEN {"subscribe", "publish"} ELSE {"subscribe"}]
Pinging == [c \in Connections |-> {"pingreq"}]

TwoAndOne == [c \in Connections |-> IF c = publisher THEN 2 ELSE 1]
Nine == [c \in Connections |-> 9]
=============================================================================
