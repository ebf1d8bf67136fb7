------------------------------ MODULE MCRound ------------------------------
(* BrokerRefinement with concrete names. *)
EXTENDS BrokerRefinement, MCBroker

(* The case BrokerRefinement is about. *)
ASSUME OneTopicForAll

(* One client publishes, the other subscribes. *)
RoundKinds == [s \in SessionIds |->
                 IF s = s1 THEN {"publish"} ELSE {"subscribe", "connect", "disconnect"}]
=============================================================================
