-------------------------- MODULE BrokerRefinement --------------------------
(***************************************************************************)
(* Broker with one filter implements the broker of BrokerRound: a history  *)
(* variable keeps the state a running process_all_session_packets started  *)
(* from until it returns.                                                  *)
(***************************************************************************)
EXTENDS Broker

VARIABLE before

(* What BrokerRound has one topic for: all topics match the one filter,    *)
(* and there is room for its entry.                                        *)
OneTopicForAll ==
    /\ \E f \in Filters : Filters = {f}
    /\ \A t \in Topics, f \in Filters : TopicMatches(t, f)
    /\ MAX_TOPICS # 0

(* The subscribers are those of the one filter. *)
AsRecord ==
    [sessions |-> sessions, state |-> state, rx |-> rx, tx |-> tx,
     subscribers |-> subscribers[CHOOSE f \in Filters : TRUE], result |-> result]

RoundInit == Init /\ before = AsRecord

RoundNext ==
    /\ Next
    /\ before' = IF pc' = "idle" THEN AsRecord' ELSE IF pc = "idle" THEN AsRecord ELSE before

(* With the fairness of FairSpec. *)
RoundSpec == RoundInit /\ [][RoundNext]_<<vars, before>> /\ WF_vars(Process)

SentPackets == [type : {"publish"}, topic : Topics, qos : QoSLevels, from : SessionIds,
                seq : 1..MaxPublish]
    \cup [type : {"connect"}, keep_alive : KeepAlives]
    \cup [type : {"subscribe"}, filter : Filters]
    \cup [type : {"pingreq", "disconnect", "ignored"}]

Atomic == INSTANCE AtomicBroker WITH b <- before, Ids <- SessionIds, Packets <- SentPackets

(* The loops of process_all_session_packets, with their early returns and  *)
(* what these leave half done, amount to one step of the abstract broker   *)
(* the server modules are built on.                                        *)
ImplementsAtomicBroker == Atomic!Spec
=============================================================================
