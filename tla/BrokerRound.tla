---------------------------- MODULE BrokerRound ----------------------------
(***************************************************************************)
(* The broker as the servers see it: they call it with its mutex held and  *)
(* no await in between, so a call is one step.  A broker is a record; an   *)
(* operator gives the broker after the call.  Module Broker models the     *)
(* same code loop by loop, and BrokerRefinement shows that a whole         *)
(* process_all_session_packets of Broker has the effect of ProcessAll.     *)
(*                                                                         *)
(* One topic stands for all: what differs between topics (which subscribers*)
(* are found) is in modules Broker and TopicName.                          *)
(***************************************************************************)
EXTENDS Vectors

CONSTANTS QUEUE_SIZE, MAX_SESSIONS, MAX_SUBSCRIBERS_PER_TOPIC

ASSUME RoundAssumption ==
    QUEUE_SIZE \in Nat /\ MAX_SESSIONS \in Nat /\ MAX_SUBSCRIBERS_PER_TOPIC \in Nat

EmptyBroker(ids) ==
    [sessions |-> <<>>,                                 \* registered ids, oldest first
     state |-> [s \in ids |-> "Connecting"],            \* of each session
     rx |-> [s \in ids |-> <<>>], tx |-> [s \in ids |-> <<>>],
     subscribers |-> <<>>,                              \* of the topic
     result |-> "Ok"]                                   \* of the last call

(* Mutant: a limit that is reached one session early. *)
RegisterNewSession_OffByOne(b, s) ==
    IF Len(b.sessions) + 1 >= MAX_SESSIONS THEN [b EXCEPT !.result = "MaxSessionsReached"]
    ELSE [b EXCEPT !.sessions = Append(@, s), !.state[s] = "Connecting", !.result = "Ok"]

(* register_new_session; the id is new. *)
RegisterNewSession(b, s) ==
    IF Len(b.sessions) >= MAX_SESSIONS THEN [b EXCEPT !.result = "MaxSessionsReached"]
    ELSE [b EXCEPT !.sessions = Append(@, s), !.state[s] = "Connecting", !.result = "Ok"]

RemoveSession(b, s) ==
    [b EXCEPT !.sessions = RemoveElement(@, s), !.subscribers = RemoveElement(@, s),
              !.state[s] = "Connecting", !.rx[s] = <<>>, !.tx[s] = <<>>]

(* remove_session of each of a set of sessions: what one call removes is   *)
(* nothing to another, so their order does not matter.                     *)
RemoveSessions(b, gone) ==
    LET Reset(f, v) == [s \in DOMAIN f |-> IF s \in gone THEN v ELSE f[s]]
    IN [b EXCEPT !.sessions = Kept(@, Range(@) \ gone),
                 !.subscribers = Kept(@, Range(@) \ gone),
                 !.state = Reset(@, "Connecting"), !.rx = Reset(@, <<>>), !.tx = Reset(@, <<>>)]

MarkSessionDisconnected(b, s) ==
    IF s \in Range(b.sessions) THEN [b EXCEPT !.state[s] = "Disconnected"] ELSE b

(* queue_rx_packet and queue_tx_packet: what they return. *)
QueueResult(b, s, q) ==
    IF s \notin Range(b.sessions) THEN "SessionNotFound"
    ELSE IF Len(q[s]) >= QUEUE_SIZE THEN "SessionQueueFull" ELSE "Ok"

(* queue_packet_received_from_client. *)
QueueReceived(b, s, p) ==
    LET r == QueueResult(b, s, b.rx)
    IN IF r = "Ok" THEN [b EXCEPT !.rx[s] = Append(@, p), !.result = "Ok"]
       ELSE [b EXCEPT !.result = r]

(* queue_tx_packet(...)?: once a call has failed nothing more happens. *)
QueueTx(b, s, p) ==
    LET r == QueueResult(b, s, b.tx)
    IN IF b.result # "Ok" THEN b
       ELSE IF r = "Ok" THEN [b EXCEPT !.tx[s] = Append(@, p)]
       ELSE [b EXCEPT !.result = r]

(* TopicRegistry::subscribe. *)
Subscribe(b, s) ==
    IF s \in Range(b.subscribers) THEN b
    ELSE IF Len(b.subscribers) < MAX_SUBSCRIBERS_PER_TOPIC
    THEN [b EXCEPT !.subscribers = Append(@, s)]
    ELSE [b EXCEPT !.result = "MaxSubscribersPerTopicReached"]

(* The loop of handle_publish over the subscribers. *)
Deliver(b, p) ==
    LET to[n \in 0..Len(b.subscribers)] ==
            IF n = 0 THEN b ELSE QueueTx(to[n - 1], b.subscribers[n], p)
    IN to[Len(b.subscribers)]

(* handle_publish: deliver to each subscriber, then acknowledge. *)
HandlePublish(b, s, p) ==
    IF p.qos = 0 THEN Deliver(b, p)
    ELSE QueueTx(Deliver(b, p), s, [type |-> "puback", seq |-> p.seq])

HandleConnect(b, s) == QueueTx([b EXCEPT !.state[s] = "Connected"], s, [type |-> "connack"])

(* One packet, taken off the receive queue and handled. *)
HandlePacket(acc, s) ==
    LET p == Head(acc.rx[s])
        b == [acc EXCEPT !.rx[s] = Tail(@)]
    IN CASE p.type = "connect" -> HandleConnect(b, s)
         [] p.type = "pingreq" -> QueueTx(b, s, [type |-> "pingresp"])
         [] p.type = "subscribe" -> QueueTx(Subscribe(b, s), s, [type |-> "suback"])
         [] p.type = "disconnect" -> [b EXCEPT !.state[s] = "Disconnected"]
         [] p.type = "publish" -> HandlePublish(b, s, p)
         [] OTHER -> b

(* while let Some(packet) = dequeue_rx_packet(..), for one session. *)
Drain(b, s) ==
    LET Step(a) == IF a.result = "Ok" /\ a.rx[s] # <<>> THEN HandlePacket(a, s) ELSE a
        after[n \in 0..Len(b.rx[s])] == IF n = 0 THEN b ELSE Step(after[n - 1])
    IN after[Len(b.rx[s])]

(* process_all_session_packets: the queues of all sessions, in their       *)
(* order, up to the first error.                                           *)
ProcessAll(b) ==
    LET after[n \in 0..Len(b.sessions)] ==
            IF n = 0 THEN [b EXCEPT !.result = "Ok"] ELSE Drain(after[n - 1], b.sessions[n])
    IN after[Len(b.sessions)]

(* What a handler does with a packet p it has read:                        *)
(* queue_packet_received_from_client(..).and_then(process_all..).          *)
Round(b, s, p) ==
    LET queued == QueueReceived(b, s, p)
    IN IF queued.result = "Ok" THEN ProcessAll(queued) ELSE queued

(* get_sessions_with_pending_packets. *)
SessionsWithPending(b) ==
    Kept(b.sessions, {s \in Range(b.sessions) : b.tx[s] # <<>>})

(* dequeue_packet_to_send_to_client until it gives None. *)
DequeueAll(b, s) == [b EXCEPT !.tx[s] = <<>>]

(* get_disconnected_sessions. *)
DisconnectedSessions(b) == {s \in Range(b.sessions) : b.state[s] = "Disconnected"}
=============================================================================
