------------------------------- MODULE Broker -------------------------------
(***************************************************************************)
(* The picobroker core: PicoBroker (broker.rs) over its SessionRegistry    *)
(* (session.rs) and its TopicRegistry (topics.rs).                         *)
(*                                                                         *)
(* Every method takes &mut self, so calls never overlap: a call may start  *)
(* only while `pc = "idle"'.  All of them are one action, except           *)
(* process_all_session_packets, whose loops are run one iteration per      *)
(* action, so that what an early return (`?') leaves behind half done is   *)
(* part of the state.                                                      *)
(*                                                                         *)
(* Packets keep what the broker looks at.  `from' and `seq' of a PUBLISH   *)
(* stand for its payload and packet id: the seq-th message of that client. *)
(* client_id is written by handle_connect and read by nothing: left out.   *)
(***************************************************************************)
EXTENDS Vectors, FiniteSets

CONSTANTS
    SessionIds,                 \* the ids a caller hands to register_new_session
    Topics,                     \* names clients publish to
    Filters,                    \* names clients subscribe with
    TopicMatches(_, _),         \* topics.rs topic_matches, see module TopicName
    KeepAlives,                 \* keep-alive values, in seconds
    Times,                      \* clock readings handed in by the caller
    QoSLevels,                  \* QoS levels clients publish with
    ClientKinds,                \* per session: packet types its client sends
    ClientFilters,              \* per session: the filters its client subscribes with
    QUEUE_SIZE, MAX_SESSIONS, MAX_TOPICS, MAX_SUBSCRIBERS_PER_TOPIC,
    MaxPublish                  \* bound: messages one client publishes

ASSUME SetsAssumption ==
    /\ IsFiniteSet(SessionIds) /\ IsFiniteSet(Filters)
    /\ KeepAlives \subseteq Nat /\ Times \subseteq Nat /\ QoSLevels \subseteq 0..2
    /\ ClientKinds \in [SessionIds -> SUBSET
         {"connect", "publish", "subscribe", "pingreq", "disconnect", "ignored"}]
    /\ ClientFilters \in [SessionIds -> SUBSET Filters]
ASSUME LimitsAssumption ==
    /\ QUEUE_SIZE \in Nat /\ MAX_SESSIONS \in Nat /\ MAX_TOPICS \in Nat
    /\ MAX_SUBSCRIBERS_PER_TOPIC \in Nat \ {0} /\ MaxPublish \in Nat
ASSUME MatchAssumption ==
    \A t \in Topics, f \in Filters : TopicMatches(t, f) \in BOOLEAN

VARIABLES
    sessions,       \* the session vector: registered ids, oldest first
    state,          \* per session: its SessionState
    keep_alive,     \* per session: keep_alive_secs
    last_activity,  \* per session: last_activity
    rx, tx,         \* per session: rx_queue and tx_queue
    topics,         \* the topic vector: the filters that have an entry
    subscribers,    \* per filter: the subscriber vector of its entry
    pc,             \* where process_all_session_packets is, or "idle"
    todo,           \* its snapshot of session ids, from the current one on
    cur,            \* the PUBLISH in handle_publish
    found,          \* what get_subscribers has collected for it
    entry, idx,     \* loop positions: topic entry, subscriber
    result,         \* what the last process_all_session_packets returned
    published       \* history: how many messages each client has sent

registry == <<sessions, state, keep_alive, last_activity>>
topic_registry == <<topics, subscribers>>
control == <<pc, todo, cur, found, entry, idx, result>>
vars == <<registry, rx, tx, topic_registry, control, published>>

-----------------------------------------------------------------------------
(* Packets and results. *)

Publishes == [type : {"publish"}, topic : Topics, qos : QoSLevels,
              from : SessionIds, seq : Nat]
ClientPackets == Publishes
    \cup [type : {"connect"}, keep_alive : KeepAlives]
    \cup [type : {"subscribe"}, filter : Filters]
    \cup [type : {"pingreq", "disconnect", "ignored"}]
ServerPackets == Publishes
    \cup [type : {"puback"}, seq : Nat]
    \cup [type : {"connack", "suback", "pingresp"}]

NoPacket == [type |-> "none"]
SessionStates == {"Connecting", "Connected", "Disconnected"}
Errors == {"SessionNotFound", "SessionQueueFull", "MaxTopicsReached",
           "MaxSubscribersPerTopicReached"}

Registered == Range(sessions)
Subscribers(f) == Range(subscribers[f])

(* The sessions a message on topic t is meant for. *)
MatchingSubscribers(t) ==
    {s \in SessionIds : \E f \in Filters : TopicMatches(t, f) /\ s \in Subscribers(f)}

-----------------------------------------------------------------------------
(* HeaplessVec operations. *)

(* Mutant: front() instead of dequeue_front(). *)
dequeue_front_Peek(q) == q

(* Mutant: the length is decremented, the items are not shifted. *)
dequeue_front_NoShift(q) == SubSeq(q, 1, Len(q) - 1)

dequeue_front(q) == Tail(q)

-----------------------------------------------------------------------------
(* Session registry. *)

(* Mutant: without the map_err to SessionQueueFull. *)
QueueResult_Unmapped(s, queue) ==
    IF s \notin Registered THEN "SessionNotFound"
    ELSE IF Len(queue[s]) >= QUEUE_SIZE THEN "BufferFull"
    ELSE "Ok"

(* SessionRegistry::queue_tx_packet / queue_rx_packet: what they return.   *)
QueueResult(s, queue) ==
    IF s \notin Registered THEN "SessionNotFound"
    ELSE IF Len(queue[s]) >= QUEUE_SIZE THEN "SessionQueueFull"
    ELSE "Ok"

(* register_new_session, when it succeeds; a failed call changes nothing.  *)
RegisterNewSession(s, ka, t) ==
    /\ pc = "idle"
    /\ Len(sessions) < MAX_SESSIONS
    /\ s \notin Registered
    /\ sessions' = Append(sessions, s)
    /\ state' = [state EXCEPT ![s] = "Connecting"]
    /\ keep_alive' = [keep_alive EXCEPT ![s] = ka]
    /\ last_activity' = [last_activity EXCEPT ![s] = t]
    /\ rx' = [rx EXCEPT ![s] = <<>>]
    /\ tx' = [tx EXCEPT ![s] = <<>>]
    /\ UNCHANGED <<topic_registry, control, published>>

(* Mutant: remove_session without unregister_all. *)
remove_subscriber_Forgotten(f, s) == subscribers[f]

(* TopicEntry::remove_subscriber of the entry for f. *)
remove_subscriber(f, s) == RemoveElement(subscribers[f], s)

(* TopicRegistry::unregister_all: entries left without subscribers go.     *)
UnregisterAll(s) ==
    /\ subscribers' = [f \in Filters |-> remove_subscriber(f, s)]
    /\ topics' = Kept(topics, {f \in Range(topics) : subscribers'[f] # <<>>})

(* PicoBroker::remove_session: unregister_all, then the session with its   *)
(* queues is dropped (the fields of an absent session keep a fixed value). *)
RemoveSession(s) ==
    /\ pc = "idle"
    /\ UnregisterAll(s)
    /\ sessions' = RemoveElement(sessions, s)
    /\ state' = [state EXCEPT ![s] = "Connecting"]
    /\ keep_alive' = [keep_alive EXCEPT ![s] = 0]
    /\ last_activity' = [last_activity EXCEPT ![s] = 0]
    /\ rx' = [rx EXCEPT ![s] = <<>>]
    /\ tx' = [tx EXCEPT ![s] = <<>>]
    /\ UNCHANGED <<control, published>>

MarkSessionDisconnected(s) ==
    /\ pc = "idle"
    /\ s \in Registered
    /\ state' = [state EXCEPT ![s] = "Disconnected"]
    /\ UNCHANGED <<sessions, keep_alive, last_activity, rx, tx, topic_registry,
                   control, published>>

(* The packet number a client's next PUBLISH carries is one it never used. *)
Sendable(s, p) ==
    /\ p.type \in ClientKinds[s]
    /\ p.type = "subscribe" => p.filter \in ClientFilters[s]
    /\ p.type = "publish" =>
         /\ p.from = s /\ p.seq = published[s] + 1
         /\ published[s] < MaxPublish

(* queue_packet_received_from_client: the activity is recorded before the  *)
(* queue is found full.                                                    *)
QueuePacketReceivedFromClient(s, p, t) ==
    /\ pc = "idle"
    /\ s \in Registered
    /\ Sendable(s, p)
    /\ last_activity' = [last_activity EXCEPT ![s] = t]
    /\ rx' = IF QueueResult(s, rx) = "Ok"
             THEN [rx EXCEPT ![s] = Append(rx[s], p)]
             ELSE rx
    /\ published' = IF p.type = "publish"
                    THEN [published EXCEPT ![s] = p.seq]
                    ELSE published
    /\ UNCHANGED <<sessions, state, keep_alive, tx, topic_registry, control>>

DequeuePacketToSendToClient(s) ==
    /\ pc = "idle"
    /\ s \in Registered
    /\ tx[s] # <<>>
    /\ tx' = [tx EXCEPT ![s] = dequeue_front(tx[s])]
    /\ UNCHANGED <<registry, rx, topic_registry, control, published>>

-----------------------------------------------------------------------------
(* process_all_session_packets. *)

Begin ==
    /\ pc = "idle"
    /\ pc' = "next"
    /\ todo' = sessions
    /\ UNCHANGED <<registry, rx, tx, topic_registry, cur, found, entry, idx,
                   result, published>>

(* Control after process_all_session_packets returns r. *)
Return(r) ==
    /\ pc' = "idle"
    /\ todo' = <<>>
    /\ cur' = NoPacket
    /\ found' = <<>>
    /\ entry' = 1
    /\ idx' = 1
    /\ result' = r

(* Mutant: `if let' for the while-let loop. *)
Continue_OnePacket ==
    /\ pc' = "next"
    /\ todo' = Tail(todo)
    /\ cur' = NoPacket
    /\ found' = <<>>
    /\ entry' = 1
    /\ idx' = 1
    /\ UNCHANGED result

(* Control after a handler returned Ok: on with the while-let loop. *)
Continue ==
    /\ pc' = "next"
    /\ cur' = NoPacket
    /\ found' = <<>>
    /\ entry' = 1
    /\ idx' = 1
    /\ UNCHANGED <<todo, result>>

(* queue_tx_packet returns Ok. *)
QueueTxPacket(s, p) ==
    /\ QueueResult(s, tx) = "Ok"
    /\ tx' = [tx EXCEPT ![s] = Append(tx[s], p)]

(* queue_tx_packet fails, and with it process_all_session_packets: the     *)
(* rest of the handler, of the queue and of the sessions is skipped.       *)
QueueTxFails(s) ==
    /\ QueueResult(s, tx) # "Ok"
    /\ Return(QueueResult(s, tx))
    /\ UNCHANGED tx

Done ==
    /\ pc = "next"
    /\ todo = <<>>
    /\ Return("Ok")
    /\ UNCHANGED <<registry, rx, tx, topic_registry, published>>

(* dequeue_rx_packet finds nothing more, or no session. *)
NextSession ==
    /\ pc = "next"
    /\ todo # <<>>
    /\ rx[Head(todo)] = <<>>
    /\ IF Head(todo) \in Registered
       THEN todo' = Tail(todo) /\ UNCHANGED <<pc, cur, found, entry, idx, result>>
       ELSE Return("SessionNotFound")
    /\ UNCHANGED <<registry, rx, tx, topic_registry, published>>

(* The while-let loop takes a packet of this type from the current session. *)
Taking(type) ==
    /\ pc = "next"
    /\ todo # <<>>
    /\ rx[Head(todo)] # <<>>
    /\ Head(rx[Head(todo)]).type = type
    /\ rx' = [rx EXCEPT ![Head(todo)] = dequeue_front(rx[Head(todo)])]

HandleConnect ==
    LET s == Head(todo)
        connect == Head(rx[s]) IN
    /\ Taking("connect")
    /\ keep_alive' = [keep_alive EXCEPT ![s] = connect.keep_alive]
    /\ state' = [state EXCEPT ![s] = "Connected"]
    /\ \/ QueueTxPacket(s, [type |-> "connack"]) /\ Continue
       \/ QueueTxFails(s)
    /\ UNCHANGED <<sessions, last_activity, topic_registry, published>>

HandlePingreq ==
    /\ Taking("pingreq")
    /\ \/ QueueTxPacket(Head(todo), [type |-> "pingresp"]) /\ Continue
       \/ QueueTxFails(Head(todo))
    /\ UNCHANGED <<registry, topic_registry, published>>

HandleDisconnect ==
    /\ Taking("disconnect")
    /\ state' = [state EXCEPT ![Head(todo)] = "Disconnected"]
    /\ Continue
    /\ UNCHANGED <<sessions, keep_alive, last_activity, tx, topic_registry, published>>

(* UNSUBSCRIBE, the acknowledgements and server-to-client packets. *)
HandleIgnored ==
    /\ Taking("ignored")
    /\ Continue
    /\ UNCHANGED <<registry, tx, topic_registry, published>>

(* TopicRegistry::subscribe: what it returns. *)
SubscribeResult(s, f) ==
    IF f \in Range(topics)
    THEN IF s \in Subscribers(f) \/ Len(subscribers[f]) < MAX_SUBSCRIBERS_PER_TOPIC
         THEN "Ok" ELSE "MaxSubscribersPerTopicReached"
    ELSE IF Len(topics) < MAX_TOPICS THEN "Ok" ELSE "MaxTopicsReached"

(* Mutant: without the contains check. *)
add_subscriber_Again(f, s) == Append(subscribers[f], s)

(* TopicEntry::add_subscriber. *)
add_subscriber(f, s) ==
    IF s \in Subscribers(f) THEN subscribers[f] ELSE Append(subscribers[f], s)

Subscribe(s, f) ==
    /\ subscribers' = [subscribers EXCEPT ![f] = add_subscriber(f, s)]
    /\ topics' = IF f \in Range(topics) THEN topics ELSE Append(topics, f)

HandleSubscribe ==
    LET s == Head(todo)
        f == Head(rx[s]).filter IN
    /\ Taking("subscribe")
    /\ \/ /\ SubscribeResult(s, f) = "Ok"
          /\ Subscribe(s, f)
          /\ \/ QueueTxPacket(s, [type |-> "suback"]) /\ Continue
             \/ QueueTxFails(s)
       \/ /\ SubscribeResult(s, f) # "Ok"
          /\ Return(SubscribeResult(s, f))
          /\ UNCHANGED <<topic_registry, tx>>
    /\ UNCHANGED <<registry, published>>

(* handle_publish, up to the call of get_subscribers. *)
HandlePublish ==
    /\ Taking("publish")
    /\ pc' = "collect"
    /\ cur' = Head(rx[Head(todo)])
    /\ found' = <<>>
    /\ entry' = 1
    /\ idx' = 1
    /\ UNCHANGED <<registry, tx, topic_registry, todo, result, published>>

(* get_subscribers: has the entry at the loop position a subscriber left?  *)
AtSubscriber ==
    /\ entry <= Len(topics)
    /\ TopicMatches(cur.topic, topics[entry])
    /\ idx <= Len(subscribers[topics[entry]])

(* Mutant: without the check that the id is not in the list yet. *)
PushFound_Duplicates(s) ==
    IF Len(found) >= MAX_SUBSCRIBERS_PER_TOPIC THEN found ELSE Append(found, s)

(* get_subscribers, inner loop: a push past the capacity is dropped.       *)
PushFound(s) ==
    IF s \in Range(found) \/ Len(found) >= MAX_SUBSCRIBERS_PER_TOPIC
    THEN found ELSE Append(found, s)

CollectSubscriber ==
    /\ pc = "collect"
    /\ AtSubscriber
    /\ found' = PushFound(subscribers[topics[entry]][idx])
    /\ idx' = idx + 1
    /\ UNCHANGED <<registry, rx, tx, topic_registry, pc, todo, cur, entry,
                   result, published>>

CollectNextEntry ==
    /\ pc = "collect"
    /\ entry <= Len(topics)
    /\ ~AtSubscriber
    /\ entry' = entry + 1
    /\ idx' = 1
    /\ UNCHANGED <<registry, rx, tx, topic_registry, pc, todo, cur, found,
                   result, published>>

CollectDone ==
    /\ pc = "collect"
    /\ entry > Len(topics)
    /\ pc' = "deliver"
    /\ idx' = 1
    /\ UNCHANGED <<registry, rx, tx, topic_registry, todo, cur, found, entry,
                   result, published>>

(* Mutant: the error of queue_tx_packet is dropped. *)
Deliver_IgnoringErrors ==
    /\ pc = "deliver"
    /\ idx <= Len(found)
    /\ \/ QueueTxPacket(found[idx], cur)
       \/ QueueResult(found[idx], tx) # "Ok" /\ UNCHANGED tx
    /\ idx' = idx + 1
    /\ UNCHANGED <<registry, rx, topic_registry, pc, todo, cur, found, entry,
                   result, published>>

(* handle_publish: one iteration of the delivery loop. *)
Deliver ==
    /\ pc = "deliver"
    /\ idx <= Len(found)
    /\ \/ /\ QueueTxPacket(found[idx], cur)
          /\ idx' = idx + 1
          /\ UNCHANGED <<pc, todo, cur, found, entry, result>>
       \/ QueueTxFails(found[idx])
    /\ UNCHANGED <<registry, rx, topic_registry, published>>

(* handle_publish after the loop: PUBACK above QoS 0, where, and only     *)
(* where, the decoder gives a PUBLISH a packet id.                         *)
PublishDone ==
    /\ pc = "deliver"
    /\ idx > Len(found)
    /\ \/ cur.qos = 0 /\ UNCHANGED tx /\ Continue
       \/ /\ cur.qos > 0
          /\ QueueTxPacket(Head(todo), [type |-> "puback", seq |-> cur.seq])
          /\ Continue
       \/ cur.qos > 0 /\ QueueTxFails(Head(todo))
    /\ UNCHANGED <<registry, rx, topic_registry, published>>

Process ==
    \/ Done \/ NextSession
    \/ HandleConnect \/ HandlePingreq \/ HandleDisconnect \/ HandleIgnored
    \/ HandleSubscribe
    \/ HandlePublish \/ CollectSubscriber \/ CollectNextEntry \/ CollectDone
    \/ Deliver \/ PublishDone

-----------------------------------------------------------------------------

Init ==
    /\ sessions = <<>>
    /\ state = [s \in SessionIds |-> "Connecting"]
    /\ keep_alive = [s \in SessionIds |-> 0]
    /\ last_activity = [s \in SessionIds |-> 0]
    /\ rx = [s \in SessionIds |-> <<>>]
    /\ tx = [s \in SessionIds |-> <<>>]
    /\ topics = <<>>
    /\ subscribers = [f \in Filters |-> <<>>]
    /\ pc = "idle"
    /\ todo = <<>>
    /\ cur = NoPacket
    /\ found = <<>>
    /\ entry = 1
    /\ idx = 1
    /\ result = "Ok"
    /\ published = [s \in SessionIds |-> 0]

(* What the task that holds the broker may call. *)
Call(s) ==
    \/ \E ka \in KeepAlives, t \in Times : RegisterNewSession(s, ka, t)
    \/ RemoveSession(s)
    \/ MarkSessionDisconnected(s)
    \/ DequeuePacketToSendToClient(s)

(* A client's packets: every type, with every parameter. *)
Receive(s, t) ==
    \/ \E ka \in KeepAlives :
         QueuePacketReceivedFromClient(s, [type |-> "connect", keep_alive |-> ka], t)
    \/ \E f \in Filters :
         QueuePacketReceivedFromClient(s, [type |-> "subscribe", filter |-> f], t)
    \/ \E n \in Topics, q \in QoSLevels :
         QueuePacketReceivedFromClient(s,
            [type |-> "publish", topic |-> n, qos |-> q, from |-> s,
             seq |-> published[s] + 1], t)
    \/ \E type \in {"pingreq", "disconnect", "ignored"} :
         QueuePacketReceivedFromClient(s, [type |-> type], t)

Next ==
    \/ \E s \in SessionIds : Call(s)
    \/ \E s \in SessionIds, t \in Times : Receive(s, t)
    \/ Begin
    \/ Process

Spec == Init /\ [][Next]_vars

(* The loops of a call that has been entered run on. *)
FairSpec == Spec /\ WF_vars(Process)

-----------------------------------------------------------------------------
(* Properties. *)

ControlTypeOK ==
    /\ pc \in {"idle", "next", "collect", "deliver"}
    /\ todo \in Seq(SessionIds)
    /\ found \in Seq(SessionIds)
    /\ entry \in Nat \ {0} /\ idx \in Nat \ {0}
    /\ result \in Errors \cup {"Ok"}
    /\ IF pc \in {"collect", "deliver"}
       THEN cur \in Publishes /\ todo # <<>>
       ELSE cur = NoPacket /\ found = <<>>

(* Type correctness of the broker's state: handle_publish, and nothing     *)
(* else, has a message in hand.                                            *)
TypeOK ==
    /\ sessions \in Seq(SessionIds)
    /\ state \in [SessionIds -> SessionStates]
    /\ keep_alive \in [SessionIds -> Nat]
    /\ last_activity \in [SessionIds -> Nat]
    /\ rx \in [SessionIds -> Seq(ClientPackets)]
    /\ tx \in [SessionIds -> Seq(ServerPackets)]
    /\ topics \in Seq(Filters)
    /\ subscribers \in [Filters -> Seq(SessionIds)]
    /\ ControlTypeOK
    /\ published \in [SessionIds -> Nat]

(* Every subscriber of every topic entry is a registered session: the two  *)
(* registries, kept apart and both searched by id, never drift. A dangling *)
(* id would make queue_tx_packet fail for every later publisher.           *)
SubscribersAreSessions == \A f \in Filters : Subscribers(f) \subseteq Registered

(* Hence processing never ends with SessionNotFound: neither the snapshot  *)
(* of session ids nor the list of subscribers is stale when it is used.    *)
NeverSessionNotFound == result # "SessionNotFound"

(* No id is registered twice, no filter has two entries, no entry lists a  *)
(* subscriber twice, and a filter has an entry exactly while it has        *)
(* subscribers (unregister_all leaves no empty entry to use up MAX_TOPICS).*)
RegistriesConsistent ==
    /\ IsInjective(sessions)
    /\ IsInjective(topics)
    /\ \A f \in Filters : /\ IsInjective(subscribers[f])
                          /\ f \in Range(topics) <=> subscribers[f] # <<>>

(* The push in get_subscribers whose failure is discarded (let _ =) never  *)
(* fails when, as in every shipped configuration, an entry has room for    *)
(* all sessions: each session with a matching filter is found, once,       *)
(* however many of its filters match.                                      *)
NoSubscriberDropped ==
    pc = "deliver" /\ MAX_SESSIONS <= MAX_SUBSCRIBERS_PER_TOPIC =>
        /\ Range(found) = MatchingSubscribers(cur.topic)
        /\ IsInjective(found)

(* A PUBACK is queued only when the message it acknowledges is in the      *)
(* queue of every session subscribed to its topic at that moment.          *)
PubackMeansDelivered ==
    [][\A a \in SessionIds :
         /\ tx'[a] # <<>> /\ Len(tx'[a]) > Len(tx[a])
         /\ Last(tx'[a]).type = "puback"
         => \A s \in MatchingSubscribers(cur.topic) :
              \E i \in DOMAIN tx[s] : /\ tx[s][i].type = "publish"
                                      /\ tx[s][i].from = a
                                      /\ tx[s][i].seq = Last(tx'[a]).seq]_vars

(* The messages of one publisher stand in each subscriber's queue in the   *)
(* order they were sent and never twice, across the two queues they pass   *)
(* and the overlapping filters that may match them.                        *)
InOrderOnce ==
    \A s \in SessionIds : \A i, j \in DOMAIN tx[s] :
        (/\ i < j
         /\ tx[s][i].type = "publish" /\ tx[s][j].type = "publish"
         /\ tx[s][i].from = tx[s][j].from) => tx[s][i].seq < tx[s][j].seq

(* process_all_session_packets returns Ok only when it has emptied every   *)
(* receive queue; the servers rely on it to find nothing left over.        *)
OkMeansDrained ==
    [][pc # "idle" /\ pc' = "idle" /\ result' = "Ok" =>
         \A s \in SessionIds : rx'[s] = <<>>]_vars

(* A call of process_all_session_packets returns, whatever was queued.     *)
ProcessingEnds == pc # "idle" ~> pc = "idle"
=============================================================================
