---------------------------- MODULE TokioServer ----------------------------
(***************************************************************************)
(* The Tokio server: one handler task per connection (handler.rs           *)
(* handle_connection), the cleanup task (server.rs) and the state they     *)
(* share (state.rs), over the broker of BrokerRound.  An action runs a     *)
(* task from one await to the next.                                        *)
(*                                                                         *)
(* A task waits in three places outside of its select!: for room in the    *)
(* notification channel of a session, holding the read guard of that       *)
(* session's entry in the DashMap of senders; for room in the channel of   *)
(* frames to its own client, which only it reads; and for its client to    *)
(* take a frame.  Time is left out (see KeepAlive): the keep-alive timeout *)
(* may strike whenever the task is in its select!.                         *)
(***************************************************************************)
EXTENDS BrokerRound, FiniteSets

CONSTANTS
    Connections,            \* connections, and the session ids they get
    ClientKinds,            \* per connection: packet types its client sends
    MaxSent,                \* bound, per connection: packets its client sends
    NOTIFY_CAPACITY,        \* of a notification channel: 8
    FRAME_CAPACITY,         \* config.frame_channel_capacity: 32
    Faults                  \* what may happen: "close", "stall", "timeout", "expire"

ASSUME TokioAssumption ==
    /\ NOTIFY_CAPACITY \in Nat \ {0} /\ FRAME_CAPACITY \in Nat \ {0}
    /\ IsFiniteSet(Connections)
    /\ Faults \subseteq {"close", "stall", "timeout", "expire"}

VARIABLES
    broker,                 \* the broker, behind its mutex
    connections,            \* ServerState.connections
    senders,                \* the ids in ServerState.notification_senders
    channel,                \* per session: tokens in its notification channel
    pc,                     \* per handler: where it is
    packet,                 \* the packet it has read
    to_notify,              \* sessions_to_notify, what is left of it
    tx_packets,             \* packets to encode and send, what is left of them
    frames,                 \* the channel of frames to its client
    socket,                 \* what the client has written and nobody has read
    received,               \* what the client has got
    sent,                   \* how many packets the client has sent
    closed, stalled,        \* the client has closed, or does not read
    failed                  \* history: a round of processing has failed

shared == <<broker, connections, senders, channel>>
handler == <<pc, packet, to_notify, tx_packets, frames>>
client == <<socket, received, sent, closed, stalled>>
vars == <<shared, handler, client, failed>>

NoPacket == [type |-> "none"]
Registered == Range(broker.sessions)

(* The handler's function has returned: its ends of the channels are gone. *)
Gone(c) == pc[c] \in {"done", "failed"}

Go(c, place) == pc' = [pc EXCEPT ![c] = place]

-----------------------------------------------------------------------------
(* A connection is accepted. *)

(* generate_session_id, and register_notification of a new channel. *)
Accept(c) ==
    /\ pc[c] = "new"
    /\ senders' = senders \cup {c}
    /\ Go(c, "register")
    /\ UNCHANGED <<broker, connections, channel, packet, to_notify, tx_packets, frames,
                   client, failed>>

(* The early return leaves the sender where it is. *)
Register(c) ==
    /\ pc[c] = "register"
    /\ broker' = RegisterNewSession(broker, c)
    /\ Go(c, IF broker'.result = "Ok" THEN "insert" ELSE "failed")
    /\ UNCHANGED <<connections, senders, channel, packet, to_notify, tx_packets, frames,
                   client, failed>>

InsertConnection(c) ==
    /\ pc[c] = "insert"
    /\ connections' = connections \cup {c}
    /\ Go(c, "select")
    /\ UNCHANGED <<broker, senders, channel, packet, to_notify, tx_packets, frames,
                   client, failed>>

-----------------------------------------------------------------------------
(* First branch of the select!: a packet is read. *)

ReadPacket(c) ==
    /\ pc[c] = "select"
    /\ socket[c] # <<>>
    /\ Head(socket[c]).type # "malformed"
    /\ packet' = [packet EXCEPT ![c] = Head(socket[c])]
    /\ socket' = [socket EXCEPT ![c] = Tail(@)]
    /\ Go(c, "process")
    /\ UNCHANGED <<shared, to_notify, tx_packets, frames, received, sent, closed, stalled,
                   failed>>

(* Mutant: only the session itself, not whoever got packets. *)
SessionsToNotify_Own(b, c) == SelectSeq(SessionsWithPending(b), LAMBDA s : s = c)

SessionsToNotify(b, c) == SessionsWithPending(b)

(* The section under the lock. The list of sessions to notify is taken     *)
(* before the handler empties its own queue.                               *)
Process(c) ==
    /\ pc[c] = "process"
    /\ \E b \in {Round(broker, c, packet[c])} :
         IF b.result = "Ok"
         THEN /\ to_notify' = [to_notify EXCEPT ![c] = SessionsToNotify(b, c)]
              /\ tx_packets' = [tx_packets EXCEPT ![c] = b.tx[c]]
              /\ broker' = DequeueAll(b, c)
              /\ UNCHANGED failed
         ELSE /\ broker' = MarkSessionDisconnected(b, c)
              /\ failed' = TRUE
              /\ UNCHANGED <<to_notify, tx_packets>>
    /\ packet' = [packet EXCEPT ![c] = NoPacket]
    /\ Go(c, "notify")
    /\ UNCHANGED <<connections, senders, channel, frames, client>>

(* notify_session of the next session on the list is over. *)
Notified(c) == to_notify' = [to_notify EXCEPT ![c] = Tail(@)]

(* Mutant: an unbounded channel. *)
PutToken_Unbounded(s) == channel' = [channel EXCEPT ![s] = @ + 1]

PutToken(s) ==
    /\ channel[s] < NOTIFY_CAPACITY
    /\ channel' = [channel EXCEPT ![s] = @ + 1]

(* There is no sender, its receiver is gone, or there is room. *)
NotifySession(c) ==
    /\ pc[c] = "notify"
    /\ to_notify[c] # <<>>
    /\ LET s == Head(to_notify[c]) IN
         \/ (s \notin senders \/ Gone(s)) /\ UNCHANGED channel
         \/ s \in senders /\ ~Gone(s) /\ PutToken(s)
    /\ Notified(c)
    /\ UNCHANGED <<broker, connections, senders, pc, packet, tx_packets, frames, client,
                   failed>>

(* There is no room: send awaits some, and the guard is kept meanwhile.    *)
NotifyWaits(c) ==
    /\ pc[c] = "notify"
    /\ to_notify[c] # <<>>
    /\ LET s == Head(to_notify[c]) IN
         s \in senders /\ ~Gone(s) /\ channel[s] = NOTIFY_CAPACITY
    /\ Go(c, "waiting")
    /\ UNCHANGED <<shared, packet, to_notify, tx_packets, frames, client, failed>>

NotifyContinues(c) ==
    /\ pc[c] = "waiting"
    /\ PutToken(Head(to_notify[c]))
    /\ Notified(c)
    /\ Go(c, "notify")
    /\ UNCHANGED <<broker, connections, senders, packet, tx_packets, frames, client, failed>>

AllNotified(c) ==
    /\ pc[c] = "notify"
    /\ to_notify[c] = <<>>
    /\ Go(c, "send")
    /\ UNCHANGED <<shared, packet, to_notify, tx_packets, frames, client, failed>>

(* Mutant: the packets are popped off the end of the vector. *)
NextToSend_Popped(c) == [item |-> Last(tx_packets[c]), rest |-> Front(tx_packets[c])]

NextToSend(c) == [item |-> Head(tx_packets[c]), rest |-> Tail(tx_packets[c])]

(* encode_frame and frame_tx.send, when there is room. *)
SendFrame(c) ==
    /\ pc[c] = "send"
    /\ tx_packets[c] # <<>>
    /\ Len(frames[c]) < FRAME_CAPACITY
    /\ frames' = [frames EXCEPT ![c] = Append(@, NextToSend(c).item)]
    /\ tx_packets' = [tx_packets EXCEPT ![c] = NextToSend(c).rest]
    /\ UNCHANGED <<shared, pc, packet, to_notify, client, failed>>

AllSent(c) ==
    /\ pc[c] = "send"
    /\ tx_packets[c] = <<>>
    /\ Go(c, "select")
    /\ UNCHANGED <<shared, packet, to_notify, tx_packets, frames, client, failed>>

-----------------------------------------------------------------------------
(* Second branch: a notification. *)

ReceiveNotification(c) ==
    /\ pc[c] = "select"
    /\ channel[c] > 0
    /\ channel' = [channel EXCEPT ![c] = @ - 1]
    /\ Go(c, "drain")
    /\ UNCHANGED <<broker, connections, senders, packet, to_notify, tx_packets, frames,
                   client, failed>>

DrainQueue(c) ==
    /\ pc[c] = "drain"
    /\ tx_packets' = [tx_packets EXCEPT ![c] = broker.tx[c]]
    /\ broker' = DequeueAll(broker, c)
    /\ Go(c, "send")
    /\ UNCHANGED <<connections, senders, channel, packet, to_notify, frames, client, failed>>

-----------------------------------------------------------------------------
(* Third branch: a frame for the client, which write_all hands over. *)

ReceiveFrame(c) ==
    /\ pc[c] = "select"
    /\ frames[c] # <<>>
    /\ packet' = [packet EXCEPT ![c] = Head(frames[c])]
    /\ frames' = [frames EXCEPT ![c] = Tail(@)]
    /\ Go(c, "write")
    /\ UNCHANGED <<shared, to_notify, tx_packets, client, failed>>

WriteDone(c) ==
    /\ pc[c] = "write"
    /\ ~stalled[c]
    /\ received' = [received EXCEPT ![c] = Append(@, packet[c])]
    /\ packet' = [packet EXCEPT ![c] = NoPacket]
    /\ Go(c, "select")
    /\ UNCHANGED <<shared, to_notify, tx_packets, frames, socket, sent, closed, stalled,
                   failed>>

-----------------------------------------------------------------------------
(* The loop is left: end of file, a protocol error, a failed write, or the *)
(* timeout; then the cleanup at the end of handle_connection.              *)

Leave(c) ==
    /\ \/ pc[c] = "select" /\ closed[c] /\ socket[c] = <<>>
       \/ pc[c] = "select" /\ socket[c] # <<>> /\ Head(socket[c]).type = "malformed"
       \/ pc[c] = "write" /\ closed[c]
    /\ connections' = connections \ {c}
    /\ packet' = [packet EXCEPT ![c] = NoPacket]
    /\ Go(c, "remove_sender")
    /\ UNCHANGED <<broker, senders, channel, to_notify, tx_packets, frames, client, failed>>

Timeout(c) ==
    /\ "timeout" \in Faults
    /\ pc[c] = "select"
    /\ connections' = connections \ {c}
    /\ Go(c, "remove_sender")
    /\ UNCHANGED <<broker, senders, channel, packet, to_notify, tx_packets, frames, client,
                   failed>>

(* Somebody awaits inside of notify_session(c), holding the read guard. *)
Guarded(c) == \E h \in Connections : pc[h] = "waiting" /\ Head(to_notify[h]) = c

(* Mutant: the sender is left in the map. *)
RemoveNotification_Forgotten(c) ==
    /\ pc[c] = "remove_sender"
    /\ Go(c, "remove_session")
    /\ UNCHANGED <<shared, packet, to_notify, tx_packets, frames, client, failed>>

(* DashMap::remove blocks while an entry of the shard is guarded. *)
RemoveNotification(c) ==
    /\ pc[c] = "remove_sender"
    /\ ~Guarded(c)
    /\ senders' = senders \ {c}
    /\ Go(c, "remove_session")
    /\ UNCHANGED <<broker, connections, channel, packet, to_notify, tx_packets, frames,
                   client, failed>>

RemoveBrokerSession(c) ==
    /\ pc[c] = "remove_session"
    /\ broker' = RemoveSession(broker, c)
    /\ Go(c, "done")
    /\ UNCHANGED <<connections, senders, channel, packet, to_notify, tx_packets, frames,
                   client, failed>>

-----------------------------------------------------------------------------
(* cleanup_task: what it finds expired, and what is disconnected, leaves   *)
(* the broker and the map of connections; handlers and senders stay.       *)

CleanupScan(expired) ==
    LET gone == expired \cup DisconnectedSessions(broker) IN
    /\ gone # {}
    /\ connections' = connections \ gone
    /\ broker' = RemoveSessions(broker, gone)
    /\ UNCHANGED <<senders, channel, handler, client, failed>>

-----------------------------------------------------------------------------
(* Clients. *)

(* The next packet of client c; pings are told apart by nothing.           *)
ClientPackets(c) ==
    {[type |-> t] : t \in ClientKinds[c] \ {"publish"}}
    \cup (IF "publish" \in ClientKinds[c]
          THEN {[type |-> "publish", qos |-> 1, from |-> c, seq |-> sent[c] + 1]} ELSE {})

ClientSends(c) ==
    /\ ~Gone(c) /\ pc[c] # "new" /\ ~closed[c]
    /\ sent[c] < MaxSent[c]
    /\ \E p \in ClientPackets(c) : socket' = [socket EXCEPT ![c] = Append(@, p)]
    /\ sent' = [sent EXCEPT ![c] = @ + 1]
    /\ UNCHANGED <<shared, handler, received, closed, stalled, failed>>

ClientCloses(c) ==
    /\ "close" \in Faults
    /\ pc[c] # "new" /\ ~closed[c]
    /\ closed' = [closed EXCEPT ![c] = TRUE]
    /\ UNCHANGED <<shared, handler, socket, received, sent, stalled, failed>>

ClientStalls(c) ==
    /\ "stall" \in Faults
    /\ pc[c] # "new" /\ ~stalled[c] /\ ~closed[c]
    /\ stalled' = [stalled EXCEPT ![c] = TRUE]
    /\ UNCHANGED <<shared, handler, socket, received, sent, closed, failed>>

-----------------------------------------------------------------------------

Each(v) == [c \in Connections |-> v]

Init ==
    /\ broker = EmptyBroker(Connections)
    /\ connections = {} /\ senders = {} /\ channel = Each(0)
    /\ pc = Each("new") /\ packet = Each(NoPacket)
    /\ to_notify = Each(<<>>) /\ tx_packets = Each(<<>>) /\ frames = Each(<<>>)
    /\ socket = Each(<<>>) /\ received = Each(<<>>) /\ sent = Each(0)
    /\ closed = Each(FALSE) /\ stalled = Each(FALSE)
    /\ failed = FALSE

(* What handler c does by itself, once what it waits for is there. *)
HandlerStep(c) ==
    \/ Register(c) \/ InsertConnection(c)
    \/ ReadPacket(c) \/ Process(c)
    \/ NotifySession(c) \/ NotifyWaits(c) \/ NotifyContinues(c) \/ AllNotified(c)
    \/ SendFrame(c) \/ AllSent(c)
    \/ ReceiveNotification(c) \/ DrainQueue(c)
    \/ ReceiveFrame(c) \/ WriteDone(c)
    \/ Leave(c) \/ RemoveNotification(c) \/ RemoveBrokerSession(c)

Next ==
    \/ \E c \in Connections :
         \/ HandlerStep(c) \/ Accept(c) \/ Timeout(c)
         \/ ClientSends(c) \/ ClientCloses(c) \/ ClientStalls(c)
    \/ \E expired \in SUBSET Registered :
         (expired # {} => "expire" \in Faults) /\ CleanupScan(expired)

Spec == Init /\ [][Next]_vars

(* The runtime polls a task that can go on, and the cleanup task's timer   *)
(* fires; nothing obliges a session to expire.                             *)
FairSpec ==
    /\ Spec
    /\ \A c \in Connections : WF_vars(HandlerStep(c))
    /\ WF_vars(CleanupScan({}))

-----------------------------------------------------------------------------
(* Properties. *)

(* Handler c is past its registration and before its cleanup. *)
InLoop(c) == pc[c] \notin {"new", "register", "insert", "remove_sender", "remove_session",
                           "done", "failed"}

(* Every variable has its type, and no channel or queue holds more than    *)
(* its capacity.                                                           *)
TypeOK ==
    /\ Registered \cup connections \cup senders \subseteq Connections
    /\ channel \in [Connections -> 0 .. NOTIFY_CAPACITY]
    /\ pc \in [Connections -> {"new", "register", "insert", "select", "process", "notify",
                               "waiting", "send", "drain", "write", "remove_sender",
                               "remove_session", "done", "failed"}]
    /\ \A c \in Connections :
         /\ Len(frames[c]) <= FRAME_CAPACITY
         /\ Len(broker.tx[c]) <= QUEUE_SIZE /\ Len(broker.rx[c]) <= QUEUE_SIZE
         /\ to_notify[c] # <<>> => pc[c] \in {"notify", "waiting"}
    /\ closed \in [Connections -> BOOLEAN] /\ stalled \in [Connections -> BOOLEAN]

(* No wake-up is lost between the release of the broker's lock and the     *)
(* receiver's next select!: as long as no round of processing has failed,  *)
(* a session with packets to send has a token in its channel, or is still  *)
(* on some handler's list, or is about to empty its queue.                 *)
WakeUpNotLost ==
    \A s \in Registered :
        ~failed /\ InLoop(s) /\ broker.tx[s] # <<>> =>
            \/ channel[s] > 0
            \/ pc[s] = "drain"
            \/ \E h \in Connections : s \in Range(to_notify[h])

(* What is under way to client c, in the order in which it was queued. *)
Pipeline(c) ==
    received[c] \o (IF pc[c] = "write" THEN <<packet[c]>> ELSE <<>>)
    \o frames[c] \o tx_packets[c] \o broker.tx[c]

(* Three queues and two places where a handler takes packets off the first *)
(* keep the order: a client gets the messages of a publisher in the order  *)
(* in which they were published, and none twice.                           *)
InOrderToClient ==
    \A c \in Connections : \A i, j \in DOMAIN Pipeline(c) :
        LET m == Pipeline(c)[i]
            n == Pipeline(c)[j]
        IN i < j /\ m.type = "publish" /\ n.type = "publish" /\ m.from = n.from =>
             m.seq < n.seq

(* A connection that has ended holds no slot of the broker, no subscriber  *)
(* entry, no connection and no sender, whatever ended it and whatever the  *)
(* cleanup task has done meanwhile; one that never registered holds its    *)
(* sender only.                                                            *)
CleanedUp ==
    \A c \in Connections :
        /\ Gone(c) => c \notin Registered \cup connections \cup Range(broker.subscribers)
        /\ pc[c] = "done" => c \notin senders

(* A connection is turned away only while MAX_SESSIONS others are handled: *)
(* nothing that ends a connection costs the broker a slot.                 *)
TurnedAwayOnlyWhenFull ==
    [][\A c \in Connections : pc[c] = "register" /\ pc'[c] = "failed" =>
          Cardinality({h \in Connections \ {c} : ~Gone(h) /\ pc[h] # "new"}) >= MAX_SESSIONS
      ]_vars

(* A session with packets to send gets rid of them: its handler is woken   *)
(* and takes them, or the session ends.                                    *)
QueuedIsDelivered ==
    \A c \in Connections : broker.tx[c] # <<>> ~> broker.tx[c] = <<>>

(* handler.rs, after the loop: "Remove notification sender".  A handler in *)
(* its cleanup can: nobody holds the guard of its entry waiting for room   *)
(* in a channel that it will not read again.                               *)
CleanupNotBlocked == \A c \in Connections : ~(pc[c] = "remove_sender" /\ Guarded(c))

(* README.md lists PINGRESP among the supported packets: a client whose    *)
(* connection stays up has every PINGREQ answered.                         *)
PingsAnswered ==
    \A c \in Connections : \A n \in 1 .. MaxSent[c] :
        sent[c] = n ~> Len(SelectSeq(received[c], LAMBDA m : m.type = "pingresp")) >= n

(* server.rs on connection_count: "Get the number of active connections",  *)
(* the ones whose handler is in its loop.                                  *)
ConnectionsAreActive == connections = {c \in Connections : InLoop(c)}

=============================================================================
