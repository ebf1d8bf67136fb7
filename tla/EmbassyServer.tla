--------------------------- MODULE EmbassyServer ---------------------------
(***************************************************************************)
(* The RP2040 server: MAX_SESSIONS accept tasks, each with one socket and  *)
(* one slot of the notification registry for all the connections it will   *)
(* ever handle (main.rs accept_task, handler.rs, io.rs, state.rs), and the *)
(* cleanup task, over the broker of BrokerRound.  The executor is          *)
(* cooperative: an action runs a task from one await to the next.          *)
(*                                                                         *)
(* A packet is a sequence of units: its type byte, the first byte of its   *)
(* length, the rest of the length and the body.  They are written, arrive  *)
(* and are read in pieces.                                                 *)
(***************************************************************************)
EXTENDS BrokerRound, FiniteSets, Functions

CONSTANTS
    Slots,              \* socket_idx of the accept tasks
    MaxAccepted,        \* bound: connections accepted in all
    ClientKinds,        \* per session: packet types its client sends
    MaxSent,            \* bound, per session: packets its client sends
    Layout,             \* per packet type: units of its head (type and length), and in all
    RX_BUFFER_SIZE,     \* units rx_buffer holds
    TX_PACKETS,         \* packets the vector of packets to write holds: 8
    Faults              \* "split", "close", "stall", "timeout", "expire"

Sessions == 1 .. MaxAccepted

ASSUME EmbassyAssumption ==
    /\ IsFiniteSet(Slots) /\ Cardinality(Slots) = MAX_SESSIONS
    /\ MaxAccepted \in Nat /\ TX_PACKETS \in Nat
    /\ RX_BUFFER_SIZE \in Nat /\ RX_BUFFER_SIZE >= 2
    /\ \A t \in DOMAIN Layout :
         /\ Layout[t].head \in Nat /\ Layout[t].total \in Nat
         /\ 2 <= Layout[t].head /\ Layout[t].head <= Layout[t].total
    /\ \A s \in Sessions : ClientKinds[s] \subseteq DOMAIN Layout

VARIABLES
    broker,             \* the broker, behind its mutex
    next_id,            \* SessionIdGen
    ids,                \* NotificationRegistry.session_ids: 0 for none
    token,              \* NotificationRegistry.channels: a token is in it
    pc, session,        \* per slot: where its task is, and the session it handles
    rx_buffer,          \* units read and not yet decoded
    packet,             \* the packet decoded last
    to_notify,          \* sessions_to_notify, what is left of it
    tx_packets,         \* packets to write, what is left of them
    socket,             \* units written by the client and not read
    unsent,             \* the rest of a packet the client has begun
    sent, received,     \* packets the client has begun, and got
    closed, stalled,    \* the client has closed, or does not read
    failed              \* history: a round of processing has failed

registry == <<ids, token>>
task == <<pc, session, rx_buffer, packet, to_notify, tx_packets>>
client == <<socket, unsent, sent, received, closed, stalled>>
vars == <<broker, next_id, registry, task, client, failed>>

NoPacket == [type |-> "none"]
Each(v) == [k \in Slots |-> v]
Go(k, place) == pc' = [pc EXCEPT ![k] = place]
Set(f, k, v) == [f EXCEPT ![k] = v]

Room(k) == RX_BUFFER_SIZE - Len(rx_buffer[k])
Eof(k) == closed[k] /\ socket[k] = <<>>

-----------------------------------------------------------------------------
(* accept_task, up to the call of handle_connection. *)

Accept(k) ==
    /\ pc[k] = "accept" /\ next_id <= MaxAccepted
    /\ next_id' = next_id + 1
    /\ session' = Set(session, k, next_id)
    /\ rx_buffer' = Set(rx_buffer, k, <<>>) /\ tx_packets' = Set(tx_packets, k, <<>>)
    /\ socket' = Set(socket, k, <<>>) /\ unsent' = Set(unsent, k, <<>>)
    /\ sent' = Set(sent, k, 0) /\ received' = Set(received, k, <<>>)
    /\ closed' = Set(closed, k, FALSE) /\ stalled' = Set(stalled, k, FALSE)
    /\ Go(k, "register")
    /\ UNCHANGED <<broker, registry, packet, to_notify, failed>>

Register(k) ==
    /\ pc[k] = "register"
    /\ broker' = RegisterNewSession(broker, session[k])
    /\ Go(k, IF broker'.result = "Ok" THEN "register_slot" ELSE "accept")
    /\ UNCHANGED <<next_id, registry, session, rx_buffer, packet, to_notify, tx_packets,
                   client, failed>>

(* The channel keeps the token the slot's last session may have left. *)
RegisterSession(k) ==
    /\ pc[k] = "register_slot"
    /\ ids' = Set(ids, k, session[k])
    /\ Go(k, "select")
    /\ UNCHANGED <<broker, next_id, token, session, rx_buffer, packet, to_notify,
                   tx_packets, client, failed>>

-----------------------------------------------------------------------------
(* select3, first branch: socket.read and then read_packet, whose own      *)
(* reads are outside of the select3.                                       *)

(* socket.read: some of what has arrived, as far as there is room. *)
ReadSocket(k) ==
    /\ \E n \in 1 .. Room(k) :
         /\ n <= Len(socket[k])
         /\ "split" \in Faults \/ n = Room(k) \/ n = Len(socket[k])
         /\ rx_buffer' = [rx_buffer EXCEPT ![k] = @ \o SubSeq(socket[k], 1, n)]
         /\ socket' = [socket EXCEPT ![k] = SubSeq(@, n + 1, Len(@))]
    /\ Go(k, "read_packet")
    /\ UNCHANGED <<broker, next_id, registry, session, packet, to_notify, tx_packets,
                   unsent, sent, received, closed, stalled, failed>>

SelectRead(k) == pc[k] = "select" /\ ReadSocket(k)

(* The packet at the front of the buffer, which its first unit tells, and  *)
(* what of it is there.                                                    *)
First(k) == rx_buffer[k][1].p
HeadKnown(k) == Len(rx_buffer[k]) >= Layout[First(k).type].head
Complete(k) == Len(rx_buffer[k]) >= Layout[First(k).type].total

(* The two while loops of read_packet; between them parse_remaining_length *)
(* must not fail.                                                          *)
ReadMore(k) ==
    /\ pc[k] = "read_packet"
    /\ Len(rx_buffer[k]) < 2 \/ (HeadKnown(k) /\ ~Complete(k))
    /\ ReadSocket(k)

(* read_packet gives Ok(None), and the loop goes round. *)
ReadNothing(k) ==
    /\ pc[k] = "read_packet"
    /\ Len(rx_buffer[k]) < 2 /\ Eof(k)
    /\ Go(k, "select")
    /\ UNCHANGED <<broker, next_id, registry, session, rx_buffer, packet, to_notify,
                   tx_packets, client, failed>>

(* Mutant: the loop for the rest of the packet does not test for Ok(0). *)
ReadFails_NotOnEof(k) ==
    /\ pc[k] = "read_packet" /\ Len(rx_buffer[k]) >= 2
    /\ ~HeadKnown(k) \/ (Complete(k) /\ First(k).type = "malformed")
    /\ Go(k, "unregister")
    /\ UNCHANGED <<broker, next_id, registry, session, rx_buffer, packet, to_notify,
                   tx_packets, client, failed>>

(* parse_remaining_length runs out of bytes; or the rest of the packet     *)
(* cannot come: the client has closed or, reading into no room, it seems   *)
(* so; or Packet::decode refuses the packet.                               *)
ReadFails(k) ==
    /\ pc[k] = "read_packet" /\ Len(rx_buffer[k]) >= 2
    /\ \/ ~HeadKnown(k)
       \/ ~Complete(k) /\ (Eof(k) \/ Room(k) = 0)
       \/ Complete(k) /\ First(k).type = "malformed"
    /\ Go(k, "unregister")
    /\ UNCHANGED <<broker, next_id, registry, session, rx_buffer, packet, to_notify,
                   tx_packets, client, failed>>

(* Mutant: the bytes after the packet are shifted to the front, but not    *)
(* taken off the end: buffer_len stays.                                    *)
Decoded_LengthKept(k) == rx_buffer[k]

(* What the buffer holds once the packet is taken out. *)
Decoded(k) == SubSeq(rx_buffer[k], Layout[First(k).type].total + 1, Len(rx_buffer[k]))

ReadPacket(k) ==
    /\ pc[k] = "read_packet" /\ Len(rx_buffer[k]) >= 2
    /\ HeadKnown(k) /\ Complete(k) /\ First(k).type # "malformed"
    /\ packet' = Set(packet, k, First(k))
    /\ rx_buffer' = Set(rx_buffer, k, Decoded(k))
    /\ Go(k, "process")
    /\ UNCHANGED <<broker, next_id, registry, session, to_notify, tx_packets, client, failed>>

(* Mutant: the vector of packets is one short. *)
Collect_Short(q) == SubSeq(q, 1, IF Len(q) < TX_PACKETS THEN Len(q) ELSE TX_PACKETS - 1)

(* Packets dequeued into the vector; what it has no room for is dropped. *)
Collect(q) == SubSeq(q, 1, IF Len(q) < TX_PACKETS THEN Len(q) ELSE TX_PACKETS)

(* The section under the lock. An error ends the connection. *)
Process(k) ==
    /\ pc[k] = "process"
    /\ \E b \in {Round(broker, session[k], packet[k])} :
         IF b.result = "Ok"
         THEN /\ to_notify' = Set(to_notify, k, SessionsWithPending(b))
              /\ tx_packets' = Set(tx_packets, k, Collect(b.tx[session[k]]))
              /\ broker' = DequeueAll(b, session[k])
              /\ Go(k, "notify")
              /\ UNCHANGED failed
         ELSE /\ broker' = MarkSessionDisconnected(b, session[k])
              /\ failed' = TRUE
              /\ Go(k, "unregister")
              /\ UNCHANGED <<to_notify, tx_packets>>
    /\ packet' = Set(packet, k, NoPacket)
    /\ UNCHANGED <<next_id, registry, session, rx_buffer, client>>

(* notify_session: try_send, so nobody waits and a full channel is as good.*)
NotifySession(k) ==
    /\ pc[k] = "notify" /\ to_notify[k] # <<>>
    /\ token' = [j \in Slots |-> token[j] \/ ids[j] = Head(to_notify[k])]
    /\ to_notify' = [to_notify EXCEPT ![k] = Tail(@)]
    /\ UNCHANGED <<broker, next_id, ids, pc, session, rx_buffer, packet, tx_packets, client,
                   failed>>

AllNotified(k) ==
    /\ pc[k] = "notify" /\ to_notify[k] = <<>>
    /\ Go(k, "write")
    /\ UNCHANGED <<broker, next_id, registry, session, rx_buffer, packet, to_notify,
                   tx_packets, client, failed>>

WritePacket(k) ==
    /\ pc[k] = "write" /\ tx_packets[k] # <<>> /\ ~stalled[k]
    /\ received' = [received EXCEPT ![k] = Append(@, Head(tx_packets[k]))]
    /\ tx_packets' = [tx_packets EXCEPT ![k] = Tail(@)]
    /\ UNCHANGED <<broker, next_id, registry, pc, session, rx_buffer, packet, to_notify,
                   socket, unsent, sent, closed, stalled, failed>>

(* A write error ends the inner loop only. *)
WriteError(k) ==
    /\ pc[k] = "write" /\ tx_packets[k] # <<>> /\ closed[k]
    /\ tx_packets' = Set(tx_packets, k, <<>>)
    /\ UNCHANGED <<broker, next_id, registry, pc, session, rx_buffer, packet, to_notify,
                   client, failed>>

AllWritten(k) ==
    /\ pc[k] = "write" /\ tx_packets[k] = <<>>
    /\ Go(k, "select")
    /\ UNCHANGED <<broker, next_id, registry, session, rx_buffer, packet, to_notify,
                   tx_packets, client, failed>>

-----------------------------------------------------------------------------
(* Second branch: a notification. *)

ReceiveNotification(k) ==
    /\ pc[k] = "select" /\ token[k]
    /\ token' = Set(token, k, FALSE)
    /\ Go(k, "flush")
    /\ UNCHANGED <<broker, next_id, ids, session, rx_buffer, packet, to_notify, tx_packets,
                   client, failed>>

(* Mutant: "if let" for "while let": one packet per notification. *)
Flush_One(k) ==
    /\ pc[k] = "flush"
    /\ tx_packets' = Set(tx_packets, k, SubSeq(broker.tx[session[k]], 1,
                                               IF broker.tx[session[k]] = <<>> THEN 0 ELSE 1))
    /\ broker' = [broker EXCEPT !.tx[session[k]] = IF @ = <<>> THEN @ ELSE Tail(@)]
    /\ Go(k, "write")
    /\ UNCHANGED <<next_id, registry, session, rx_buffer, packet, to_notify, client, failed>>

Flush(k) ==
    /\ pc[k] = "flush"
    /\ tx_packets' = Set(tx_packets, k, Collect(broker.tx[session[k]]))
    /\ broker' = DequeueAll(broker, session[k])
    /\ Go(k, "write")
    /\ UNCHANGED <<next_id, registry, session, rx_buffer, packet, to_notify, client, failed>>

-----------------------------------------------------------------------------
(* The loop is left at the end of file or by the timer; then the rest of   *)
(* accept_task.                                                            *)

Leave(k) ==
    /\ pc[k] = "select" /\ (Eof(k) \/ Room(k) = 0)
    /\ Go(k, "unregister")
    /\ UNCHANGED <<broker, next_id, registry, session, rx_buffer, packet, to_notify,
                   tx_packets, client, failed>>

Timeout(k) ==
    /\ "timeout" \in Faults
    /\ pc[k] = "select"
    /\ Go(k, "unregister")
    /\ UNCHANGED <<broker, next_id, registry, session, rx_buffer, packet, to_notify,
                   tx_packets, client, failed>>

(* Mutant: the slot keeps the id. *)
UnregisterSession_Kept(k) ==
    /\ pc[k] = "unregister"
    /\ Go(k, "remove_session")
    /\ UNCHANGED <<broker, next_id, registry, session, rx_buffer, packet, to_notify,
                   tx_packets, client, failed>>

UnregisterSession(k) ==
    /\ pc[k] = "unregister"
    /\ ids' = Set(ids, k, 0)
    /\ Go(k, "remove_session")
    /\ UNCHANGED <<broker, next_id, token, session, rx_buffer, packet, to_notify,
                   tx_packets, client, failed>>

(* Mutant: removing the session is left to the cleanup task. *)
RemoveBrokerSession_LeftToCleanup(k) ==
    /\ pc[k] = "remove_session"
    /\ broker' = MarkSessionDisconnected(broker, session[k])
    /\ session' = Set(session, k, 0)
    /\ Go(k, "accept")
    /\ UNCHANGED <<next_id, registry, rx_buffer, packet, to_notify, tx_packets, client, failed>>

RemoveBrokerSession(k) ==
    /\ pc[k] = "remove_session"
    /\ broker' = RemoveSession(broker, session[k])
    /\ session' = Set(session, k, 0)
    /\ Go(k, "accept")
    /\ UNCHANGED <<next_id, registry, rx_buffer, packet, to_notify, tx_packets, client, failed>>

(* cleanup_task; heapless vectors of 4 hold all of MAX_SESSIONS = 4. *)
CleanupScan(expired) ==
    LET gone == expired \cup DisconnectedSessions(broker) IN
    /\ gone # {}
    /\ broker' = RemoveSessions(broker, gone)
    /\ UNCHANGED <<next_id, registry, task, client, failed>>

-----------------------------------------------------------------------------
(* Clients, in whole packets or, with "split", in two parts. *)

Units(p) == [i \in 1 .. Layout[p.type].total |-> [p |-> p, i |-> i]]

ClientPackets(k) ==
    {[type |-> t, qos |-> 0, from |-> session[k], seq |-> sent[k] + 1] :
        t \in ClientKinds[session[k]]}

ClientSends(k) ==
    /\ session[k] # 0 /\ ~closed[k] /\ unsent[k] = <<>> /\ sent[k] < MaxSent[session[k]]
    /\ \E p \in ClientPackets(k) : \E n \in 1 .. Layout[p.type].total :
         /\ "split" \in Faults \/ n = Layout[p.type].total
         /\ socket' = [socket EXCEPT ![k] = @ \o SubSeq(Units(p), 1, n)]
         /\ unsent' = Set(unsent, k, SubSeq(Units(p), n + 1, Layout[p.type].total))
    /\ sent' = [sent EXCEPT ![k] = @ + 1]
    /\ UNCHANGED <<broker, next_id, registry, task, received, closed, stalled, failed>>

ClientContinues(k) ==
    /\ unsent[k] # <<>> /\ session[k] # 0 /\ ~closed[k]
    /\ socket' = [socket EXCEPT ![k] = @ \o unsent[k]]
    /\ unsent' = Set(unsent, k, <<>>)
    /\ UNCHANGED <<broker, next_id, registry, task, sent, received, closed, stalled, failed>>

ClientCloses(k) ==
    /\ "close" \in Faults /\ session[k] # 0 /\ ~closed[k]
    /\ closed' = Set(closed, k, TRUE)
    /\ UNCHANGED <<broker, next_id, registry, task, socket, unsent, sent, received, stalled,
                   failed>>

ClientStalls(k) ==
    /\ "stall" \in Faults /\ session[k] # 0 /\ ~stalled[k]
    /\ stalled' = Set(stalled, k, TRUE)
    /\ UNCHANGED <<broker, next_id, registry, task, socket, unsent, sent, received, closed,
                   failed>>

-----------------------------------------------------------------------------

Init ==
    /\ broker = EmptyBroker(Sessions) /\ next_id = 1
    /\ ids = Each(0) /\ token = Each(FALSE)
    /\ pc = Each("accept") /\ session = Each(0)
    /\ rx_buffer = Each(<<>>) /\ packet = Each(NoPacket)
    /\ to_notify = Each(<<>>) /\ tx_packets = Each(<<>>)
    /\ socket = Each(<<>>) /\ unsent = Each(<<>>)
    /\ sent = Each(0) /\ received = Each(<<>>)
    /\ closed = Each(FALSE) /\ stalled = Each(FALSE)
    /\ failed = FALSE

(* What the task of slot k does by itself, once what it waits for is there.*)
TaskStep(k) ==
    \/ Register(k) \/ RegisterSession(k)
    \/ SelectRead(k) \/ ReadMore(k) \/ ReadNothing(k) \/ ReadFails(k) \/ ReadPacket(k)
    \/ Process(k) \/ NotifySession(k) \/ AllNotified(k)
    \/ WritePacket(k) \/ WriteError(k) \/ AllWritten(k)
    \/ ReceiveNotification(k) \/ Flush(k)
    \/ Leave(k) \/ UnregisterSession(k) \/ RemoveBrokerSession(k)

Next ==
    \/ \E k \in Slots :
         \/ TaskStep(k) \/ Accept(k) \/ Timeout(k)
         \/ ClientSends(k) \/ ClientContinues(k) \/ ClientCloses(k) \/ ClientStalls(k)
    \/ \E expired \in SUBSET Range(broker.sessions) :
         (expired # {} => "expire" \in Faults) /\ CleanupScan(expired)

Spec == Init /\ [][Next]_vars

(* The executor polls a task that can go on, and timers fire. *)
FairSpec ==
    /\ Spec
    /\ \A k \in Slots : WF_vars(TaskStep(k)) /\ WF_vars(Timeout(k))
    /\ WF_vars(CleanupScan({}))

-----------------------------------------------------------------------------
(* Properties. *)

InLoop(k) == pc[k] \in {"select", "read_packet", "process", "notify", "write", "flush"}

(* Every variable has its type; no two slots handle the same session, and  *)
(* a handler's slot carries its session's id.                              *)
TypeOK ==
    /\ next_id \in 1 .. MaxAccepted + 1
    /\ session \in [Slots -> 0 .. MaxAccepted] /\ token \in [Slots -> BOOLEAN]
    /\ \A k, j \in Slots : session[k] = session[j] /\ session[k] # 0 => k = j
    /\ \A k \in Slots :
         /\ InLoop(k) => ids[k] = session[k]
         /\ session[k] = 0 => ids[k] = 0
         /\ Len(rx_buffer[k]) <= RX_BUFFER_SIZE
         /\ Len(tx_packets[k]) <= TX_PACKETS

(* An accept task never finds the broker full: MAX_SESSIONS tasks share    *)
(* MAX_SESSIONS slots of the broker, and each gives its slot back before   *)
(* it accepts again.                                                       *)
RegistrationSucceeds ==
    \A k \in Slots : pc[k] = "register" => Len(broker.sessions) < MAX_SESSIONS

(* No wake-up is lost with channels of one token, try_send, and a slot     *)
(* that passes from session to session: as long as no round has failed, a  *)
(* session with packets to send has a token in its slot's channel, or is   *)
(* still on some task's list, or is about to empty its queue.              *)
WakeUpNotLost ==
    \A k \in Slots :
        ~failed /\ InLoop(k) /\ session[k] \in Range(broker.sessions)
        /\ broker.tx[session[k]] # <<>> =>
            \/ token[k] \/ pc[k] = "flush"
            \/ \E j \in Slots : session[k] \in Range(to_notify[j])

IsFrom(m, s) == m.type = "publish" /\ m.from = s

(* Of the messages of s in q, each is the next one after the one before. *)
Gapless(q, s) ==
    \A i, j \in DOMAIN q :
        /\ i < j /\ IsFrom(q[i], s) /\ IsFrom(q[j], s)
        /\ \A n \in i + 1 .. j - 1 : ~IsFrom(q[n], s)
        => q[j].seq = q[i].seq + 1

(* What has reached the client of slot k, and is under way to it. *)
UnderWay(k) ==
    received[k] \o tx_packets[k] \o (IF session[k] = 0 THEN <<>> ELSE broker.tx[session[k]])

(* A subscriber gets the messages of a publisher without a gap, in order   *)
(* and once, as long as its connection is up and no round has failed: the  *)
(* vector packets are collected in drops none, if it has room for a queue. *)
NoGaps ==
    \A k \in Slots, s \in Sessions :
        ~failed /\ ~closed[k] /\ InLoop(k) => Gapless(UnderWay(k), s)

(* When the task waits in its select3 the buffer has room, so a read of    *)
(* nothing is the end of file: a client that sends faster than one packet  *)
(* per turn is not taken for one that has closed.                          *)
RoomInSelect == \A k \in Slots : pc[k] = "select" => Room(k) > 0

(* A client that closes frees its slot. *)
ClosedFreesSlot == \A k \in Slots : closed[k] ~> pc[k] = "accept"

(* handler.rs: "Incomplete packet, continue reading".  A packet that is    *)
(* well-formed and fits the buffer never ends the connection of a client   *)
(* that is still there.                                                    *)
IncompleteIsContinued ==
    [][\A k \in Slots :
         pc[k] = "read_packet" /\ pc'[k] = "unregister" /\ ~Eof(k) =>
             \/ First(k).type = "malformed"
             \/ Layout[First(k).type].total > RX_BUFFER_SIZE]_vars

(* io.rs: "Read complete MQTT packet from socket".  A complete packet does *)
(* not stay in the buffer.                                                 *)
CompleteIsRead ==
    \A k \in Slots :
        (rx_buffer[k] # <<>> /\ Complete(k)) ~> ~(rx_buffer[k] # <<>> /\ Complete(k))

(* handler.rs: handle_connection is "Managing keep-alive timeout".  The    *)
(* connection of a client that has fallen silent ends.                     *)
SilentClientTimedOut == \A k \in Slots : InLoop(k) ~> ~InLoop(k)
=============================================================================
