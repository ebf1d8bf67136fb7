------------------------- MODULE TokioServerProofs -------------------------
(***************************************************************************)
(* Proofs about the Tokio server, for every number of connections, every   *)
(* capacity and every mix of packets: the types, that no wake-up is lost,  *)
(* that a connection that has ended leaves nothing behind, that one is     *)
(* turned away only when the broker is really full, and that a client gets *)
(* a publisher's messages in order.                                        *)
(***************************************************************************)
EXTENDS TokioServer, BrokerRoundProofs

-----------------------------------------------------------------------------
(* The inductive invariant. *)

(* What clients send. *)
Packets ==
    {[type |-> t] : t \in (UNION {ClientKinds[c] : c \in Connections}) \ {"publish"}}
    \cup [type : {"publish"}, qos : {1}, from : Connections, seq : Nat]

Stages == {"new", "register", "insert", "select", "process", "notify", "waiting", "send",
           "drain", "write", "remove_sender", "remove_session", "done", "failed"}

(* Every variable has its type, a handler in "process" has a packet of its *)
(* client, and a list of sessions to notify is there only while it is gone *)
(* through.                                                                *)
TypeInv ==
    /\ connections \subseteq Connections /\ senders \subseteq Connections
    /\ channel \in [Connections -> 0 .. NOTIFY_CAPACITY]
    /\ pc \in [Connections -> Stages]
    /\ packet \in [Connections -> Replies(Packets) \cup {NoPacket}]
    /\ to_notify \in [Connections -> Seq(Connections)]
    /\ tx_packets \in [Connections -> Seq(Replies(Packets))]
    /\ frames \in [Connections -> Seq(Replies(Packets))]
    /\ socket \in [Connections -> Seq(Packets)]
    /\ sent \in [Connections -> Nat]
    /\ closed \in [Connections -> BOOLEAN] /\ stalled \in [Connections -> BOOLEAN]
    /\ \A c \in Connections :
         /\ Len(frames[c]) <= FRAME_CAPACITY
         /\ pc[c] = "process" => packet[c] \in Packets
         /\ to_notify[c] # <<>> => pc[c] \in {"notify", "waiting"}
         /\ pc[c] = "waiting" => to_notify[c] # <<>>

BrokerInv == Sound(broker, Connections, Packets)

(* What a handler holds, by where it is: its sender from the start until   *)
(* the cleanup, its session and its connection in between; before its loop *)
(* the session is quiet.                                                   *)
HoldsInv ==
    \A c \in Connections :
        /\ c \in Registered => pc[c] \notin {"new", "register", "done", "failed"}
        /\ c \in connections => InLoop(c)
        /\ c \in senders <=> pc[c] \notin {"new", "remove_session", "done"}
        /\ pc[c] \in {"new", "register", "insert"} => Quiet(broker, c)

Inv == TypeInv /\ BrokerInv /\ HoldsInv /\ WakeUpNotLost

-----------------------------------------------------------------------------
(* What clients send is what the broker may have to queue. *)

(* A client's packets are Packets, and a packet may be handed on.          *)
LEMMA ClientPacketsTyped ==
    ASSUME TypeInv, NEW c \in Connections, NEW p \in ClientPackets(c)
    PROVE  p \in Packets
<1>1. CASE p \in {[type |-> t] : t \in ClientKinds[c] \ {"publish"}}
  BY <1>1 DEF Packets
<1>2. CASE p = [type |-> "publish", qos |-> 1, from |-> c, seq |-> sent[c] + 1]
  BY <1>2 DEF Packets, TypeInv
<1> QED BY <1>1, <1>2 DEF ClientPackets

(* What a publisher sends, its subscribers may get.                        *)
LEMMA PacketsAreReplies == Packets \subseteq Replies(Packets)
  BY DEF Replies

-----------------------------------------------------------------------------
(* The section under the broker's lock. *)

(* What a successful round gives the handler: the sessions to notify are   *)
(* all that have something to send (handler.rs, sessions_to_notify).       *)
LEMMA ProcessOk ==
    ASSUME TypeInv, BrokerInv, NEW c \in Connections, pc[c] = "process",
           NEW b, b = Round(broker, c, packet[c])
    PROVE  /\ Sound(b, Connections, Packets)
           /\ b.sessions = broker.sessions
           /\ \A q \in Connections : q # c /\ Quiet(broker, q) => Quiet(b, q)
           /\ b.tx[c] \in Seq(Replies(Packets))
           /\ SessionsToNotify(b, c) \in Seq(Connections)
           /\ Range(SessionsToNotify(b, c)) = {s \in Registered : b.tx[s] # <<>>}
<1>1. packet[c] \in Packets
  BY DEF TypeInv
<1>2. /\ Sound(b, Connections, Packets)
      /\ b.sessions = broker.sessions
      /\ \A q \in Connections : q # c /\ Quiet(broker, q) => Quiet(b, q)
  BY <1>1, RoundSound DEF BrokerInv
<1>3. b.tx[c] \in Seq(Replies(Packets))
  BY <1>2 DEF Sound, Brokers
<1>4. /\ SessionsWithPending(b) \in Seq(Connections)
      /\ Range(SessionsWithPending(b)) = {s \in Range(b.sessions) : b.tx[s] # <<>>}
  BY <1>2, PendingSessions
<1> QED BY <1>2, <1>3, <1>4 DEF SessionsToNotify, Registered

(* The two ends of the section. *)
RoundWorked(c, b) ==
    /\ to_notify' = [to_notify EXCEPT ![c] = SessionsToNotify(b, c)]
    /\ tx_packets' = [tx_packets EXCEPT ![c] = b.tx[c]]
    /\ broker' = DequeueAll(b, c)
    /\ failed' = failed

RoundFailed(c, b) ==
    /\ broker' = MarkSessionDisconnected(b, c)
    /\ failed' = TRUE
    /\ to_notify' = to_notify /\ tx_packets' = tx_packets

(* The round went well, or the session is marked for the cleanup task      *)
(* (handler.rs, the two arms of the match on the result).                  *)
LEMMA ProcessCases ==
    ASSUME NEW c, Process(c), NEW b, b = Round(broker, c, packet[c])
    PROVE  RoundWorked(c, b) \/ RoundFailed(c, b)
<1>1. \E a \in {Round(broker, c, packet[c])} :
         IF a.result = "Ok"
         THEN /\ to_notify' = [to_notify EXCEPT ![c] = SessionsToNotify(a, c)]
              /\ tx_packets' = [tx_packets EXCEPT ![c] = a.tx[c]]
              /\ broker' = DequeueAll(a, c)
              /\ UNCHANGED failed
         ELSE /\ broker' = MarkSessionDisconnected(a, c)
              /\ failed' = TRUE
              /\ UNCHANGED <<to_notify, tx_packets>>
  BY Zenon DEF Process
<1>2. PICK a : a = b /\
         IF a.result = "Ok"
         THEN /\ to_notify' = [to_notify EXCEPT ![c] = SessionsToNotify(a, c)]
              /\ tx_packets' = [tx_packets EXCEPT ![c] = a.tx[c]]
              /\ broker' = DequeueAll(a, c)
              /\ UNCHANGED failed
         ELSE /\ broker' = MarkSessionDisconnected(a, c)
              /\ failed' = TRUE
              /\ UNCHANGED <<to_notify, tx_packets>>
  BY <1>1, Zenon
<1>3. CASE a.result = "Ok"
  BY <1>2, <1>3 DEF RoundWorked
<1>4. CASE a.result # "Ok"
  BY <1>2, <1>4 DEF RoundFailed
<1> QED BY <1>3, <1>4

(* A token is put into a channel that has room for it.                     *)
LEMMA TokenPut ==
    ASSUME channel \in [Connections -> 0 .. NOTIFY_CAPACITY], NEW s \in Connections, PutToken(s)
    PROVE  /\ channel' \in [Connections -> 0 .. NOTIFY_CAPACITY]
           /\ channel'[s] > 0
           /\ \A q \in Connections : channel[q] > 0 => channel'[q] > 0
<1> USE TokioAssumption
<1>1. /\ channel[s] \in 0 .. NOTIFY_CAPACITY /\ channel[s] < NOTIFY_CAPACITY
      /\ channel' = [channel EXCEPT ![s] = channel[s] + 1]
  BY DEF PutToken
<1>2. channel[s] + 1 \in 0 .. NOTIFY_CAPACITY /\ channel[s] + 1 > 0
  BY <1>1
<1> QED BY <1>1, <1>2

-----------------------------------------------------------------------------
(* Types. *)

(* Every step keeps the types: no send goes past a channel's capacity.     *)
LEMMA TypeStep ==
    ASSUME TypeInv, BrokerInv, [Next]_vars
    PROVE  TypeInv'
<1> USE TokioAssumption
<1>1. ASSUME NEW c \in Connections, Accept(c) PROVE TypeInv'
  BY <1>1 DEF Accept, Go, TypeInv, Stages, client
<1>2. ASSUME NEW c \in Connections, Register(c) PROVE TypeInv'
  BY <1>2 DEF Register, Go, TypeInv, Stages, client
<1>3. ASSUME NEW c \in Connections, InsertConnection(c) PROVE TypeInv'
  BY <1>3 DEF InsertConnection, Go, TypeInv, Stages, client
<1>4. ASSUME NEW c \in Connections, ReadPacket(c) PROVE TypeInv'
  <2>1. socket[c] \in Seq(Packets) /\ socket[c] # <<>>
    BY <1>4 DEF ReadPacket, TypeInv
  <2>2. Head(socket[c]) \in Packets /\ Tail(socket[c]) \in Seq(Packets)
    BY <2>1, TailElements
  <2>3. Head(socket[c]) \in Replies(Packets)
    BY <2>2, PacketsAreReplies
  <2> QED BY <1>4, <2>2, <2>3 DEF ReadPacket, Go, TypeInv, Stages, shared
<1>5. ASSUME NEW c \in Connections, Process(c) PROVE TypeInv'
  <2>1. PICK b : b = Round(broker, c, packet[c])
    OBVIOUS
  <2>2. b.tx[c] \in Seq(Replies(Packets)) /\ SessionsToNotify(b, c) \in Seq(Connections)
    BY <1>5, <2>1, ProcessOk DEF Process
  <2>3. /\ to_notify' \in [Connections -> Seq(Connections)]
        /\ tx_packets' \in [Connections -> Seq(Replies(Packets))]
        /\ \A d \in Connections : d # c => to_notify'[d] = to_notify[d]
    <3>1. CASE RoundWorked(c, b)
      BY <2>2, <3>1 DEF TypeInv, RoundWorked
    <3>2. CASE RoundFailed(c, b)
      BY <3>2 DEF TypeInv, RoundFailed
    <3> QED BY <1>5, <2>1, <3>1, <3>2, ProcessCases
  <2>4. /\ pc' = [pc EXCEPT ![c] = "notify"] /\ packet' = [packet EXCEPT ![c] = NoPacket]
        /\ UNCHANGED <<connections, senders, channel, frames, client>>
    BY <1>5 DEF Process, Go
  <2> QED BY <2>3, <2>4 DEF TypeInv, Stages, client
<1>6. ASSUME NEW c \in Connections, NotifySession(c) PROVE TypeInv'
  <2>1. to_notify[c] \in Seq(Connections) /\ to_notify[c] # <<>>
    BY <1>6 DEF NotifySession, TypeInv
  <2>2. Head(to_notify[c]) \in Connections /\ Tail(to_notify[c]) \in Seq(Connections)
    BY <2>1, TailElements
  <2>3. channel' \in [Connections -> 0 .. NOTIFY_CAPACITY]
    <3>1. CASE UNCHANGED channel
      BY <3>1 DEF TypeInv
    <3>2. CASE PutToken(Head(to_notify[c]))
      BY <2>2, <3>2, TokenPut DEF TypeInv
    <3> QED BY <1>6, <3>1, <3>2 DEF NotifySession
  <2> QED BY <1>6, <2>2, <2>3 DEF NotifySession, Notified, TypeInv, Stages, client
<1>7. ASSUME NEW c \in Connections, NotifyWaits(c) PROVE TypeInv'
  BY <1>7 DEF NotifyWaits, Go, TypeInv, Stages, client, shared
<1>8. ASSUME NEW c \in Connections, NotifyContinues(c) PROVE TypeInv'
  <2>1. to_notify[c] \in Seq(Connections) /\ to_notify[c] # <<>>
    BY <1>8 DEF NotifyContinues, TypeInv
  <2>2. Head(to_notify[c]) \in Connections /\ Tail(to_notify[c]) \in Seq(Connections)
    BY <2>1, TailElements
  <2>3. channel' \in [Connections -> 0 .. NOTIFY_CAPACITY]
    <3>1. PutToken(Head(to_notify[c]))
      BY <1>8 DEF NotifyContinues
    <3> QED BY <2>2, <3>1, TokenPut DEF TypeInv
  <2> QED BY <1>8, <2>2, <2>3 DEF NotifyContinues, Notified, Go, TypeInv, Stages, client
<1>9. ASSUME NEW c \in Connections, AllNotified(c) PROVE TypeInv'
  BY <1>9 DEF AllNotified, Go, TypeInv, Stages, client, shared
<1>10. ASSUME NEW c \in Connections, SendFrame(c) PROVE TypeInv'
  <2>1. tx_packets[c] \in Seq(Replies(Packets)) /\ tx_packets[c] # <<>>
    BY <1>10 DEF SendFrame, TypeInv
  <2>2. /\ Head(tx_packets[c]) \in Replies(Packets)
        /\ Tail(tx_packets[c]) \in Seq(Replies(Packets))
    BY <2>1, TailElements
  <2> DEFINE f == Append(frames[c], Head(tx_packets[c]))
  <2>3. frames[c] \in Seq(Replies(Packets)) /\ Len(frames[c]) \in Nat
    BY LenProperties DEF TypeInv
  <2>4. f \in Seq(Replies(Packets)) /\ Len(f) = Len(frames[c]) + 1
    BY <2>2, <2>3, AppendProperties
  <2>5. Len(f) <= FRAME_CAPACITY
    BY <1>10, <2>3, <2>4 DEF SendFrame
  <2>6. frames' = [frames EXCEPT ![c] = f]
    BY <1>10 DEF SendFrame, NextToSend
  <2> HIDE DEF f
  <2> QED BY <1>10, <2>2, <2>4, <2>5, <2>6 DEF SendFrame, NextToSend, TypeInv, client, shared
<1>11. ASSUME NEW c \in Connections, AllSent(c) PROVE TypeInv'
  BY <1>11 DEF AllSent, Go, TypeInv, Stages, client, shared
<1>12. ASSUME NEW c \in Connections, ReceiveNotification(c) PROVE TypeInv'
  <2>1. channel[c] \in 0 .. NOTIFY_CAPACITY /\ channel[c] > 0
    BY <1>12 DEF ReceiveNotification, TypeInv
  <2>2. channel[c] - 1 \in 0 .. NOTIFY_CAPACITY
    BY <2>1
  <2>3. channel' \in [Connections -> 0 .. NOTIFY_CAPACITY]
    BY <1>12, <2>2 DEF ReceiveNotification, TypeInv
  <2> QED BY <1>12, <2>3 DEF ReceiveNotification, Go, TypeInv, Stages, client
<1>13. ASSUME NEW c \in Connections, DrainQueue(c) PROVE TypeInv'
  <2>1. broker.tx[c] \in Seq(Replies(Packets))
    BY DEF BrokerInv, Sound, Brokers
  <2> QED BY <1>13, <2>1 DEF DrainQueue, Go, TypeInv, Stages, client
<1>14. ASSUME NEW c \in Connections, ReceiveFrame(c) PROVE TypeInv'
  <2>1. frames[c] \in Seq(Replies(Packets)) /\ frames[c] # <<>> /\ Len(frames[c]) \in Nat
    BY <1>14, LenProperties DEF ReceiveFrame, TypeInv
  <2>2. /\ Head(frames[c]) \in Replies(Packets) /\ Tail(frames[c]) \in Seq(Replies(Packets))
        /\ Len(Tail(frames[c])) = Len(frames[c]) - 1
    BY <2>1, TailElements
  <2>3. Len(Tail(frames[c])) <= FRAME_CAPACITY
    BY <2>1, <2>2 DEF TypeInv
  <2> QED BY <1>14, <2>2, <2>3 DEF ReceiveFrame, Go, TypeInv, Stages, client, shared
<1>15. ASSUME NEW c \in Connections, WriteDone(c) PROVE TypeInv'
  BY <1>15 DEF WriteDone, Go, TypeInv, Stages, shared
<1>16. ASSUME NEW c \in Connections, Leave(c) PROVE TypeInv'
  BY <1>16 DEF Leave, Go, TypeInv, Stages, client
<1>17. ASSUME NEW c \in Connections, Timeout(c) PROVE TypeInv'
  BY <1>17 DEF Timeout, Go, TypeInv, Stages, client
<1>18. ASSUME NEW c \in Connections, RemoveNotification(c) PROVE TypeInv'
  BY <1>18 DEF RemoveNotification, Go, TypeInv, Stages, client
<1>19. ASSUME NEW c \in Connections, RemoveBrokerSession(c) PROVE TypeInv'
  BY <1>19 DEF RemoveBrokerSession, Go, TypeInv, Stages, client
<1>20. ASSUME NEW e, CleanupScan(e) PROVE TypeInv'
  BY <1>20 DEF CleanupScan, TypeInv, client, handler
<1>21. ASSUME NEW c \in Connections, ClientSends(c) PROVE TypeInv'
  <2>1. PICK p \in ClientPackets(c) : socket' = [socket EXCEPT ![c] = Append(@, p)]
    BY <1>21 DEF ClientSends
  <2>2. p \in Packets
    BY ClientPacketsTyped
  <2>3. Append(socket[c], p) \in Seq(Packets)
    BY <2>2, AppendProperties DEF TypeInv
  <2> QED BY <1>21, <2>1, <2>3 DEF ClientSends, TypeInv, handler, shared
<1>22. ASSUME NEW c \in Connections, ClientCloses(c) \/ ClientStalls(c) PROVE TypeInv'
  BY <1>22 DEF ClientCloses, ClientStalls, TypeInv, handler, shared
<1>23. CASE UNCHANGED vars
  BY <1>23 DEF TypeInv, vars, shared, handler, client
<1> QED BY <1>1, <1>2, <1>3, <1>4, <1>5, <1>6, <1>7, <1>8, <1>9, <1>10, <1>11, <1>12, <1>13,
           <1>14, <1>15, <1>16, <1>17, <1>18, <1>19, <1>20, <1>21, <1>22, <1>23
        DEF Next, HandlerStep

-----------------------------------------------------------------------------
(* The broker. *)

(* Every call of a handler or of the cleanup task keeps the broker sound.  *)
LEMMA BrokerStep ==
    ASSUME TypeInv, BrokerInv, HoldsInv, [Next]_vars
    PROVE  BrokerInv'
<1>1. ASSUME NEW c \in Connections, Register(c) PROVE BrokerInv'
  <2>1. c \notin Range(broker.sessions) /\ broker' = RegisterNewSession(broker, c)
    BY <1>1 DEF Register, HoldsInv, Registered
  <2> QED BY <2>1, RegisterSound DEF BrokerInv
<1>2. ASSUME NEW c \in Connections, Process(c) PROVE BrokerInv'
  <2>1. PICK b : b = Round(broker, c, packet[c])
    OBVIOUS
  <2>2. Sound(b, Connections, Packets)
    BY <1>2, <2>1, ProcessOk DEF Process
  <2>3. CASE RoundWorked(c, b)
    BY <2>2, <2>3, DequeueAllSound DEF BrokerInv, RoundWorked
  <2>4. CASE RoundFailed(c, b)
    BY <2>2, <2>4, MarkSound DEF BrokerInv, RoundFailed
  <2> QED BY <1>2, <2>1, <2>3, <2>4, ProcessCases
<1>3. ASSUME NEW c \in Connections, DrainQueue(c) PROVE BrokerInv'
  BY <1>3, DequeueAllSound DEF BrokerInv, DrainQueue
<1>4. ASSUME NEW c \in Connections, RemoveBrokerSession(c) PROVE BrokerInv'
  BY <1>4, RemoveSound DEF BrokerInv, RemoveBrokerSession
<1>5. ASSUME NEW e, CleanupScan(e) PROVE BrokerInv'
  BY <1>5, RemoveAllSound DEF BrokerInv, CleanupScan
<1>6. CASE UNCHANGED broker
  BY <1>6 DEF BrokerInv
<1>7. UNCHANGED vars => UNCHANGED broker
  BY DEF vars, shared
<1>8. ASSUME NEW c \in Connections
      PROVE  \/ Accept(c) \/ InsertConnection(c) \/ ReadPacket(c) \/ NotifySession(c)
             \/ NotifyWaits(c) \/ NotifyContinues(c) \/ AllNotified(c) \/ SendFrame(c)
             \/ AllSent(c) \/ ReceiveNotification(c) \/ ReceiveFrame(c) \/ WriteDone(c)
             \/ Leave(c) \/ Timeout(c) \/ RemoveNotification(c)
             \/ ClientSends(c) \/ ClientCloses(c) \/ ClientStalls(c)
             => UNCHANGED broker
  BY DEF Accept, InsertConnection, ReadPacket, NotifySession, NotifyWaits, NotifyContinues,
         AllNotified, SendFrame, AllSent, ReceiveNotification, ReceiveFrame, WriteDone, Leave,
         Timeout, RemoveNotification, ClientSends, ClientCloses, ClientStalls, shared
<1> QED BY <1>1, <1>2, <1>3, <1>4, <1>5, <1>6, <1>7, <1>8 DEF Next, HandlerStep

-----------------------------------------------------------------------------
(* What handlers hold. *)

(* Every step keeps what a handler holds in line with where it is.         *)
LEMMA HoldsStep ==
    ASSUME TypeInv, BrokerInv, HoldsInv, [Next]_vars
    PROVE  HoldsInv'
<1>0. pc \in [Connections -> Stages]
  BY DEF TypeInv
<1>1. ASSUME NEW c \in Connections, Accept(c) PROVE HoldsInv'
  BY <1>0, <1>1 DEF Accept, Go, HoldsInv, InLoop, Registered
<1>2. ASSUME NEW c \in Connections, Register(c) PROVE HoldsInv'
  <2>1. c \notin Range(broker.sessions) /\ broker' = RegisterNewSession(broker, c)
    BY <1>2 DEF Register, HoldsInv, Registered
  <2> DEFINE r == broker'
  <2>2. /\ r.rx = broker.rx /\ r.tx = broker.tx /\ r.subscribers = broker.subscribers
        /\ r.result = "Ok" => Range(r.sessions) = Range(broker.sessions) \cup {c}
        /\ r.result # "Ok" => r.sessions = broker.sessions
    BY <2>1, RegisterSound DEF BrokerInv
  <2>3. \A q \in Connections : Quiet(broker, q) => Quiet(broker', q)
    BY <2>2 DEF Quiet
  <2>4. CASE broker'.result = "Ok"
    <3>1. pc' = [pc EXCEPT ![c] = "insert"] /\ Registered' = Registered \cup {c}
      BY <1>2, <2>2, <2>4 DEF Register, Go, Registered
    <3> QED BY <1>0, <1>2, <2>3, <3>1 DEF Register, HoldsInv, InLoop
  <2>5. CASE broker'.result # "Ok"
    <3>1. pc' = [pc EXCEPT ![c] = "failed"] /\ Registered' = Registered
      BY <1>2, <2>2, <2>5 DEF Register, Go, Registered
    <3>2. c \notin Registered
      BY <2>1 DEF Registered
    <3> QED BY <1>0, <1>2, <2>3, <3>1, <3>2 DEF Register, HoldsInv, InLoop
  <2> QED BY <2>4, <2>5
<1>3. ASSUME NEW c \in Connections, InsertConnection(c) PROVE HoldsInv'
  BY <1>0, <1>3 DEF InsertConnection, Go, HoldsInv, InLoop, Registered
<1>4. ASSUME NEW c \in Connections, Process(c) PROVE HoldsInv'
  <2>1. PICK b : b = Round(broker, c, packet[c])
    OBVIOUS
  <2>2. /\ Sound(b, Connections, Packets) /\ b.sessions = broker.sessions
        /\ \A q \in Connections : q # c /\ Quiet(broker, q) => Quiet(b, q)
    BY <1>4, <2>1, ProcessOk DEF Process
  <2>3. broker'.sessions = b.sessions /\ KeepsQuiet(b, broker', Connections)
    <3>1. CASE RoundWorked(c, b)
      BY <2>2, <3>1, DequeueAllSound DEF RoundWorked
    <3>2. CASE RoundFailed(c, b)
      BY <2>2, <3>2, MarkSound DEF RoundFailed
    <3> QED BY <1>4, <2>1, <3>1, <3>2, ProcessCases
  <2>4. /\ Registered' = Registered
        /\ \A q \in Connections : q # c /\ Quiet(broker, q) => Quiet(broker', q)
    BY <2>2, <2>3 DEF Registered, KeepsQuiet
  <2>5. /\ pc' = [pc EXCEPT ![c] = "notify"] /\ pc[c] = "process"
        /\ UNCHANGED <<connections, senders>>
    BY <1>4 DEF Process, Go
  <2> QED BY <1>0, <2>4, <2>5 DEF HoldsInv, InLoop
<1>5. ASSUME NEW c \in Connections, DrainQueue(c) PROVE HoldsInv'
  <2>1. broker'.sessions = broker.sessions /\ KeepsQuiet(broker, broker', Connections)
    BY <1>5, DequeueAllSound DEF BrokerInv, DrainQueue
  <2>2. Registered' = Registered
    BY <2>1 DEF Registered
  <2> QED BY <1>0, <1>5, <2>1, <2>2 DEF DrainQueue, Go, HoldsInv, InLoop, KeepsQuiet
<1>6. ASSUME NEW c \in Connections, RemoveBrokerSession(c) PROVE HoldsInv'
  <2>1. /\ Range(broker'.sessions) = Range(broker.sessions) \ {c}
        /\ KeepsQuiet(broker, broker', Connections)
    BY <1>6, RemoveSound DEF BrokerInv, RemoveBrokerSession
  <2>2. Registered' = Registered \ {c}
    BY <2>1 DEF Registered
  <2> QED BY <1>0, <1>6, <2>1, <2>2 DEF RemoveBrokerSession, Go, HoldsInv, InLoop, KeepsQuiet
<1>7. ASSUME NEW e, CleanupScan(e) PROVE HoldsInv'
  <2>1. PICK gone : broker' = RemoveSessions(broker, gone) /\ connections' = connections \ gone
    BY <1>7 DEF CleanupScan
  <2>2. /\ Range(broker'.sessions) = Range(broker.sessions) \ gone
        /\ KeepsQuiet(broker, broker', Connections)
    BY <2>1, RemoveAllSound DEF BrokerInv
  <2>3. Registered' = Registered \ gone
    BY <2>2 DEF Registered
  <2> QED BY <1>7, <2>1, <2>2, <2>3 DEF CleanupScan, handler, HoldsInv, InLoop, KeepsQuiet
<1>8. ASSUME NEW c \in Connections, Leave(c) \/ Timeout(c) \/ RemoveNotification(c)
      PROVE  HoldsInv'
  BY <1>0, <1>8 DEF Leave, Timeout, RemoveNotification, Go, HoldsInv, InLoop, Registered
<1>9. ASSUME NEW c \in Connections,
             \/ ReadPacket(c) \/ NotifySession(c) \/ NotifyWaits(c) \/ NotifyContinues(c)
             \/ AllNotified(c) \/ SendFrame(c) \/ AllSent(c) \/ ReceiveNotification(c)
             \/ ReceiveFrame(c) \/ WriteDone(c)
      PROVE  HoldsInv'
  <2>1. UNCHANGED <<broker, connections, senders>>
    BY <1>9 DEF ReadPacket, NotifySession, NotifyWaits, NotifyContinues, AllNotified, SendFrame,
           AllSent, ReceiveNotification, ReceiveFrame, WriteDone, shared
  <2>2. /\ InLoop(c) /\ InLoop(c)' /\ \A d \in Connections : d # c => pc'[d] = pc[d]
    BY <1>0, <1>9 DEF ReadPacket, NotifySession, NotifyWaits, NotifyContinues, AllNotified,
           SendFrame, AllSent, ReceiveNotification, ReceiveFrame, WriteDone, Go, InLoop, handler
  <2> QED BY <2>1, <2>2 DEF HoldsInv, InLoop, Registered
<1>10. CASE UNCHANGED <<broker, connections, senders, pc>>
  BY <1>10 DEF HoldsInv, InLoop, Registered
<1>11. ASSUME NEW c \in Connections, ClientSends(c) \/ ClientCloses(c) \/ ClientStalls(c)
       PROVE  HoldsInv'
  BY <1>10, <1>11 DEF ClientSends, ClientCloses, ClientStalls, shared, handler
<1>12. CASE UNCHANGED vars
  BY <1>10, <1>12 DEF vars, shared, handler
<1> QED BY <1>1, <1>2, <1>3, <1>4, <1>5, <1>6, <1>7, <1>8, <1>9, <1>11, <1>12
        DEF Next, HandlerStep

-----------------------------------------------------------------------------
(* Wake-ups. *)

(* A wake-up for s is on its way. *)
Woken(s) ==
    \/ channel[s] > 0
    \/ pc[s] = "drain"
    \/ \E h \in Connections : s \in Range(to_notify[h])

(* Taking the first session off a list leaves the others on it.            *)
LEMMA OthersStayListed ==
    ASSUME TypeInv, NEW c \in Connections, to_notify[c] # <<>>, Notified(c)
    PROVE  \A h \in Connections : \A s \in Range(to_notify[h]) :
             s # Head(to_notify[c]) => s \in Range(to_notify'[h])
<1> SUFFICES ASSUME NEW h \in Connections, NEW s \in Range(to_notify[h]), s # Head(to_notify[c])
             PROVE  s \in Range(to_notify'[h])
  OBVIOUS
<1>1. to_notify \in [Connections -> Seq(Connections)]
  BY DEF TypeInv
<1>2. CASE h = c
  <2>1. to_notify[c] \in Seq(Connections) /\ s \in Range(to_notify[c])
    BY <1>1, <1>2
  <2>2. s \in Range(Tail(to_notify[c]))
    BY <2>1, HeadOrTail
  <2>3. to_notify'[h] = Tail(to_notify[c])
    BY <1>1, <1>2 DEF Notified
  <2> QED BY <2>2, <2>3
<1>3. CASE h # c
  BY <1>1, <1>3 DEF Notified
<1> QED BY <1>2, <1>3

(* Every step keeps a wake-up on its way to whoever has something to send. *)
LEMMA WakeStep ==
    ASSUME TypeInv, BrokerInv, HoldsInv, WakeUpNotLost, BrokerInv', [Next]_vars
    PROVE  WakeUpNotLost'
<1>0. /\ pc \in [Connections -> Stages]
      /\ channel \in [Connections -> 0 .. NOTIFY_CAPACITY]
      /\ to_notify \in [Connections -> Seq(Connections)]
  BY DEF TypeInv
<1> SUFFICES ASSUME NEW s \in Connections,
                    ~failed', s \in Registered', InLoop(s)', broker'.tx[s] # <<>>
             PROVE  Woken(s)'
  <2>1. Registered' \subseteq Connections
    BY DEF BrokerInv, Sound, Brokers, Registered, Range
  <2> QED BY <2>1 DEF WakeUpNotLost, Woken
<1>w. ~failed /\ s \in Registered /\ InLoop(s) /\ broker.tx[s] # <<>> => Woken(s)
  BY DEF WakeUpNotLost, Woken
<1>1. ASSUME NEW c \in Connections, Register(c) PROVE Woken(s)'
  <2>1. c \notin Range(broker.sessions) /\ broker' = RegisterNewSession(broker, c)
    BY <1>1 DEF Register, HoldsInv, Registered
  <2> DEFINE r == broker'
  <2>2. /\ r.tx = broker.tx
        /\ r.result = "Ok" => Range(r.sessions) = Range(broker.sessions) \cup {c}
        /\ r.result # "Ok" => r.sessions = broker.sessions
    BY <2>1, RegisterSound DEF BrokerInv
  <2>3. s # c /\ pc'[s] = pc[s]
    BY <1>0, <1>1 DEF Register, Go, InLoop
  <2>4. s \in Registered
    BY <2>2, <2>3 DEF Registered
  <2> QED BY <1>1, <1>w, <2>2, <2>3, <2>4 DEF Register, Woken, InLoop
<1>2. ASSUME NEW c \in Connections, InsertConnection(c) PROVE Woken(s)'
  <2>1. s # c
    BY <1>2 DEF InsertConnection, HoldsInv, Quiet
  <2> QED BY <1>0, <1>2, <1>w, <2>1 DEF InsertConnection, Go, Woken, InLoop, Registered
<1>3. ASSUME NEW c \in Connections, Process(c) PROVE Woken(s)'
  <2>1. PICK b : b = Round(broker, c, packet[c])
    OBVIOUS
  <2>2. /\ Sound(b, Connections, Packets) /\ b.sessions = broker.sessions
        /\ Range(SessionsToNotify(b, c)) = {q \in Registered : b.tx[q] # <<>>}
    <3>1. pc[c] = "process"
      BY <1>3 DEF Process
    <3> QED BY <2>1, <3>1, ProcessOk
  <2>3. CASE RoundWorked(c, b)
    <3>1. /\ broker'.sessions = b.sessions /\ broker'.tx[c] = <<>>
          /\ \A q \in Connections : q # c => broker'.tx[q] = b.tx[q]
      BY <2>2, <2>3, DequeueAllSound DEF RoundWorked
    <3>2. s # c /\ b.tx[s] # <<>> /\ s \in Registered
      BY <2>2, <3>1 DEF Registered
    <3>3. to_notify'[c] = SessionsToNotify(b, c)
      BY <1>0, <2>3 DEF RoundWorked
    <3> QED BY <2>2, <3>2, <3>3 DEF Woken
  <2>4. CASE RoundFailed(c, b)
    BY <2>4 DEF RoundFailed
  <2> QED BY <1>3, <2>1, <2>3, <2>4, ProcessCases
<1>4. ASSUME NEW c \in Connections, NotifySession(c) PROVE Woken(s)'
  <2>1. to_notify[c] \in Seq(Connections) /\ to_notify[c] # <<>> /\ Notified(c)
    BY <1>0, <1>4 DEF NotifySession
  <2>2. Head(to_notify[c]) \in Connections
    BY <2>1, TailElements
  <2>3. UNCHANGED <<broker, pc, senders, failed>>
    BY <1>4 DEF NotifySession
  <2>4. Woken(s) /\ s \in senders /\ ~Gone(s)
    BY <1>w, <2>3 DEF InLoop, Registered, HoldsInv, Gone
  <2>5. \A h \in Connections : \A q \in Range(to_notify[h]) :
             q # Head(to_notify[c]) => q \in Range(to_notify'[h])
    BY <2>1, OthersStayListed
  <2>6. CASE PutToken(Head(to_notify[c]))
    <3>1. channel'[Head(to_notify[c])] > 0 /\ \A q \in Connections : channel[q] > 0 => channel'[q] > 0
      BY <1>0, <2>2, <2>6, TokenPut
    <3> QED BY <2>3, <2>4, <2>5, <3>1 DEF Woken
  <2>7. CASE UNCHANGED channel /\ s # Head(to_notify[c])
    BY <2>3, <2>4, <2>5, <2>7 DEF Woken
  <2> QED BY <1>4, <2>4, <2>6, <2>7 DEF NotifySession
<1>5. ASSUME NEW c \in Connections, NotifyContinues(c) PROVE Woken(s)'
  <2>1. to_notify[c] \in Seq(Connections) /\ to_notify[c] # <<>> /\ Notified(c)
    BY <1>0, <1>5 DEF NotifyContinues, TypeInv
  <2>2. Head(to_notify[c]) \in Connections /\ PutToken(Head(to_notify[c]))
    BY <1>5, <2>1, TailElements DEF NotifyContinues
  <2>3. /\ UNCHANGED <<broker, senders, failed>>
        /\ InLoop(s) /\ (pc[s] = "drain" => pc'[s] = "drain")
    BY <1>0, <1>5 DEF NotifyContinues, Go, InLoop
  <2>4. Woken(s)
    BY <1>w, <2>3 DEF Registered
  <2>5. \A h \in Connections : \A q \in Range(to_notify[h]) :
             q # Head(to_notify[c]) => q \in Range(to_notify'[h])
    BY <2>1, OthersStayListed
  <2>6. channel'[Head(to_notify[c])] > 0 /\ \A q \in Connections : channel[q] > 0 => channel'[q] > 0
    BY <1>0, <2>2, TokenPut
  <2> QED BY <2>3, <2>4, <2>5, <2>6 DEF Woken
<1>6. ASSUME NEW c \in Connections, ReceiveNotification(c) PROVE Woken(s)'
  BY <1>0, <1>6, <1>w DEF ReceiveNotification, Go, Woken, InLoop, Registered
<1>7. ASSUME NEW c \in Connections, DrainQueue(c) PROVE Woken(s)'
  <2>1. /\ broker'.sessions = broker.sessions /\ broker'.tx[c] = <<>>
        /\ \A q \in Connections : q # c => broker'.tx[q] = broker.tx[q]
    <3>1. PICK b, r : b = broker /\ r = broker'
      OBVIOUS
    <3>2. Sound(b, Connections, Packets) /\ r = DequeueAll(b, c)
      BY <1>7, <3>1 DEF BrokerInv, DrainQueue
    <3>3. /\ r.sessions = b.sessions /\ r.tx[c] = <<>>
          /\ \A q \in Connections : q # c => r.tx[q] = b.tx[q]
      BY <3>2, DequeueAllSound
    <3> QED BY <3>1, <3>3, Zenon
  <2>2. s # c /\ broker.tx[s] # <<>> /\ s \in Registered
    BY <2>1 DEF Registered
  <2> QED BY <1>0, <1>7, <1>w, <2>2 DEF DrainQueue, Go, Woken, InLoop
<1>8. ASSUME NEW c \in Connections, RemoveBrokerSession(c) PROVE Woken(s)'
  <2>1. /\ Range(broker'.sessions) = Range(broker.sessions) \ {c}
        /\ \A q \in Connections : q # c => broker'.tx[q] = broker.tx[q]
    <3>1. Sound(broker, Connections, Packets) /\ broker' = RemoveSession(broker, c)
      BY <1>8 DEF BrokerInv, RemoveBrokerSession
    <3>2. PICK b, r : b = broker /\ r = broker'
      OBVIOUS
    <3>3. Sound(b, Connections, Packets) /\ r = RemoveSession(b, c)
      BY <3>1, <3>2
    <3>4. Range(r.sessions) = Range(b.sessions) \ {c}
      BY <3>3, RemoveSound
    <3>5. ASSUME NEW q \in Connections, q # c PROVE r.tx[q] = b.tx[q]
      BY <3>3, <3>5, RemoveSound
    <3> QED BY <3>2, <3>4, <3>5
  <2>2. s # c /\ broker.tx[s] # <<>> /\ s \in Registered
    BY <2>1 DEF Registered
  <2> QED BY <1>0, <1>8, <1>w, <2>2 DEF RemoveBrokerSession, Go, Woken, InLoop
<1>9. ASSUME NEW e, CleanupScan(e) PROVE Woken(s)'
  <2>1. PICK gone : broker' = RemoveSessions(broker, gone)
    BY <1>9 DEF CleanupScan
  <2>2. /\ Range(broker'.sessions) = Range(broker.sessions) \ gone
        /\ \A q \in Connections : q \notin gone => broker'.tx[q] = broker.tx[q]
    BY <2>1, RemoveAllSound DEF BrokerInv
  <2>3. broker.tx[s] # <<>> /\ s \in Registered
    BY <2>2 DEF Registered
  <2> QED BY <1>9, <1>w, <2>3 DEF CleanupScan, handler, Woken, InLoop
<1>10. CASE /\ UNCHANGED <<broker, channel, to_notify, failed>>
            /\ \A c \in Connections :
                 (InLoop(c)' => InLoop(c)) /\ (pc[c] = "drain" => pc'[c] = "drain")
  BY <1>10, <1>w DEF Woken, Registered
<1>11. ASSUME NEW c \in Connections,
              \/ Accept(c) \/ ReadPacket(c) \/ NotifyWaits(c) \/ AllNotified(c)
              \/ SendFrame(c) \/ AllSent(c) \/ ReceiveFrame(c) \/ WriteDone(c)
              \/ Leave(c) \/ Timeout(c) \/ RemoveNotification(c)
              \/ ClientSends(c) \/ ClientCloses(c) \/ ClientStalls(c)
       PROVE  Woken(s)'
  <2>1. UNCHANGED <<broker, channel, to_notify, failed>>
    BY <1>11 DEF Accept, ReadPacket, NotifyWaits, AllNotified, SendFrame, AllSent, ReceiveFrame,
           WriteDone, Leave, Timeout, RemoveNotification, ClientSends, ClientCloses,
           ClientStalls, shared, handler
  <2>2. \A d \in Connections :
           (InLoop(d)' => InLoop(d)) /\ (pc[d] = "drain" => pc'[d] = "drain")
    BY <1>0, <1>11 DEF Accept, ReadPacket, NotifyWaits, AllNotified, SendFrame, AllSent,
           ReceiveFrame, WriteDone, Leave, Timeout, RemoveNotification, ClientSends,
           ClientCloses, ClientStalls, shared, handler, Go, InLoop
  <2> QED BY <1>10, <2>1, <2>2
<1>12. CASE UNCHANGED vars
  BY <1>w, <1>12 DEF vars, shared, handler, Woken, InLoop, Registered
<1> QED BY <1>1, <1>2, <1>3, <1>4, <1>5, <1>6, <1>7, <1>8, <1>9, <1>11, <1>12
        DEF Next, HandlerStep

-----------------------------------------------------------------------------
(* The invariant, and what follows from it. *)

(* A server that has just started: no connection, nothing queued.          *)
LEMMA InitInv == Init => Inv
<1> SUFFICES ASSUME Init PROVE Inv
  OBVIOUS
<1> USE TokioAssumption
<1>1. /\ Sound(broker, Connections, Packets) /\ broker.sessions = <<>>
      /\ \A q \in Connections : Quiet(broker, q)
  BY EmptyBrokerSound DEF Init
<1>2. Registered = {}
  BY <1>1 DEF Registered, Range
<1>3. TypeInv
  <2>1. <<>> \in Seq(Connections) /\ <<>> \in Seq(Packets) /\ <<>> \in Seq(Replies(Packets))
        /\ Len(<<>>) = 0 /\ 0 \in 0 .. NOTIFY_CAPACITY /\ 0 <= FRAME_CAPACITY
    OBVIOUS
  <2> QED BY <2>1 DEF Init, Each, TypeInv, Stages
<1>4. HoldsInv
  BY <1>1, <1>2 DEF Init, Each, HoldsInv
<1>5. WakeUpNotLost
  BY <1>2 DEF WakeUpNotLost
<1> QED BY <1>1, <1>3, <1>4, <1>5 DEF Inv, BrokerInv

(* Inv is inductive: no step of a handler, a client or the cleanup task    *)
(* breaks it.                                                              *)
LEMMA StepInv == Inv /\ [Next]_vars => Inv'
<1> SUFFICES ASSUME Inv, [Next]_vars PROVE Inv'
  OBVIOUS
<1>1. TypeInv /\ BrokerInv /\ HoldsInv /\ WakeUpNotLost
  BY DEF Inv
<1>2. TypeInv'
  BY <1>1, TypeStep
<1>3. BrokerInv'
  BY <1>1, BrokerStep
<1>4. HoldsInv'
  BY <1>1, HoldsStep
<1>5. WakeUpNotLost'
  BY <1>1, <1>3, WakeStep
<1> QED BY <1>2, <1>3, <1>4, <1>5 DEF Inv

(* All that the server does is within Inv.                                 *)
LEMMA AlwaysInv == Spec => []Inv
  BY InitInv, StepInv, PTL DEF Spec

(* For any capacities and any connections: no notification channel, frame  *)
(* channel or queue of the broker ever holds more than its capacity, and a *)
(* handler has sessions to notify only where it notifies them (handler.rs).*)
THEOREM TokioTypeCorrect == Spec => []TypeOK
<1>1. Inv => TypeOK
  <2> SUFFICES ASSUME Inv PROVE TypeOK
    OBVIOUS
  <2>1. TypeInv /\ BrokerInv
    BY DEF Inv
  <2>2. Registered \subseteq Connections
    BY <2>1 DEF BrokerInv, Sound, Brokers, Registered, Range
  <2>3. \A c \in Connections : Len(broker.tx[c]) <= QUEUE_SIZE /\ Len(broker.rx[c]) <= QUEUE_SIZE
    BY <2>1 DEF BrokerInv, Sound, Consistent
  <2> QED BY <2>1, <2>2, <2>3 DEF TypeOK, TypeInv, Stages
<1> QED BY <1>1, AlwaysInv, PTL

(* For any capacities and any connections: between the release of the      *)
(* broker's lock and the receiver's next select! no wake-up is lost, a     *)
(* full notification channel, a session that ends and the cleanup task     *)
(* included (handler.rs, state.rs notify_session).                         *)
THEOREM WakeUpsAreKept == Spec => []WakeUpNotLost
<1>1. Inv => WakeUpNotLost
  BY DEF Inv
<1> QED BY <1>1, AlwaysInv, PTL

(* For any connections: one that has ended holds no session, subscriber    *)
(* entry, connection or sender, however it ended and whatever the cleanup  *)
(* task removed before (handler.rs, after the loop).                       *)
THEOREM EndedIsCleanedUp == Spec => []CleanedUp
<1>1. Inv => CleanedUp
  <2> SUFFICES ASSUME Inv, NEW c \in Connections
               PROVE  /\ Gone(c) => c \notin Registered \cup connections \cup Range(broker.subscribers)
                      /\ pc[c] = "done" => c \notin senders
    BY DEF CleanedUp
  <2>1. BrokerInv /\ HoldsInv
    BY DEF Inv
  <2>2. Range(broker.subscribers) \subseteq Registered
    BY <2>1 DEF BrokerInv, Sound, Consistent, Registered
  <2> QED BY <2>1, <2>2 DEF HoldsInv, InLoop, Gone
<1> QED BY <1>1, AlwaysInv, PTL

(* Only its own failed registration turns a connection away (handler.rs,   *)
(* the early return of handle_connection).                                 *)
LEMMA OnlyRegisterFails ==
    ASSUME TypeInv, Next, NEW c \in Connections, pc[c] = "register", pc'[c] = "failed"
    PROVE  Register(c)
<1>0. pc \in [Connections -> Stages]
  BY DEF TypeInv
<1>1. CASE pc' = pc
  BY <1>1
<1>2. ASSUME NEW d \in Connections, NEW place, Go(d, place), pc[d] # "register"
      PROVE  FALSE
  <2>1. c # d /\ pc'[c] = pc[c]
    BY <1>0, <1>2 DEF Go
  <2> QED BY <2>1
<1>3. ASSUME NEW d \in Connections, Register(d) PROVE d = c
  BY <1>0, <1>3 DEF Register, Go
<1>4. ASSUME NEW d \in Connections,
             \/ Accept(d) \/ InsertConnection(d) \/ ReadPacket(d) \/ Process(d)
             \/ NotifyWaits(d) \/ NotifyContinues(d) \/ AllNotified(d) \/ AllSent(d)
             \/ ReceiveNotification(d) \/ DrainQueue(d) \/ ReceiveFrame(d) \/ WriteDone(d)
             \/ Leave(d) \/ Timeout(d) \/ RemoveNotification(d) \/ RemoveBrokerSession(d)
      PROVE  FALSE
  <2>1. pc[d] # "register" /\ \E place : Go(d, place)
    BY <1>4 DEF Accept, InsertConnection, ReadPacket, Process, NotifyWaits, NotifyContinues,
           AllNotified, AllSent, ReceiveNotification, DrainQueue, ReceiveFrame, WriteDone,
           Leave, Timeout, RemoveNotification, RemoveBrokerSession
  <2> QED BY <1>2, <2>1
<1>5. ASSUME NEW d \in Connections,
             NotifySession(d) \/ SendFrame(d) \/ ClientSends(d) \/ ClientCloses(d)
             \/ ClientStalls(d)
      PROVE  FALSE
  BY <1>1, <1>5 DEF NotifySession, SendFrame, ClientSends, ClientCloses, ClientStalls, handler
<1>6. ASSUME NEW e, CleanupScan(e) PROVE FALSE
  BY <1>1, <1>6 DEF CleanupScan, handler
<1> QED BY <1>3, <1>4, <1>5, <1>6 DEF Next, HandlerStep

(* For any limit and any connections: a connection is turned away only     *)
(* while MAX_SESSIONS others are handled, since whatever ends a connection *)
(* gives its slot of the broker back (handler.rs, broker.rs                *)
(* register_new_session).                                                  *)
THEOREM TurnedAwayWhenFull == Spec => TurnedAwayOnlyWhenFull
<1> USE RoundAssumption, TokioAssumption
<1> DEFINE Others(c) == {h \in Connections \ {c} : ~Gone(h) /\ pc[h] # "new"}
           A == \A c \in Connections : pc[c] = "register" /\ pc'[c] = "failed" =>
                  Cardinality(Others(c)) >= MAX_SESSIONS
<1>1. ASSUME Inv, Next PROVE A
  <2> SUFFICES ASSUME NEW c \in Connections, pc[c] = "register", pc'[c] = "failed"
               PROVE  Cardinality(Others(c)) >= MAX_SESSIONS
    OBVIOUS
  <2>1. TypeInv /\ BrokerInv /\ HoldsInv
    BY <1>1 DEF Inv
  <2>2. Register(c)
    BY <1>1, <2>1, OnlyRegisterFails
  <2>3. c \notin Range(broker.sessions) /\ broker' = RegisterNewSession(broker, c)
    BY <2>1, <2>2 DEF Register, HoldsInv, Registered
  <2>4. broker'.result # "Ok"
    BY <2>1, <2>2 DEF Register, Go, TypeInv
  <2>5. broker.sessions \in Seq(Connections) /\ IsInjective(broker.sessions)
    BY <2>1 DEF BrokerInv, Sound, Brokers, Consistent
  <2>6. Len(broker.sessions) >= MAX_SESSIONS
    <3>1. ~(Len(broker.sessions) < MAX_SESSIONS)
      BY <2>1, <2>3, <2>4, RegisterSound DEF BrokerInv
    <3> QED BY <2>5, <3>1, LenProperties
  <2>7. Cardinality(Range(broker.sessions)) = Len(broker.sessions)
    BY <2>5, InjectiveLength
  <2>8. Range(broker.sessions) \subseteq Others(c)
    <3> SUFFICES ASSUME NEW h \in Range(broker.sessions) PROVE h \in Others(c)
      OBVIOUS
    <3>1. h \in Connections /\ h \in Registered
      BY <2>5 DEF Range, Registered
    <3> QED BY <2>1, <2>3, <3>1 DEF HoldsInv, Gone
  <2>9. IsFiniteSet(Others(c))
    BY FS_Subset
  <2> HIDE DEF Others
  <2>10. Cardinality(Range(broker.sessions)) <= Cardinality(Others(c))
    BY <2>8, <2>9, FS_Subset
  <2>11. Cardinality(Others(c)) \in Nat /\ Len(broker.sessions) \in Nat
    BY <2>5, <2>9, FS_CardinalityType, LenProperties
  <2> QED BY <2>6, <2>7, <2>10, <2>11
<1>2. Inv /\ [Next]_vars => [A]_vars
  BY <1>1
<1>3. [][A]_vars => TurnedAwayOnlyWhenFull
  BY DEF TurnedAwayOnlyWhenFull
<1> HIDE DEF A
<1> QED BY <1>2, <1>3, AlwaysInv, PTL DEF Spec

-----------------------------------------------------------------------------
(* The order of a publisher's messages. *)

(* The next message of publisher c. *)
Upcoming(c) == [type |-> "publish", qos |-> 1, from |-> c, seq |-> sent[c] + 1]

(* What is under way from client c and will be handled in this order, its  *)
(* next message included.                                                  *)
Reading(c) == IF pc[c] = "process" THEN <<packet[c]>> ELSE <<>>
Arriving(c) == broker.rx[c] \o (Reading(c) \o (socket[c] \o <<Upcoming(c)>>))

(* A handler has packets to send only between taking them off the broker's *)
(* queue and handing the last of them to the frame channel.                *)
PlaceInv ==
    /\ received \in [Connections -> Seq(Replies(Packets))]
    /\ \A c \in Connections :
         /\ pc[c] = "write" => packet[c] \in Replies(Packets)
         /\ tx_packets[c] # <<>> => pc[c] \in {"notify", "waiting", "send"}

(* What is under way to a client is in order, what is under way from one   *)
(* is in order and its own, and is newer than what is under way to any.    *)
OrderInv ==
    \A c \in Connections :
        /\ Increasing(Pipeline(c)) /\ Increasing(Arriving(c))
        /\ \A m \in Range(Arriving(c)) : m.type = "publish" => m.from = c
        /\ \A q \in Connections : Before(Range(Pipeline(c)), Range(Arriving(q)))

(* Packets to send are taken and sent at their places (handler.rs).        *)
LEMMA PlaceStep ==
    ASSUME TypeInv, BrokerInv, PlaceInv, [Next]_vars
    PROVE  PlaceInv'
<1>0. pc \in [Connections -> Stages] /\ packet \in [Connections -> Replies(Packets) \cup {NoPacket}]
      /\ tx_packets \in [Connections -> Seq(Replies(Packets))]
      /\ frames \in [Connections -> Seq(Replies(Packets))]
  BY DEF TypeInv
<1>1. ASSUME NEW c \in Connections, WriteDone(c) PROVE PlaceInv'
  <2>1. Append(received[c], packet[c]) \in Seq(Replies(Packets))
    BY <1>1, AppendProperties DEF WriteDone, PlaceInv
  <2> QED BY <1>0, <1>1, <2>1 DEF WriteDone, Go, PlaceInv
<1>2. ASSUME NEW c \in Connections, ReceiveFrame(c) PROVE PlaceInv'
  <2>1. Head(frames[c]) \in Replies(Packets)
    BY <1>0, <1>2, TailElements DEF ReceiveFrame
  <2> QED BY <1>0, <1>2, <2>1 DEF ReceiveFrame, Go, PlaceInv, client
<1>3. ASSUME NEW c \in Connections, Process(c) PROVE PlaceInv'
  <2>1. PICK b : b = Round(broker, c, packet[c])
    OBVIOUS
  <2>2. /\ pc' = [pc EXCEPT ![c] = "notify"] /\ packet' = [packet EXCEPT ![c] = NoPacket]
        /\ received' = received
    BY <1>3 DEF Process, Go, client
  <2>3. \A d \in Connections : d # c => tx_packets'[d] = tx_packets[d]
    <3>1. CASE RoundWorked(c, b)
      BY <1>0, <3>1 DEF RoundWorked
    <3>2. CASE RoundFailed(c, b)
      BY <3>2 DEF RoundFailed
    <3> QED BY <1>3, <2>1, <3>1, <3>2, ProcessCases
  <2> QED BY <1>0, <2>2, <2>3 DEF PlaceInv
<1>4. ASSUME NEW c \in Connections, SendFrame(c) PROVE PlaceInv'
  BY <1>0, <1>4 DEF SendFrame, PlaceInv, client
<1>5. ASSUME NEW c \in Connections, DrainQueue(c) PROVE PlaceInv'
  BY <1>0, <1>5 DEF DrainQueue, Go, PlaceInv, client
<1>6. ASSUME NEW c \in Connections, ReadPacket(c) PROVE PlaceInv'
  BY <1>0, <1>6 DEF ReadPacket, Go, PlaceInv
<1>7. ASSUME NEW c \in Connections, Leave(c) PROVE PlaceInv'
  BY <1>0, <1>7 DEF Leave, Go, PlaceInv, client
<1>8. ASSUME NEW c \in Connections, AllSent(c) PROVE PlaceInv'
  BY <1>0, <1>8 DEF AllSent, Go, PlaceInv, client
<1>9. ASSUME NEW c \in Connections,
             \/ Accept(c) \/ Register(c) \/ InsertConnection(c) \/ NotifySession(c)
             \/ NotifyWaits(c) \/ NotifyContinues(c) \/ AllNotified(c)
             \/ ReceiveNotification(c) \/ Timeout(c)
             \/ RemoveNotification(c) \/ RemoveBrokerSession(c)
             \/ ClientSends(c) \/ ClientCloses(c) \/ ClientStalls(c)
      PROVE  PlaceInv'
  <2>1. UNCHANGED <<packet, tx_packets, received>>
    BY <1>9 DEF Accept, Register, InsertConnection, NotifySession, NotifyWaits, NotifyContinues,
           AllNotified, ReceiveNotification, Timeout, RemoveNotification, RemoveBrokerSession,
           ClientSends, ClientCloses, ClientStalls, client, handler
  <2>2. \A d \in Connections :
           /\ pc'[d] = "write" => pc[d] = "write"
           /\ pc[d] \in {"notify", "waiting", "send"} => pc'[d] \in {"notify", "waiting", "send"}
    BY <1>0, <1>9 DEF Accept, Register, InsertConnection, NotifySession, NotifyWaits,
           NotifyContinues, AllNotified, ReceiveNotification, Timeout, RemoveNotification,
           RemoveBrokerSession, ClientSends, ClientCloses, ClientStalls, handler, Go
  <2> QED BY <2>1, <2>2 DEF PlaceInv
<1>10. ASSUME NEW e, CleanupScan(e) PROVE PlaceInv'
  BY <1>10 DEF CleanupScan, PlaceInv, client, handler
<1>11. CASE UNCHANGED vars
  BY <1>11 DEF PlaceInv, vars, handler, client
<1> QED BY <1>1, <1>2, <1>3, <1>4, <1>5, <1>6, <1>7, <1>8, <1>9, <1>10, <1>11
        DEF Next, HandlerStep

(* A queue p has lost some of what q holds, at most. *)
Fewer(p, q) == Range(p) \subseteq Range(q) /\ (Increasing(q) => Increasing(p))

(* A part of what is under way loses messages.                             *)
LEMMA FewerInPart ==
    ASSUME NEW M, NEW p \in Seq(M), NEW q \in Seq(M), NEW g \in Seq(M), Fewer(p, q)
    PROVE  Fewer(p \o g, q \o g) /\ Fewer(g \o p, g \o q)
<1>1. Range(p) \subseteq Range(q) /\ (Increasing(q) => Increasing(p))
  BY DEF Fewer
<1>2. /\ Range(p \o g) = Range(p) \cup Range(g) /\ Range(g \o p) = Range(g) \cup Range(p)
      /\ Range(q \o g) = Range(q) \cup Range(g) /\ Range(g \o q) = Range(g) \cup Range(q)
  BY ConcatIncreasing
<1>3. ASSUME Increasing(q \o g) PROVE Increasing(p \o g)
  <2>1. Increasing(q) /\ Increasing(g) /\ Before(Range(q), Range(g))
    BY <1>3, ConcatIncreasing
  <2>2. Increasing(p) /\ Before(Range(p), Range(g))
    BY <1>1, <2>1 DEF Before
  <2> QED BY <2>1, <2>2, ConcatIncreasing
<1>4. ASSUME Increasing(g \o q) PROVE Increasing(g \o p)
  <2>1. Increasing(q) /\ Increasing(g) /\ Before(Range(g), Range(q))
    BY <1>4, ConcatIncreasing
  <2>2. Increasing(p) /\ Before(Range(g), Range(p))
    BY <1>1, <2>1 DEF Before
  <2> QED BY <2>1, <2>2, ConcatIncreasing
<1> QED BY <1>1, <1>2, <1>3, <1>4 DEF Fewer

(* A part of what is under way is lost.                                    *)
LEMMA EmptyIsFewer ==
    ASSUME NEW q
    PROVE  Fewer(<<>>, q)
  BY DEF Fewer, Range, Increasing

(* What is under way to and from the clients loses messages at most.       *)
LEMMA FewerUnderWay ==
    ASSUME OrderInv,
           \A d \in Connections :
               Fewer(Pipeline(d)', Pipeline(d)) /\ Fewer(Arriving(d)', Arriving(d))
    PROVE  OrderInv'
<1>1. \A d \in Connections :
         /\ Increasing(Pipeline(d)') /\ Increasing(Arriving(d)')
         /\ Range(Pipeline(d)') \subseteq Range(Pipeline(d))
         /\ Range(Arriving(d)') \subseteq Range(Arriving(d))
  BY DEF OrderInv, Fewer
<1>2. ASSUME NEW d \in Connections, NEW q \in Connections
      PROVE  Before(Range(Pipeline(d)'), Range(Arriving(q)'))
  BY <1>1 DEF OrderInv, Before
<1>3. ASSUME NEW d \in Connections, NEW m \in Range(Arriving(d)'), m.type = "publish"
      PROVE  m.from = d
  BY <1>1, <1>3 DEF OrderInv
<1> QED BY <1>1, <1>2, <1>3 DEF OrderInv

(* A packet moves on within what is under way, or nothing does.            *)
LEMMA SameUnderWay ==
    ASSUME OrderInv, \A d \in Connections : Pipeline(d)' = Pipeline(d) /\ Arriving(d)' = Arriving(d)
    PROVE  OrderInv'
  BY DEF OrderInv

(* The pipelines of the others. *)
Untouched(d) ==
    /\ received'[d] = received[d] /\ pc'[d] = pc[d] /\ packet'[d] = packet[d]
    /\ frames'[d] = frames[d] /\ tx_packets'[d] = tx_packets[d]
    /\ broker'.tx[d] = broker.tx[d] /\ broker'.rx[d] = broker.rx[d]
    /\ socket'[d] = socket[d] /\ sent'[d] = sent[d]

(* A handler leaves alone what is under way to and from other clients.     *)
LEMMA UntouchedLine ==
    ASSUME NEW d, Untouched(d)
    PROVE  Pipeline(d)' = Pipeline(d) /\ Arriving(d)' = Arriving(d)
  BY DEF Untouched, Pipeline, Arriving, Reading, Upcoming

(* The parts of a pipeline are sequences of packets.                       *)
LEMMA PartsTyped ==
    ASSUME TypeInv, BrokerInv, PlaceInv, NEW c \in Connections
    PROVE  /\ received[c] \in Seq(Replies(Packets)) /\ frames[c] \in Seq(Replies(Packets))
           /\ tx_packets[c] \in Seq(Replies(Packets)) /\ broker.tx[c] \in Seq(Replies(Packets))
           /\ broker.rx[c] \in Seq(Replies(Packets)) /\ Reading(c) \in Seq(Replies(Packets))
           /\ socket[c] \in Seq(Replies(Packets)) /\ Upcoming(c) \in Packets
           /\ Upcoming(c) \in Replies(Packets)
<1>1. Seq(Packets) \subseteq Seq(Replies(Packets))
  BY PacketsAreReplies
<1>2. broker.tx[c] \in Seq(Replies(Packets)) /\ broker.rx[c] \in Seq(Packets)
  BY DEF BrokerInv, Sound, Brokers
<1>3. socket[c] \in Seq(Packets) /\ sent[c] \in Nat /\ (pc[c] = "process" => packet[c] \in Packets)
  BY DEF TypeInv
<1>4. Upcoming(c) \in Packets
  BY <1>3 DEF Upcoming, Packets
<1>5. Reading(c) \in Seq(Replies(Packets))
  BY <1>3, PacketsAreReplies DEF Reading
<1> QED BY <1>1, <1>2, <1>3, <1>4, <1>5, PacketsAreReplies DEF TypeInv, PlaceInv

(* All that is under way to a client is packets.                           *)
LEMMA PipelineTyped ==
    ASSUME TypeInv, BrokerInv, PlaceInv, NEW c \in Connections
    PROVE  /\ received[c] \o (IF pc[c] = "write" THEN <<packet[c]>> ELSE <<>>)
                \o frames[c] \o tx_packets[c] \in Seq(Replies(Packets))
           /\ Pipeline(c) \in Seq(Replies(Packets))
<1>1. PICK v, w, M :
        /\ v = (IF pc[c] = "write" THEN <<packet[c]>> ELSE <<>>)
        /\ w = received[c] \o v \o frames[c] \o tx_packets[c]
        /\ M = Replies(Packets)
  OBVIOUS
<1>2. v \in Seq(M)
  BY <1>1 DEF PlaceInv
<1>3. /\ received[c] \in Seq(M) /\ frames[c] \in Seq(M) /\ tx_packets[c] \in Seq(M)
      /\ broker.tx[c] \in Seq(M)
  BY <1>1, PartsTyped
<1>4. w \in Seq(M)
  BY <1>1, <1>2, <1>3, ConcatProperties
<1>5. w \o broker.tx[c] \in Seq(M)
  BY <1>3, <1>4, ConcatProperties
<1>6. Pipeline(c) = w \o broker.tx[c]
  BY <1>1 DEF Pipeline
<1> QED BY <1>1, <1>4, <1>5, <1>6

(* The first of a queue moves to the end of the queue before it.           *)
LEMMA HeadMoves ==
    ASSUME NEW M, NEW w \in Seq(M), NEW t \in Seq(M), t # <<>>
    PROVE  (w \o <<Head(t)>>) \o Tail(t) = w \o t
<1>1. PICK h, g : h = <<Head(t)>> /\ g = Tail(t)
  OBVIOUS
<1>2. h \in Seq(M) /\ g \in Seq(M)
  BY <1>1, TailElements, SingleIncreasing
<1>3. t = h \o g
  BY <1>1, HeadThenTail
<1>4. (w \o h) \o g = w \o (h \o g)
  BY <1>2, ConcatAssociative
<1> QED BY <1>1, <1>3, <1>4, Zenon

(* write_all hands a frame over; the next one is taken off the channel.    *)
LEMMA WriteMoves ==
    ASSUME NEW M, NEW r \in Seq(M), NEW f \in Seq(M), NEW t \in Seq(M), NEW b \in Seq(M)
    PROVE  /\ \A x \in M : r \o <<x>> \o f \o t \o b = Append(r, x) \o <<>> \o f \o t \o b
           /\ f # <<>> => r \o <<>> \o f \o t \o b = r \o <<Head(f)>> \o Tail(f) \o t \o b
           /\ t # <<>> => r \o <<>> \o f \o t \o b = r \o <<>> \o Append(f, Head(t)) \o Tail(t) \o b
           /\ t = <<>> => r \o <<>> \o f \o t \o b = r \o <<>> \o f \o b \o <<>>
<1> DEFINE e == <<>>
<1>1. e \in Seq(M) /\ \A q \in Seq(M) : q \o e = q
  BY ConcatEmptySeq
<1>2. \A p, q \in Seq(M) : p \o q \in Seq(M)
  BY ConcatProperties
<1>3. \A x \in M : <<x>> \in Seq(M)
  BY SingleIncreasing
<1>4. ASSUME NEW p \in Seq(M), NEW q \in Seq(M), NEW s \in Seq(M)
      PROVE  (p \o q) \o s = p \o (q \o s)
  BY ConcatAssociative, SMTT(30)
<1>5. ASSUME NEW x \in M PROVE r \o <<x>> \o f \o t \o b = Append(r, x) \o <<>> \o f \o t \o b
  <2>1. Append(r, x) = r \o <<x>> /\ r \o <<x>> \in Seq(M)
    BY <1>2, <1>3, AppendIsConcat
  <2>2. Append(r, x) \o e = r \o <<x>>
    BY <1>1, <2>1
  <2> QED BY <2>2, Zenon
<1>6. ASSUME f # <<>> PROVE r \o <<>> \o f \o t \o b = r \o <<Head(f)>> \o Tail(f) \o t \o b
  <2>1. (r \o <<Head(f)>>) \o Tail(f) = r \o f /\ r \o e = r
    BY <1>1, <1>6, HeadMoves
  <2> QED BY <2>1, Zenon
<1>7. ASSUME t # <<>>
      PROVE  r \o <<>> \o f \o t \o b = r \o <<>> \o Append(f, Head(t)) \o Tail(t) \o b
  <2>1. PICK h, w : h = <<Head(t)>> /\ w = r \o e \o f
    OBVIOUS
  <2>2. h \in Seq(M) /\ Head(t) \in M
    BY <1>3, <1>7, <2>1, TailElements
  <2>3. Append(f, Head(t)) = f \o h
    BY <2>1, <2>2, AppendIsConcat
  <2>4. r \o e \in Seq(M) /\ w \in Seq(M)
    BY <1>1, <1>2, <2>1
  <2>5. (r \o e) \o (f \o h) = w \o h
    BY <1>4, <2>1, <2>2, <2>4
  <2>6. (w \o h) \o Tail(t) = w \o t
    BY <1>7, <2>1, <2>4, HeadMoves
  <2> QED BY <2>1, <2>3, <2>5, <2>6, Zenon
<1>8. ASSUME t = <<>> PROVE r \o <<>> \o f \o t \o b = r \o <<>> \o f \o b \o <<>>
  <2>1. PICK w : w = r \o e \o f
    OBVIOUS
  <2>2. w \in Seq(M)
    BY <1>1, <1>2, <2>1
  <2>3. w \o t = w /\ (w \o b) \o e = w \o b
    BY <1>1, <1>2, <1>8, <2>2
  <2> QED BY <2>1, <2>3, Zenon
<1> QED BY <1>5, <1>6, <1>7, <1>8

(* A frame goes to the frame channel, to the socket, to the client: the    *)
(* order of what is under way to the client is the same throughout.        *)
LEMMA SendMoves ==
    ASSUME TypeInv, BrokerInv, PlaceInv, OrderInv, NEW c \in Connections,
           SendFrame(c) \/ ReceiveFrame(c) \/ WriteDone(c)
    PROVE  OrderInv'
<1>0. /\ pc \in [Connections -> Stages] /\ packet \in [Connections -> Replies(Packets) \cup {NoPacket}]
      /\ tx_packets \in [Connections -> Seq(Replies(Packets))]
      /\ frames \in [Connections -> Seq(Replies(Packets))]
      /\ received \in [Connections -> Seq(Replies(Packets))]
  BY DEF TypeInv, PlaceInv
<1>1. \A d \in Connections : d # c => Untouched(d)
  BY <1>0 DEF SendFrame, ReceiveFrame, WriteDone, Go, Untouched, shared, client
<1>2. PICK r, f, t, b, M :
         /\ r = received[c] /\ f = frames[c] /\ t = tx_packets[c] /\ b = broker.tx[c]
         /\ M = Replies(Packets)
  OBVIOUS
<1>3. r \in Seq(M) /\ f \in Seq(M) /\ t \in Seq(M) /\ b \in Seq(M)
  BY <1>2, PartsTyped
<1>4. Arriving(c)' = Arriving(c)
  <2>1. /\ UNCHANGED <<broker, socket, sent>> /\ pc[c] # "process" /\ pc'[c] # "process"
    BY <1>0 DEF SendFrame, ReceiveFrame, WriteDone, Go, shared, client
  <2> QED BY <2>1 DEF Arriving, Reading, Upcoming
<1>5. CASE SendFrame(c)
  <2>1. pc[c] = "send" /\ pc' = pc /\ received' = received /\ broker' = broker /\ t # <<>>
    BY <1>2, <1>5 DEF SendFrame, client, shared
  <2>2. frames'[c] = Append(f, Head(t)) /\ tx_packets'[c] = Tail(t)
    BY <1>0, <1>2, <1>5 DEF SendFrame, NextToSend
  <2>3. Pipeline(c) = r \o <<>> \o f \o t \o b
    BY <1>2, <2>1 DEF Pipeline
  <2>4. Pipeline(c)' = r \o <<>> \o Append(f, Head(t)) \o Tail(t) \o b
    BY <1>2, <2>1, <2>2 DEF Pipeline
  <2>5. r \o <<>> \o f \o t \o b = r \o <<>> \o Append(f, Head(t)) \o Tail(t) \o b
    BY <1>3, <2>1, WriteMoves
  <2>6. Pipeline(c)' = Pipeline(c)
    BY <2>3, <2>4, <2>5, Zenon
  <2> QED BY <1>1, <1>4, <2>6, UntouchedLine, SameUnderWay
<1>6. CASE ReceiveFrame(c)
  <2>1. /\ pc[c] = "select" /\ received' = received /\ broker' = broker
        /\ tx_packets' = tx_packets /\ f # <<>>
    BY <1>2, <1>6 DEF ReceiveFrame, client, shared
  <2>2. pc'[c] = "write" /\ packet'[c] = Head(f) /\ frames'[c] = Tail(f)
    BY <1>0, <1>2, <1>6 DEF ReceiveFrame, Go
  <2>3. Pipeline(c) = r \o <<>> \o f \o t \o b
    BY <1>2, <2>1 DEF Pipeline
  <2>4. Pipeline(c)' = r \o <<Head(f)>> \o Tail(f) \o t \o b
    BY <1>2, <2>1, <2>2 DEF Pipeline
  <2>5. r \o <<>> \o f \o t \o b = r \o <<Head(f)>> \o Tail(f) \o t \o b
    BY <1>3, <2>1, WriteMoves
  <2>6. Pipeline(c)' = Pipeline(c)
    BY <2>3, <2>4, <2>5, Zenon
  <2> QED BY <1>1, <1>4, <2>6, UntouchedLine, SameUnderWay
<1>7. CASE WriteDone(c)
  <2>1. /\ pc[c] = "write" /\ frames' = frames /\ broker' = broker /\ tx_packets' = tx_packets
        /\ packet[c] \in M
    BY <1>2, <1>7 DEF WriteDone, shared, PlaceInv
  <2>2. pc'[c] = "select" /\ received'[c] = Append(r, packet[c])
    BY <1>0, <1>2, <1>7 DEF WriteDone, Go
  <2>3. Pipeline(c) = r \o <<packet[c]>> \o f \o t \o b
    BY <1>2, <2>1 DEF Pipeline
  <2>4. Pipeline(c)' = Append(r, packet[c]) \o <<>> \o f \o t \o b
    BY <1>2, <2>1, <2>2 DEF Pipeline
  <2>5. r \o <<packet[c]>> \o f \o t \o b = Append(r, packet[c]) \o <<>> \o f \o t \o b
    BY <1>3, <2>1, WriteMoves
  <2>6. Pipeline(c)' = Pipeline(c)
    BY <2>3, <2>4, <2>5, Zenon
  <2> QED BY <1>1, <1>4, <2>6, UntouchedLine, SameUnderWay
<1> QED BY <1>5, <1>6, <1>7

(* write_all fails: the frame in hand is lost.                             *)
LEMMA WriteLost ==
    ASSUME NEW M, NEW r \in Seq(M), NEW x \in M, NEW f \in Seq(M), NEW t \in Seq(M),
           NEW b \in Seq(M)
    PROVE  Fewer(r \o <<>> \o f \o t \o b, r \o <<x>> \o f \o t \o b)
<1>1. PICK p, q : p = r \o <<>> /\ q = r \o <<x>>
  OBVIOUS
<1>2. p \in Seq(M) /\ q \in Seq(M) /\ Fewer(p, q)
  <2>1. PICK e, h : e = <<>> /\ h = <<x>>
    OBVIOUS
  <2>2. e \in Seq(M) /\ h \in Seq(M) /\ Fewer(e, h)
    BY <2>1, EmptyIsFewer, SingleIncreasing
  <2>3. Fewer(r \o e, r \o h) /\ r \o e \in Seq(M) /\ r \o h \in Seq(M)
    BY <2>2, FewerInPart, ConcatProperties
  <2> QED BY <1>1, <2>1, <2>3
<1>3. p \o f \in Seq(M) /\ q \o f \in Seq(M) /\ Fewer(p \o f, q \o f)
  BY <1>2, FewerInPart, ConcatProperties
<1>4. p \o f \o t \in Seq(M) /\ q \o f \o t \in Seq(M) /\ Fewer(p \o f \o t, q \o f \o t)
  BY <1>3, FewerInPart, ConcatProperties
<1>5. Fewer(p \o f \o t \o b, q \o f \o t \o b)
  BY <1>4, FewerInPart
<1> QED BY <1>1, <1>5

(* The client's connection is left: at most a frame in hand is lost.       *)
LEMMA LeaveOrder ==
    ASSUME TypeInv, BrokerInv, PlaceInv, OrderInv, NEW c \in Connections, Leave(c)
    PROVE  OrderInv'
<1>0. /\ pc \in [Connections -> Stages]
      /\ packet \in [Connections -> Replies(Packets) \cup {NoPacket}]
  BY DEF TypeInv
<1>1. \A d \in Connections : d # c => Untouched(d)
  BY <1>0 DEF Leave, Go, Untouched, client
<1>2. /\ UNCHANGED <<broker, received, frames, tx_packets, socket, sent>>
      /\ pc[c] # "process" /\ pc'[c] = "remove_sender"
  BY <1>0 DEF Leave, Go, client
<1>3. Arriving(c)' = Arriving(c)
  BY <1>2 DEF Arriving, Reading, Upcoming
<1>4. PICK r, f, t, b, M :
         /\ r = received[c] /\ f = frames[c] /\ t = tx_packets[c] /\ b = broker.tx[c]
         /\ M = Replies(Packets)
  OBVIOUS
<1>5. r \in Seq(M) /\ f \in Seq(M) /\ t \in Seq(M) /\ b \in Seq(M)
  BY <1>4, PartsTyped
<1>6. Pipeline(c)' = r \o <<>> \o f \o t \o b
  BY <1>2, <1>4 DEF Pipeline
<1>7. CASE pc[c] = "write"
  <2>1. Pipeline(c) = r \o <<packet[c]>> \o f \o t \o b
    BY <1>4, <1>7 DEF Pipeline
  <2>2. packet[c] \in M
    BY <1>4, <1>7 DEF PlaceInv
  <2>3. Fewer(r \o <<>> \o f \o t \o b, r \o <<packet[c]>> \o f \o t \o b)
    BY <1>5, <2>2, WriteLost
  <2>4. Fewer(Pipeline(c)', Pipeline(c))
    BY <1>6, <2>1, <2>3
  <2>5. \A d \in Connections :
           Fewer(Pipeline(d)', Pipeline(d)) /\ Fewer(Arriving(d)', Arriving(d))
    BY <1>1, <1>3, <2>4, UntouchedLine DEF Fewer
  <2> QED BY <2>5, FewerUnderWay
<1>8. CASE pc[c] # "write"
  <2>1. Pipeline(c) = r \o <<>> \o f \o t \o b
    BY <1>4, <1>8 DEF Pipeline
  <2> QED BY <1>1, <1>3, <1>6, <2>1, UntouchedLine, SameUnderWay
<1> QED BY <1>7, <1>8

(* remove_session, by a handler or by the cleanup task: what the broker    *)
(* has queued for or from the sessions is lost.                            *)
LEMMA RemoveOrder ==
    ASSUME TypeInv, BrokerInv, PlaceInv, OrderInv, NEW gone,
           \A d \in Connections : d \notin gone => Untouched(d),
           \A d \in Connections : d \in gone =>
               /\ received'[d] = received[d] /\ packet'[d] = packet[d]
               /\ (pc'[d] = "write" <=> pc[d] = "write")
               /\ (pc'[d] = "process" <=> pc[d] = "process")
               /\ frames'[d] = frames[d] /\ tx_packets'[d] = tx_packets[d]
               /\ broker'.tx[d] = <<>> /\ broker'.rx[d] = <<>>
               /\ socket'[d] = socket[d] /\ sent'[d] = sent[d]
    PROVE  OrderInv'
<1>1. ASSUME NEW c \in Connections, c \in gone
      PROVE  Fewer(Pipeline(c)', Pipeline(c)) /\ Fewer(Arriving(c)', Arriving(c))
  <2>1. PICK w, y, M :
          /\ w = received[c] \o (IF pc[c] = "write" THEN <<packet[c]>> ELSE <<>>)
                 \o frames[c] \o tx_packets[c]
          /\ y = Reading(c) \o (socket[c] \o <<Upcoming(c)>>)
          /\ M = Replies(Packets)
    OBVIOUS
  <2>2. Pipeline(c) = w \o broker.tx[c] /\ Arriving(c) = broker.rx[c] \o y
    BY <2>1 DEF Pipeline, Arriving
  <2>3. Pipeline(c)' = w \o <<>> /\ Arriving(c)' = <<>> \o y
    BY <1>1, <2>1 DEF Pipeline, Arriving, Reading, Upcoming
  <2>4. /\ broker.tx[c] \in Seq(M) /\ broker.rx[c] \in Seq(M) /\ <<>> \in Seq(M)
    BY <2>1, PartsTyped
  <2>5. w \in Seq(M)
    BY <2>1, PipelineTyped
  <2>6. y \in Seq(M)
    <3>1. Reading(c) \in Seq(M) /\ socket[c] \in Seq(M) /\ Upcoming(c) \in M
      BY <2>1, PartsTyped
    <3>2. <<Upcoming(c)>> \in Seq(M)
      BY <3>1, SingleIncreasing
    <3> QED BY <2>1, <3>1, <3>2, ConcatProperties
  <2>7. PICK e, x, z : e = <<>> /\ x = broker.tx[c] /\ z = broker.rx[c]
    OBVIOUS
  <2>8. e \in Seq(M) /\ x \in Seq(M) /\ z \in Seq(M) /\ Fewer(e, x) /\ Fewer(e, z)
    BY <2>4, <2>7, EmptyIsFewer
  <2>9. Fewer(w \o e, w \o x) /\ Fewer(e \o y, z \o y)
    BY <2>5, <2>6, <2>8, FewerInPart
  <2> QED BY <2>2, <2>3, <2>7, <2>9
<1>2. ASSUME NEW c \in Connections, c \notin gone
      PROVE  Fewer(Pipeline(c)', Pipeline(c)) /\ Fewer(Arriving(c)', Arriving(c))
  BY <1>2, UntouchedLine DEF Fewer
<1> QED BY <1>1, <1>2, FewerUnderWay

(* A handler reads a packet off its socket: it stays in its place.         *)
LEMMA ReadOrder ==
    ASSUME TypeInv, BrokerInv, PlaceInv, OrderInv, NEW c \in Connections, ReadPacket(c)
    PROVE  OrderInv'
<1>0. /\ pc \in [Connections -> Stages] /\ socket \in [Connections -> Seq(Packets)]
      /\ packet \in [Connections -> Replies(Packets) \cup {NoPacket}]
  BY DEF TypeInv
<1>1. \A d \in Connections : d # c => Untouched(d)
  BY <1>0 DEF ReadPacket, Go, Untouched, shared
<1>2. /\ UNCHANGED <<broker, received, frames, tx_packets, sent>>
      /\ pc[c] = "select" /\ pc'[c] = "process" /\ socket[c] # <<>>
      /\ packet'[c] = Head(socket[c]) /\ socket'[c] = Tail(socket[c])
  BY <1>0 DEF ReadPacket, Go, shared
<1>3. Pipeline(c)' = Pipeline(c)
  BY <1>2 DEF Pipeline
<1>4. PICK b, s, u, M : b = broker.rx[c] /\ s = socket[c] /\ u = <<Upcoming(c)>> /\ M = Replies(Packets)
  OBVIOUS
<1>5. b \in Seq(M) /\ s \in Seq(M) /\ u \in Seq(M) /\ s # <<>>
  BY <1>2, <1>4, PartsTyped, SingleIncreasing
<1>6. Arriving(c) = b \o (<<>> \o (s \o u))
  BY <1>2, <1>4 DEF Arriving, Reading
<1>7. Arriving(c)' = b \o (<<Head(s)>> \o (Tail(s) \o u))
  BY <1>2, <1>4 DEF Arriving, Reading, Upcoming
<1>8. <<>> \o (s \o u) = <<Head(s)>> \o (Tail(s) \o u)
  <2>1. PICK h, g : h = <<Head(s)>> /\ g = Tail(s)
    OBVIOUS
  <2>2. h \in Seq(M) /\ g \in Seq(M)
    BY <1>5, <2>1, TailElements, SingleIncreasing
  <2>3. s = h \o g
    BY <1>5, <2>1, HeadThenTail
  <2>4. (h \o g) \o u = h \o (g \o u)
    BY <1>5, <2>2, ConcatAssociative
  <2>5. <<>> \o (s \o u) = s \o u
    BY <1>5, ConcatProperties, ConcatEmptySeq
  <2> QED BY <2>1, <2>3, <2>4, <2>5, Zenon
<1>9. Arriving(c)' = Arriving(c)
  BY <1>6, <1>7, <1>8, Zenon
<1> QED BY <1>1, <1>3, <1>9, UntouchedLine, SameUnderWay

(* Queue p of client c holds nothing older than queue q does. *)
Later(p, q, M, c) ==
    /\ Increasing(q) => Increasing(p)
    /\ \A m \in M : Before({m}, Range(q)) => Before({m}, Range(p))
    /\ (\A m \in Range(q) : m.type = "publish" => m.from = c) =>
         \A m \in Range(p) : m.type = "publish" => m.from = c

(* Something new at the end of what is under way.                          *)
LEMMA LaterInPart ==
    ASSUME NEW M, NEW p \in Seq(M), NEW q \in Seq(M), NEW g \in Seq(M), NEW c, Later(p, q, M, c)
    PROVE  Later(g \o p, g \o q, M, c)
<1>1. /\ Increasing(q) => Increasing(p)
      /\ \A m \in M : Before({m}, Range(q)) => Before({m}, Range(p))
      /\ (\A m \in Range(q) : m.type = "publish" => m.from = c) =>
           \A m \in Range(p) : m.type = "publish" => m.from = c
  BY DEF Later
<1>2. Range(g \o p) = Range(g) \cup Range(p) /\ Range(g \o q) = Range(g) \cup Range(q)
  BY ConcatIncreasing
<1>3. ASSUME Increasing(g \o q) PROVE Increasing(g \o p)
  <2>1. Increasing(q) /\ Increasing(g) /\ Before(Range(g), Range(q))
    BY <1>3, ConcatIncreasing
  <2>2. Range(g) \subseteq M
    BY DEF Range
  <2>3. Before(Range(g), Range(p))
    BY <1>1, <2>1, <2>2 DEF Before
  <2>4. Increasing(p)
    BY <1>1, <2>1
  <2> QED BY <2>1, <2>3, <2>4, ConcatIncreasing
<1>4. ASSUME NEW m \in M, Before({m}, Range(g \o q)) PROVE Before({m}, Range(g \o p))
  <2>1. Before({m}, Range(g)) /\ Before({m}, Range(q))
    BY <1>2, <1>4 DEF Before
  <2>2. Before({m}, Range(p))
    BY <1>1, <2>1
  <2> QED BY <1>2, <2>1, <2>2 DEF Before
<1>5. ASSUME \A m \in Range(g \o q) : m.type = "publish" => m.from = c
      PROVE  \A m \in Range(g \o p) : m.type = "publish" => m.from = c
  BY <1>1, <1>2, <1>5
<1> QED BY <1>3, <1>4, <1>5 DEF Later

(* A client's new packet has the number of its next message, or none.      *)
LEMMA NumbersGrow ==
    ASSUME TypeInv, NEW c \in Connections, NEW p \in ClientPackets(c),
           sent' = [sent EXCEPT ![c] = @ + 1], NEW u, u = Upcoming(c), NEW v, v = Upcoming(c)'
    PROVE  /\ p = u \/ p.type # "publish"
           /\ u \in Packets /\ v \in Packets /\ u.from = c /\ v.from = c
           /\ \A m \in Replies(Packets) : Older(m, u) => Older(m, p) /\ Older(m, v)
           /\ Older(p, v)
<1>1. sent[c] \in Nat /\ sent'[c] = sent[c] + 1
  BY DEF TypeInv
<1>2. p = u \/ p.type # "publish"
  BY DEF ClientPackets, Upcoming
<1>3. /\ u = [type |-> "publish", qos |-> 1, from |-> c, seq |-> sent[c] + 1]
      /\ v = [type |-> "publish", qos |-> 1, from |-> c, seq |-> sent[c] + 2]
  BY <1>1 DEF Upcoming
<1>4. /\ u \in Packets /\ v \in Packets /\ u.from = c /\ v.from = c
      /\ u.type = "publish" /\ v.type = "publish" /\ u.seq = sent[c] + 1 /\ v.seq = sent[c] + 2
  BY <1>1, <1>3 DEF Packets
<1>5. ASSUME NEW m \in Replies(Packets), m.type = "publish" PROVE m.seq \in Nat
  BY <1>5 DEF Replies, Packets
<1>6. ASSUME NEW m \in Replies(Packets), Older(m, u) PROVE Older(m, p) /\ Older(m, v)
  <2>1. Older(m, v)
    BY <1>1, <1>4, <1>5, <1>6 DEF Older
  <2>2. Older(m, p)
    BY <1>2, <1>6 DEF Older
  <2> QED BY <2>1, <2>2
<1>7. Older(p, v)
  BY <1>1, <1>2, <1>4 DEF Older
<1> QED BY <1>2, <1>4, <1>6, <1>7

(* A client sends: its packet is the newest of all.                        *)
LEMMA ClientOrder ==
    ASSUME TypeInv, BrokerInv, PlaceInv, OrderInv, NEW c \in Connections, ClientSends(c)
    PROVE  OrderInv'
<1>0. socket \in [Connections -> Seq(Packets)] /\ sent \in [Connections -> Nat]
  BY DEF TypeInv
<1>1. \A d \in Connections : d # c => Untouched(d)
  BY <1>0 DEF ClientSends, Untouched, shared, handler
<1>2. PICK p \in ClientPackets(c) : socket' = [socket EXCEPT ![c] = Append(@, p)]
  BY DEF ClientSends
<1>3. /\ UNCHANGED <<broker, received, frames, tx_packets, pc, packet>>
      /\ socket'[c] = Append(socket[c], p) /\ sent' = [sent EXCEPT ![c] = @ + 1]
  BY <1>0, <1>2 DEF ClientSends, shared, handler
<1>4. \A d \in Connections : Pipeline(d)' = Pipeline(d)
  BY <1>3 DEF Pipeline
<1>5. PICK b, r, s, u, v, M :
        /\ b = broker.rx[c] /\ r = Reading(c) /\ s = socket[c]
        /\ u = Upcoming(c) /\ v = Upcoming(c)' /\ M = Replies(Packets)
  OBVIOUS
<1>6. /\ b \in Seq(M) /\ r \in Seq(M) /\ s \in Seq(M) /\ u \in M
  BY <1>5, PartsTyped
<1>7. /\ p = u \/ p.type # "publish"
      /\ u.from = c /\ v.from = c /\ Older(p, v)
      /\ \A m \in M : Older(m, u) => Older(m, p) /\ Older(m, v)
      /\ p \in M /\ v \in M
  <2>1. p \in Packets
    BY ClientPacketsTyped
  <2>2. /\ p = u \/ p.type # "publish"
        /\ v \in Packets /\ u.from = c /\ v.from = c /\ Older(p, v)
    BY <1>3, <1>5, NumbersGrow
  <2>3. \A m \in Replies(Packets) : Older(m, u) => Older(m, p) /\ Older(m, v)
    BY <1>3, <1>5, NumbersGrow
  <2> QED BY <1>5, <2>1, <2>2, <2>3, PacketsAreReplies
<1>8. Arriving(c) = b \o (r \o (s \o <<u>>)) /\ Arriving(c)' = b \o (r \o (Append(s, p) \o <<v>>))
  BY <1>3, <1>5 DEF Arriving, Reading
<1>9. PICK x, y : x = s \o <<u>> /\ y = Append(s, p) \o <<v>>
  OBVIOUS
<1>10. /\ x \in Seq(M) /\ Range(x) = Range(s) \cup {u}
       /\ Increasing(x) <=> Increasing(s) /\ Before(Range(s), {u})
  <2>1. x = Append(s, u)
    BY <1>6, <1>9, AppendIsConcat
  <2> QED BY <1>6, <2>1, AppendIncreasing
<1>11. PICK w : w = Append(s, p)
  OBVIOUS
<1>12. /\ w \in Seq(M) /\ Range(w) = Range(s) \cup {p}
       /\ Increasing(w) <=> Increasing(s) /\ Before(Range(s), {p})
  BY <1>6, <1>7, <1>11, AppendIncreasing
<1>13. /\ y \in Seq(M) /\ Range(y) = Range(w) \cup {v}
       /\ Increasing(y) <=> Increasing(w) /\ Before(Range(w), {v})
  <2>1. w \in Seq(M) /\ v \in M
    BY <1>7, <1>12
  <2>2. y = Append(w, v)
    BY <1>9, <1>11, <2>1, AppendIsConcat
  <2> QED BY <2>1, <2>2, AppendIncreasing
<1>14. Later(y, x, M, c)
  <2>1. Range(s) \subseteq M
    BY <1>6 DEF Range
  <2>2. ASSUME Increasing(x) PROVE Increasing(y)
    <3>1. Increasing(s) /\ Before(Range(s), {u})
      BY <1>10, <2>2
    <3>2. Before(Range(s), {p}) /\ Before(Range(s) \cup {p}, {v})
      BY <1>7, <2>1, <3>1 DEF Before
    <3>3. Increasing(w)
      BY <1>12, <3>1, <3>2
    <3> QED BY <1>12, <1>13, <3>2, <3>3
  <2>3. ASSUME NEW m \in M, Before({m}, Range(x)) PROVE Before({m}, Range(y))
    <3>1. Before({m}, Range(s)) /\ Older(m, u)
      BY <1>10, <2>3 DEF Before
    <3>2. Older(m, p) /\ Older(m, v)
      BY <1>7, <3>1
    <3> QED BY <1>12, <1>13, <3>1, <3>2 DEF Before
  <2>4. ASSUME \A m \in Range(x) : m.type = "publish" => m.from = c
        PROVE  \A m \in Range(y) : m.type = "publish" => m.from = c
    BY <1>7, <1>10, <1>12, <1>13, <2>4
  <2> QED BY <2>2, <2>3, <2>4 DEF Later
<1>15. Later(Arriving(c)', Arriving(c), M, c)
  <2>1. r \o x \in Seq(M) /\ r \o y \in Seq(M) /\ Later(r \o y, r \o x, M, c)
    BY <1>6, <1>10, <1>13, <1>14, LaterInPart, ConcatProperties
  <2>2. Later(b \o (r \o y), b \o (r \o x), M, c)
    BY <1>6, <2>1, LaterInPart
  <2> QED BY <1>8, <1>9, <2>2, Zenon
<1>16. ASSUME NEW d \in Connections PROVE Before(Range(Pipeline(d)'), Range(Arriving(c)'))
  <2>1. Range(Pipeline(d)) \subseteq M
    <3>1. Pipeline(d) \in Seq(M)
      BY <1>5, PipelineTyped
    <3> QED BY <3>1 DEF Range
  <2>2. Before(Range(Pipeline(d)), Range(Arriving(c)))
    BY DEF OrderInv
  <2>3. ASSUME NEW m \in Range(Pipeline(d)) PROVE Before({m}, Range(Arriving(c)'))
    <3>1. m \in M /\ Before({m}, Range(Arriving(c)))
      BY <2>1, <2>2 DEF Before
    <3> QED BY <1>15, <3>1 DEF Later
  <2> QED BY <1>4, <2>3 DEF Before
<1>17. /\ Increasing(Arriving(c)')
       /\ \A m \in Range(Arriving(c)') : m.type = "publish" => m.from = c
  BY <1>15 DEF Later, OrderInv
<1>18. \A d \in Connections : d # c => Arriving(d)' = Arriving(d)
  BY <1>1, UntouchedLine
<1>19. ASSUME NEW d \in Connections, NEW q \in Connections
       PROVE  Before(Range(Pipeline(d)'), Range(Arriving(q)'))
  BY <1>4, <1>16, <1>18 DEF OrderInv
<1> QED BY <1>4, <1>17, <1>18, <1>19 DEF OrderInv

(* The handler takes all that the broker has queued for its client: tx are *)
(* the queues before.                                                      *)
LEMMA QueueTaken ==
    ASSUME TypeInv, BrokerInv, PlaceInv, NEW c \in Connections,
           pc[c] \notin {"notify", "waiting", "send", "write"}, pc'[c] # "write",
           UNCHANGED <<received, frames>>, NEW q \in Seq(Replies(Packets)),
           tx_packets'[c] = q, broker'.tx[c] = <<>>
    PROVE  Pipeline(c)' = received[c] \o <<>> \o frames[c] \o tx_packets[c] \o q
<1>1. PICK r, f, t, M :
        /\ r = received[c] /\ f = frames[c] /\ t = tx_packets[c] /\ M = Replies(Packets)
  OBVIOUS
<1>2. r \in Seq(M) /\ f \in Seq(M) /\ t \in Seq(M) /\ q \in Seq(M)
  BY <1>1, PartsTyped
<1>3. t = <<>>
  BY <1>1 DEF PlaceInv
<1>4. r \o <<>> \o f \o t \o q = r \o <<>> \o f \o q \o <<>>
  BY <1>2, <1>3, WriteMoves
<1>5. Pipeline(c)' = r \o <<>> \o f \o q \o <<>>
  BY <1>1 DEF Pipeline
<1> QED BY <1>1, <1>4, <1>5, Zenon

(* A notified handler empties its queue.                                   *)
LEMMA DrainQueueOrder ==
    ASSUME TypeInv, BrokerInv, PlaceInv, OrderInv, NEW c \in Connections, DrainQueue(c)
    PROVE  OrderInv'
<1>0. /\ pc \in [Connections -> Stages] /\ tx_packets \in [Connections -> Seq(Replies(Packets))]
      /\ broker \in Brokers(Connections, Packets)
      /\ broker.tx \in [Connections -> Seq(Replies(Packets))]
  BY DEF TypeInv, BrokerInv, Sound, Brokers
<1>1. broker'.rx = broker.rx /\ broker'.tx = [broker.tx EXCEPT ![c] = <<>>]
  <2>1. broker' = DequeueAll(broker, c)
    BY DEF DrainQueue
  <2>2. PICK b, r : b = broker /\ r = broker'
    OBVIOUS
  <2>3. b \in Brokers(Connections, Packets) /\ r = DequeueAll(b, c)
    BY <1>0, <2>1, <2>2
  <2>4. r.rx = b.rx /\ r.tx = [b.tx EXCEPT ![c] = <<>>]
    BY <2>3, DequeuedQueues
  <2> QED BY <2>2, <2>4, Zenon
<1>2. /\ UNCHANGED <<received, frames, packet, socket, sent>>
      /\ pc[c] = "drain" /\ pc' = [pc EXCEPT ![c] = "send"]
      /\ tx_packets' = [tx_packets EXCEPT ![c] = broker.tx[c]]
  BY DEF DrainQueue, Go, client
<1>3. \A d \in Connections : d # c => Untouched(d)
  BY <1>0, <1>1, <1>2 DEF Untouched
<1>4. /\ pc'[c] = "send" /\ tx_packets'[c] = broker.tx[c] /\ broker'.tx[c] = <<>>
      /\ broker.tx[c] \in Seq(Replies(Packets))
  BY <1>0, <1>1, <1>2
<1>5. Pipeline(c)' = received[c] \o <<>> \o frames[c] \o tx_packets[c] \o broker.tx[c]
  BY <1>2, <1>4, QueueTaken
<1>6. Pipeline(c)' = Pipeline(c)
  BY <1>2, <1>5 DEF Pipeline
<1>7. Arriving(c)' = Arriving(c)
  BY <1>1, <1>2, <1>4 DEF Arriving, Reading, Upcoming
<1> QED BY <1>3, <1>6, <1>7, UntouchedLine, SameUnderWay

(* A round of processing, and the two ways on from it.                     *)
LEMMA ProcessOrder ==
    ASSUME TypeInv, BrokerInv, PlaceInv, OrderInv, NEW c \in Connections, Process(c)
    PROVE  OrderInv'
<1> DEFINE M == Replies(Packets)
           w(d) == received[d] \o (IF pc[d] = "write" THEN <<packet[d]>> ELSE <<>>)
                     \o frames[d] \o tx_packets[d]
           g(d) == socket[d] \o <<Upcoming(d)>>
           Old == [d \in Connections |-> w(d)]
           New == [d \in Connections |-> Reading(d) \o g(d)]
           Rest == [d \in Connections |-> IF d = c THEN g(c) ELSE Reading(d) \o g(d)]
<1>0. /\ pc \in [Connections -> Stages] /\ tx_packets \in [Connections -> Seq(M)]
      /\ packet \in [Connections -> M \cup {NoPacket}]
  BY DEF TypeInv
<1>1. /\ pc[c] = "process" /\ pc' = [pc EXCEPT ![c] = "notify"]
      /\ packet' = [packet EXCEPT ![c] = NoPacket] /\ packet[c] \in Packets
      /\ UNCHANGED <<frames, received, socket, sent>>
  BY DEF Process, Go, client, TypeInv
<1>2. \A d \in Connections : g(d) \in Seq(M) /\ Reading(d) \o g(d) \in Seq(M)
  <2> SUFFICES ASSUME NEW d \in Connections PROVE g(d) \in Seq(M) /\ Reading(d) \o g(d) \in Seq(M)
    OBVIOUS
  <2>1. Reading(d) \in Seq(M) /\ socket[d] \in Seq(M) /\ Upcoming(d) \in M
    BY PartsTyped
  <2>2. <<Upcoming(d)>> \in Seq(M)
    BY <2>1, SingleIncreasing
  <2>3. g(d) \in Seq(M)
    BY <2>1, <2>2, ConcatProperties
  <2> HIDE DEF g, M
  <2> QED BY <2>1, <2>3, ConcatProperties
<1>3. Old \in [Connections -> Seq(M)] /\ Rest \in [Connections -> Seq(M)]
  BY <1>2, PipelineTyped
<1>4. Ordered(broker, Connections, Old, New)
  <2>1. \A d \in Connections : /\ Outgoing(broker, Old, d) = Pipeline(d)
                               /\ Incoming(broker, New, d) = Arriving(d)
    BY DEF Outgoing, Incoming, Pipeline, Arriving
  <2> HIDE DEF Old, New
  <2> QED BY <2>1 DEF Ordered, OrderInv
<1>5. PICK p : p = packet[c]
  OBVIOUS
<1>6. PICK b : b = Round(broker, c, p)
  OBVIOUS
<1>7. TakenIn(Connections, New, c, p, Rest)
  BY <1>1, <1>5 DEF Reading, TakenIn
<1>8. Ordered(b, Connections, Old, Rest)
  <2> HIDE DEF Old, New, Rest, M
  <2>1. Sound(broker, Connections, Packets) /\ p \in Packets
    BY <1>1, <1>5 DEF BrokerInv
  <2>2. PICK a : a = broker
    OBVIOUS
  <2>3. Sound(a, Connections, Packets) /\ Ordered(a, Connections, Old, New) /\ b = Round(a, c, p)
    BY <1>4, <1>6, <2>1, <2>2
  <2> QED BY <1>3, <1>7, <2>1, <2>3, RoundOrder DEF M
<1>9. /\ b \in Brokers(Connections, Packets) /\ b.tx \in [Connections -> Seq(M)]
  <2>1. Sound(b, Connections, Packets)
    BY <1>1, <1>5, <1>6, ProcessOk
  <2> QED BY <2>1 DEF Sound, Brokers
<1>10. /\ broker'.rx = b.rx
       /\ \A d \in Connections : d # c => broker'.tx[d] = b.tx[d] /\ tx_packets'[d] = tx_packets[d]
       /\ \/ tx_packets'[c] = b.tx[c] /\ broker'.tx[c] = <<>>
          \/ tx_packets' = tx_packets /\ broker'.tx[c] = b.tx[c]
  <2>1. CASE RoundWorked(c, b)
    <3>0. PICK r : r = broker'
      OBVIOUS
    <3>1. r = DequeueAll(b, c)
      BY <2>1, <3>0 DEF RoundWorked
    <3>3. r.rx = b.rx /\ r.tx = [b.tx EXCEPT ![c] = <<>>]
      <4> HIDE DEF M, Old, New, Rest
      <4> QED BY <1>9, <3>1, DequeuedQueues
    <3>4. broker'.rx = b.rx /\ broker'.tx = [b.tx EXCEPT ![c] = <<>>]
      BY <3>0, <3>3, Zenon
    <3>2. tx_packets' = [tx_packets EXCEPT ![c] = b.tx[c]]
      BY <2>1 DEF RoundWorked
    <3> QED BY <1>0, <1>9, <3>2, <3>4
  <2>2. CASE RoundFailed(c, b)
    <3>0. PICK r : r = broker'
      OBVIOUS
    <3>1. r = MarkSessionDisconnected(b, c)
      BY <2>2, <3>0 DEF RoundFailed
    <3>2. r.rx = b.rx /\ r.tx = b.tx
      <4> HIDE DEF M, Old, New, Rest
      <4> QED BY <1>9, <3>1, MarkedQueues
    <3>3. broker'.rx = b.rx /\ broker'.tx = b.tx
      BY <3>0, <3>2, Zenon
    <3>4. UNCHANGED tx_packets
      BY <2>2 DEF RoundFailed
    <3> QED BY <3>3, <3>4
  <2> QED BY <1>5, <1>6, <2>1, <2>2, ProcessCases
<1>11. ASSUME NEW d \in Connections, d # c
       PROVE  Pipeline(d)' = Outgoing(b, Old, d) /\ Arriving(d)' = Incoming(b, Rest, d)
  <2>1. /\ pc'[d] = pc[d] /\ packet'[d] = packet[d] /\ broker'.rx[d] = b.rx[d]
        /\ broker'.tx[d] = b.tx[d] /\ tx_packets'[d] = tx_packets[d]
    BY <1>0, <1>1, <1>10, <1>11
  <2>2. Old[d] = w(d) /\ Rest[d] = Reading(d) \o g(d)
    BY <1>11
  <2>3. /\ received'[d] = received[d] /\ frames'[d] = frames[d]
        /\ socket'[d] = socket[d] /\ sent'[d] = sent[d]
    BY <1>1
  <2>4. Pipeline(d)' = w(d) \o b.tx[d]
    <3> HIDE DEF Old, New, Rest, M
    <3> QED BY <2>1, <2>3 DEF Pipeline
  <2>5. Reading(d)' = Reading(d) /\ Upcoming(d)' = Upcoming(d)
    <3> HIDE DEF Old, New, Rest, M
    <3> QED BY <2>1, <2>3 DEF Reading, Upcoming
  <2>6. Arriving(d)' = b.rx[d] \o (Reading(d) \o g(d))
    <3> HIDE DEF Old, New, Rest, M
    <3> QED BY <2>1, <2>3, <2>5, Zenon DEF Arriving
  <2> HIDE DEF Old, New, Rest, M, w, g
  <2> QED BY <2>2, <2>4, <2>6 DEF Outgoing, Incoming
<1>12. Pipeline(c)' = Outgoing(b, Old, c)
  <2>1. Outgoing(b, Old, c) = received[c] \o <<>> \o frames[c] \o tx_packets[c] \o b.tx[c]
    BY <1>1 DEF Outgoing
  <2>2. pc'[c] = "notify"
    BY <1>0, <1>1
  <2>3. CASE tx_packets'[c] = b.tx[c] /\ broker'.tx[c] = <<>>
    <3>1. b.tx[c] \in Seq(Replies(Packets))
      BY <1>9
    <3>2. Pipeline(c)' = received[c] \o <<>> \o frames[c] \o tx_packets[c] \o b.tx[c]
      BY <1>1, <2>2, <2>3, <3>1, QueueTaken
    <3> QED BY <2>1, <3>2, Zenon
  <2>4. CASE tx_packets' = tx_packets /\ broker'.tx[c] = b.tx[c]
    BY <1>1, <2>1, <2>2, <2>4 DEF Pipeline
  <2> QED BY <1>10, <2>3, <2>4
<1>13. Arriving(c)' = Incoming(b, Rest, c)
  <2>1. Arriving(c)' = b.rx[c] \o (<<>> \o g(c))
    BY <1>0, <1>1, <1>10 DEF Arriving, Reading, Upcoming
  <2>2. Incoming(b, Rest, c) = b.rx[c] \o g(c)
    BY DEF Incoming
  <2>3. <<>> \o g(c) = g(c)
    <3> HIDE DEF g
    <3> QED BY <1>2, ConcatEmptySeq
  <2> QED BY <2>1, <2>2, <2>3, Zenon
<1> HIDE DEF Old, New, Rest
<1>14. \A d \in Connections :
          Pipeline(d)' = Outgoing(b, Old, d) /\ Arriving(d)' = Incoming(b, Rest, d)
  BY <1>11, <1>12, <1>13
<1> QED BY <1>8, <1>14 DEF Ordered, OrderInv

(* What handlers, clients and the cleanup task do besides moving packets   *)
(* leaves the order alone.                                                 *)
LEMMA ElsewhereOrder ==
    ASSUME TypeInv, BrokerInv, OrderInv, NEW c \in Connections,
           \/ Accept(c) \/ Register(c) \/ InsertConnection(c) \/ NotifySession(c)
           \/ NotifyWaits(c) \/ NotifyContinues(c) \/ AllNotified(c) \/ AllSent(c)
           \/ ReceiveNotification(c) \/ Timeout(c) \/ RemoveNotification(c)
           \/ ClientCloses(c) \/ ClientStalls(c)
    PROVE  OrderInv'
<1>0. pc \in [Connections -> Stages]
  BY DEF TypeInv
<1>1. UNCHANGED <<packet, received, frames, tx_packets, socket, sent>>
  BY DEF Accept, Register, InsertConnection, NotifySession, NotifyWaits, NotifyContinues,
         AllNotified, AllSent, ReceiveNotification, Timeout, RemoveNotification,
         ClientCloses, ClientStalls, client, handler
<1>2. \A d \in Connections : /\ pc'[d] = "write" <=> pc[d] = "write"
                             /\ pc'[d] = "process" <=> pc[d] = "process"
  BY <1>0 DEF Accept, Register, InsertConnection, NotifySession, NotifyWaits, NotifyContinues,
         AllNotified, AllSent, ReceiveNotification, Timeout, RemoveNotification,
         ClientCloses, ClientStalls, handler, Go
<1>3. broker'.rx = broker.rx /\ broker'.tx = broker.tx
  <2>1. CASE Register(c)
    <3>1. PICK b, r : b = broker /\ r = broker'
      OBVIOUS
    <3>2. b \in Brokers(Connections, Packets) /\ r = RegisterNewSession(b, c)
      BY <2>1, <3>1 DEF Register, BrokerInv, Sound
    <3>3. r.rx = b.rx /\ r.tx = b.tx
      BY <3>2, RegisteredQueues
    <3> QED BY <3>1, <3>3, Zenon
  <2>2. CASE ~Register(c)
    <3>1. UNCHANGED broker
      BY <2>2 DEF Accept, InsertConnection, NotifySession, NotifyWaits, NotifyContinues,
             AllNotified, AllSent, ReceiveNotification, Timeout, RemoveNotification,
             ClientCloses, ClientStalls, shared
    <3> QED BY <3>1
  <2> QED BY <2>1, <2>2
<1>4. ASSUME NEW d \in Connections
      PROVE  Pipeline(d)' = Pipeline(d) /\ Arriving(d)' = Arriving(d)
  <2>1. Pipeline(d)' = Pipeline(d)
    BY <1>1, <1>2, <1>3 DEF Pipeline
  <2>2. Reading(d)' = Reading(d) /\ Upcoming(d)' = Upcoming(d)
    BY <1>1, <1>2 DEF Reading, Upcoming
  <2>3. Arriving(d)' = Arriving(d)
    BY <1>1, <1>3, <2>2 DEF Arriving
  <2> QED BY <2>1, <2>3
<1> QED BY <1>4, SameUnderWay

(* A handler removes its session, with what was still queued for it.       *)
LEMMA RemoveSessionOrder ==
    ASSUME TypeInv, BrokerInv, PlaceInv, OrderInv, NEW c \in Connections,
           RemoveBrokerSession(c)
    PROVE  OrderInv'
<1>1. /\ pc \in [Connections -> Stages] /\ broker \in Brokers(Connections, Packets)
      /\ broker.rx \in [Connections -> Seq(Packets)]
      /\ broker.tx \in [Connections -> Seq(Replies(Packets))]
  BY DEF TypeInv, BrokerInv, Sound, Brokers
<1>2. PICK b, r : b = broker /\ r = broker'
  OBVIOUS
<1>3. b \in Brokers(Connections, Packets) /\ r = RemoveSession(b, c)
  BY <1>1, <1>2 DEF RemoveBrokerSession
<1>4. r.rx = [b.rx EXCEPT ![c] = <<>>] /\ r.tx = [b.tx EXCEPT ![c] = <<>>]
  BY <1>3, RemovedQueue
<1>5. /\ broker'.rx = [broker.rx EXCEPT ![c] = <<>>]
      /\ broker'.tx = [broker.tx EXCEPT ![c] = <<>>]
  BY <1>2, <1>4, Zenon
<1>6. /\ pc[c] = "remove_session" /\ pc' = [pc EXCEPT ![c] = "done"]
      /\ UNCHANGED <<packet, tx_packets, frames, received, socket, sent>>
  BY DEF RemoveBrokerSession, Go, client
<1>7. \A d \in Connections : d \notin {c} => Untouched(d)
  BY <1>1, <1>5, <1>6 DEF Untouched
<1>8. \A d \in Connections : d \in {c} =>
         /\ received'[d] = received[d] /\ packet'[d] = packet[d]
         /\ (pc'[d] = "write" <=> pc[d] = "write")
         /\ (pc'[d] = "process" <=> pc[d] = "process")
         /\ frames'[d] = frames[d] /\ tx_packets'[d] = tx_packets[d]
         /\ broker'.tx[d] = <<>> /\ broker'.rx[d] = <<>>
         /\ socket'[d] = socket[d] /\ sent'[d] = sent[d]
  BY <1>1, <1>5, <1>6
<1> QED BY <1>7, <1>8, RemoveOrder

(* The cleanup task removes sessions under their handlers' feet.           *)
LEMMA CleanupOrder ==
    ASSUME TypeInv, BrokerInv, PlaceInv, OrderInv, NEW e, CleanupScan(e)
    PROVE  OrderInv'
<1>1. broker \in Brokers(Connections, Packets)
  BY DEF BrokerInv, Sound
<1>2. PICK b, r, gone : /\ b = broker /\ r = broker'
                        /\ gone = e \cup DisconnectedSessions(broker)
  OBVIOUS
<1>3. b \in Brokers(Connections, Packets) /\ r = RemoveSessions(b, gone)
  BY <1>1, <1>2 DEF CleanupScan
<1>4. /\ r.rx = [q \in Connections |-> IF q \in gone THEN <<>> ELSE b.rx[q]]
      /\ r.tx = [q \in Connections |-> IF q \in gone THEN <<>> ELSE b.tx[q]]
  BY <1>3, RemovedQueues
<1>5. \A d \in Connections :
         /\ d \in gone => broker'.tx[d] = <<>> /\ broker'.rx[d] = <<>>
         /\ d \notin gone => broker'.tx[d] = broker.tx[d] /\ broker'.rx[d] = broker.rx[d]
  BY <1>2, <1>4
<1>6. UNCHANGED <<pc, packet, tx_packets, frames, received, socket, sent>>
  BY DEF CleanupScan, handler, client
<1>7. \A d \in Connections : d \notin gone => Untouched(d)
  BY <1>5, <1>6 DEF Untouched
<1>8. \A d \in Connections : d \in gone =>
         /\ received'[d] = received[d] /\ packet'[d] = packet[d]
         /\ (pc'[d] = "write" <=> pc[d] = "write")
         /\ (pc'[d] = "process" <=> pc[d] = "process")
         /\ frames'[d] = frames[d] /\ tx_packets'[d] = tx_packets[d]
         /\ broker'.tx[d] = <<>> /\ broker'.rx[d] = <<>>
         /\ socket'[d] = socket[d] /\ sent'[d] = sent[d]
  BY <1>5, <1>6
<1> QED BY <1>7, <1>8, RemoveOrder

(* No step of the server puts a publisher's messages out of order.         *)
LEMMA OrderStep ==
    ASSUME TypeInv, BrokerInv, PlaceInv, OrderInv, [Next]_vars
    PROVE  OrderInv'
<1>1. ASSUME NEW c \in Connections, HandlerStep(c) PROVE OrderInv'
  BY <1>1, ElsewhereOrder, ReadOrder, ProcessOrder, SendMoves, DrainQueueOrder, LeaveOrder,
     RemoveSessionOrder DEF HandlerStep
<1>2. ASSUME NEW c \in Connections,
             \/ Accept(c) \/ Timeout(c) \/ ClientCloses(c) \/ ClientStalls(c)
      PROVE  OrderInv'
  BY <1>2, ElsewhereOrder
<1>3. ASSUME NEW c \in Connections, ClientSends(c) PROVE OrderInv'
  BY <1>3, ClientOrder
<1>4. ASSUME NEW e, CleanupScan(e) PROVE OrderInv'
  BY <1>4, CleanupOrder
<1>5. CASE UNCHANGED vars
  <2>1. \A d \in Connections : Untouched(d)
    BY <1>5 DEF vars, shared, handler, client, Untouched
  <2> QED BY <2>1, UntouchedLine, SameUnderWay
<1> QED BY <1>1, <1>2, <1>3, <1>4, <1>5 DEF Next

(* At the start nothing is under way.                                      *)
LEMMA InitOrder ==
    ASSUME Init
    PROVE  PlaceInv /\ OrderInv
<1>1. PlaceInv
  BY DEF Init, Each, PlaceInv
<1>2. broker.rx = [s \in Connections |-> <<>>] /\ broker.tx = [s \in Connections |-> <<>>]
  BY DEF Init, EmptyBroker
<1>3. ASSUME NEW c \in Connections
      PROVE  Pipeline(c) = <<>> /\ Arriving(c) = <<Upcoming(c)>>
  <2>1. Pipeline(c) = <<>>
    BY <1>2 DEF Init, Each, Pipeline
  <2>2. Arriving(c) = <<>> \o (<<>> \o (<<>> \o <<Upcoming(c)>>))
    BY <1>2 DEF Init, Each, Arriving, Reading
  <2>3. PICK u : u = <<Upcoming(c)>>
    OBVIOUS
  <2>4. u \in Seq({Upcoming(c)})
    BY <2>3
  <2>5. <<>> \o u = u
    BY <2>4, ConcatEmptySeq
  <2> QED BY <2>1, <2>2, <2>3, <2>5, Zenon
<1>4. ASSUME NEW c \in Connections
      PROVE  /\ Range(Pipeline(c)) = {} /\ Increasing(Pipeline(c))
             /\ Range(Arriving(c)) = {Upcoming(c)} /\ Increasing(Arriving(c))
  <2>1. Range(<<>>) = {} /\ Increasing(<<>>)
    BY DEF Range, Increasing
  <2>2. PICK u : u = Upcoming(c)
    OBVIOUS
  <2>3. Range(<<u>>) = {u} /\ Increasing(<<u>>)
    BY SingleIncreasing
  <2> QED BY <1>3, <2>1, <2>2, <2>3, Zenon
<1>5. \A c \in Connections : Upcoming(c).from = c
  BY DEF Upcoming
<1> QED BY <1>1, <1>4, <1>5 DEF OrderInv, Before

(* For any connections, capacities and packets, and whatever fails: what a *)
(* client has got, what is being written to it and what waits for it in    *)
(* the frame channel, in its handler and in the broker's queue is, in this *)
(* order, what each publisher has published, in order and without repeats  *)
(* (handler.rs handle_connection, broker.rs).                              *)
THEOREM MessagesInOrder == Spec => []InOrderToClient
<1> DEFINE I == Inv /\ PlaceInv /\ OrderInv
<1>1. Init => I
  BY InitInv, InitOrder
<1>2. I /\ [Next]_vars => I'
  <2> SUFFICES ASSUME I, [Next]_vars PROVE I'
    OBVIOUS
  <2>1. TypeInv /\ BrokerInv
    BY DEF Inv
  <2>2. Inv'
    BY StepInv
  <2>3. PlaceInv'
    BY <2>1, PlaceStep
  <2>4. OrderInv'
    BY <2>1, OrderStep
  <2> QED BY <2>2, <2>3, <2>4
<1>3. I => InOrderToClient
  BY DEF OrderInv, Increasing, Older, InOrderToClient
<1> QED BY <1>1, <1>2, <1>3, PTL DEF Spec
=============================================================================
