------------------------ MODULE EmbassyServerProofs ------------------------
(***************************************************************************)
(* Proofs about the RP2040 server, for every number of slots, connections  *)
(* and packets and every layout of the packets: the types, that an accept  *)
(* task never finds the broker full, that no wake-up is lost, that the     *)
(* buffer has room whenever the task waits for its socket, and that what is*)
(* delivered has no gaps.                                                  *)
(***************************************************************************)
EXTENDS EmbassyServer, BrokerRoundProofs

-----------------------------------------------------------------------------
(* The inductive invariant. *)

(* What clients send, and the units it arrives in. *)
Packets == [type : DOMAIN Layout, qos : {0}, from : Sessions, seq : Nat]

Pieces == [p : Packets, i : Nat]

Stages == {"accept", "register", "register_slot", "select", "read_packet", "process", "notify",
           "write", "flush", "unregister", "remove_session"}

(* Every variable has its type, and no vector holds more than its capacity;*)
(* the buffer has room everywhere but in read_packet and after the loop.   *)
TypeInv ==
    /\ next_id \in 1 .. MaxAccepted + 1
    /\ session \in [Slots -> 0 .. MaxAccepted]
    /\ token \in [Slots -> BOOLEAN]
    /\ pc \in [Slots -> Stages]
    /\ rx_buffer \in [Slots -> Seq(Pieces)]
    /\ socket \in [Slots -> Seq(Pieces)] /\ unsent \in [Slots -> Seq(Pieces)]
    /\ packet \in [Slots -> Packets \cup {NoPacket}]
    /\ to_notify \in [Slots -> Seq(Sessions)]
    /\ tx_packets \in [Slots -> Seq(Replies(Packets))]
    /\ sent \in [Slots -> Nat]
    /\ \A k \in Slots :
         /\ Len(rx_buffer[k]) <= RX_BUFFER_SIZE
         /\ Len(tx_packets[k]) <= TX_PACKETS
         /\ pc[k] = "process" => packet[k] \in Packets
         /\ pc[k] \in {"register", "register_slot", "select", "process", "notify", "write",
                       "flush"}
            => Len(rx_buffer[k]) < RX_BUFFER_SIZE
         /\ pc[k] # "accept" => session[k] # 0

BrokerInv == Sound(broker, Sessions, Packets)

(* A session belongs to one slot, whose entry in the registry follows it.  *)
SlotInv ==
    /\ ids \in [Slots -> 0 .. MaxAccepted]
    /\ \A k, j \in Slots : session[k] = session[j] /\ session[k] # 0 => k = j
    /\ \A k \in Slots :
         /\ session[k] < next_id
         /\ InLoop(k) => ids[k] = session[k]
         /\ session[k] = 0 \/ pc[k] = "remove_session" => ids[k] = 0

(* The broker holds sessions of slots only, and a session that has not     *)
(* entered its loop, or has no slot yet, is quiet.                         *)
HoldsInv ==
    /\ \A s \in Range(broker.sessions) :
         \E j \in Slots : session[j] = s /\ pc[j] \notin {"accept", "register"}
    /\ \A k \in Slots :
         pc[k] \in {"register", "register_slot"} => Quiet(broker, session[k])
    /\ \A s \in Sessions : s >= next_id => Quiet(broker, s)

Inv == TypeInv /\ BrokerInv /\ SlotInv /\ HoldsInv /\ WakeUpNotLost

-----------------------------------------------------------------------------
(* Clients, and what arrives of their packets. *)

(* The units a client writes are pieces of packets.                        *)
LEMMA UnitsTyped ==
    ASSUME TypeInv, NEW k \in Slots, session[k] # 0, NEW p \in ClientPackets(k)
    PROVE  /\ p \in Packets
           /\ Units(p) \in Seq(Pieces) /\ Len(Units(p)) = Layout[p.type].total
           /\ Layout[p.type].total \in Nat
<1> USE EmbassyAssumption
<1>1. session[k] \in Sessions /\ sent[k] + 1 \in Nat
  BY DEF TypeInv, Sessions
<1>2. PICK t \in ClientKinds[session[k]] :
        p = [type |-> t, qos |-> 0, from |-> session[k], seq |-> sent[k] + 1]
  BY DEF ClientPackets
<1>3. t \in DOMAIN Layout
  BY <1>1, <1>2
<1>4. p \in Packets /\ p.type = t
  BY <1>1, <1>2, <1>3 DEF Packets
<1>5. Layout[t].total \in Nat
  BY <1>3
<1>6. Units(p) \in [1 .. Layout[t].total -> Pieces]
  BY <1>4, <1>5 DEF Units, Pieces
<1>7. Units(p) \in Seq(Pieces) /\ Len(Units(p)) = Layout[t].total
  BY <1>5, <1>6, SeqDef, LenProperties
<1> QED BY <1>4, <1>5, <1>7

(* A read moves units from the socket to the buffer, as far as there is    *)
(* room (io.rs, socket.read into the rest of rx_buffer).                   *)
LEMMA ReadSocketTyped ==
    ASSUME TypeInv, NEW k \in Slots, ReadSocket(k)
    PROVE  /\ rx_buffer' \in [Slots -> Seq(Pieces)] /\ socket' \in [Slots -> Seq(Pieces)]
           /\ Len(rx_buffer'[k]) <= RX_BUFFER_SIZE
           /\ \A j \in Slots : j # k => rx_buffer'[j] = rx_buffer[j]
<1> USE EmbassyAssumption
<1>1. PICK n \in 1 .. Room(k) :
        /\ n <= Len(socket[k])
        /\ rx_buffer' = [rx_buffer EXCEPT ![k] = @ \o SubSeq(socket[k], 1, n)]
        /\ socket' = [socket EXCEPT ![k] = SubSeq(@, n + 1, Len(@))]
  BY DEF ReadSocket
<1>2. /\ rx_buffer \in [Slots -> Seq(Pieces)] /\ socket \in [Slots -> Seq(Pieces)]
      /\ rx_buffer[k] \in Seq(Pieces) /\ socket[k] \in Seq(Pieces)
      /\ Len(rx_buffer[k]) \in Nat /\ Len(socket[k]) \in Nat
  BY LenProperties DEF TypeInv
<1>3. n \in Nat /\ n >= 1 /\ n <= RX_BUFFER_SIZE - Len(rx_buffer[k])
  BY <1>1, <1>2 DEF Room
<1> DEFINE a == SubSeq(socket[k], 1, n)
           r == SubSeq(socket[k], n + 1, Len(socket[k]))
           f == rx_buffer[k] \o a
<1>4. a \in Seq(Pieces) /\ Len(a) = n
  BY <1>1, <1>2, <1>3, SubSeqProperties
<1>5. r \in Seq(Pieces)
  BY <1>1, <1>2, <1>3, SubSeqProperties
<1> HIDE DEF a, r
<1>6. f \in Seq(Pieces) /\ Len(f) = Len(rx_buffer[k]) + n
  BY <1>2, <1>4, ConcatProperties
<1>7. Len(f) <= RX_BUFFER_SIZE
  BY <1>2, <1>3, <1>6
<1>8. rx_buffer' = [rx_buffer EXCEPT ![k] = f] /\ socket' = [socket EXCEPT ![k] = r]
  BY <1>1 DEF a, r
<1> HIDE DEF f
<1> QED BY <1>2, <1>5, <1>6, <1>7, <1>8

(* What a packet leaves in the buffer is at least two units shorter.       *)
LEMMA DecodedTyped ==
    ASSUME TypeInv, NEW k \in Slots, Len(rx_buffer[k]) >= 2, Complete(k)
    PROVE  /\ First(k) \in Packets
           /\ Decoded(k) \in Seq(Pieces) /\ Len(Decoded(k)) < RX_BUFFER_SIZE
<1> USE EmbassyAssumption
<1>1. /\ rx_buffer[k] \in Seq(Pieces) /\ Len(rx_buffer[k]) \in Nat
      /\ Len(rx_buffer[k]) <= RX_BUFFER_SIZE
  BY LenProperties DEF TypeInv
<1>2. rx_buffer[k][1] \in Pieces
  BY <1>1, ElementOfSeq
<1>3. First(k) \in Packets /\ First(k).type \in DOMAIN Layout
  BY <1>2 DEF First, Pieces, Packets
<1> DEFINE m == Layout[First(k).type].total
<1>4. m \in Nat /\ m >= 2
  BY <1>3
<1>5. m <= Len(rx_buffer[k])
  BY <1>1, <1>4 DEF Complete
<1>6. Decoded(k) = SubSeq(rx_buffer[k], m + 1, Len(rx_buffer[k]))
  BY DEF Decoded
<1> HIDE DEF m
<1>7. /\ SubSeq(rx_buffer[k], m + 1, Len(rx_buffer[k])) \in Seq(Pieces)
      /\ Len(SubSeq(rx_buffer[k], m + 1, Len(rx_buffer[k]))) = Len(rx_buffer[k]) - m
  <2>1. \A j \in (m + 1) .. Len(rx_buffer[k]) : j \in 1 .. Len(rx_buffer[k])
    BY <1>4
  <2>2. /\ SubSeq(rx_buffer[k], m + 1, Len(rx_buffer[k])) \in Seq(Pieces)
        /\ Len(SubSeq(rx_buffer[k], m + 1, Len(rx_buffer[k]))) =
             IF m + 1 <= Len(rx_buffer[k]) THEN Len(rx_buffer[k]) - (m + 1) + 1 ELSE 0
    BY <1>1, <1>4, <2>1, SubSeqProperties
  <2> QED BY <1>1, <1>4, <1>5, <2>2
<1> QED BY <1>1, <1>3, <1>4, <1>6, <1>7

-----------------------------------------------------------------------------
(* The sections under the broker's lock. *)

(* Packets collected into the vector are packets of the queue, as many as  *)
(* the vector holds (handler.rs, the heapless vector of 8).                *)
LEMMA CollectTyped ==
    ASSUME NEW S, NEW q \in Seq(S)
    PROVE  Collect(q) \in Seq(S) /\ Len(Collect(q)) <= TX_PACKETS
<1> USE EmbassyAssumption
<1>1. Len(q) \in Nat
  BY LenProperties
<1> DEFINE n == IF Len(q) < TX_PACKETS THEN Len(q) ELSE TX_PACKETS
<1>2. n \in Nat /\ n <= Len(q) /\ n <= TX_PACKETS
  BY <1>1
<1>3. Collect(q) = SubSeq(q, 1, n)
  BY DEF Collect
<1> HIDE DEF n
<1>4. SubSeq(q, 1, n) \in Seq(S) /\ Len(SubSeq(q, 1, n)) = n
  <2>1. \A j \in 1 .. n : j \in 1 .. Len(q)
    BY <1>1, <1>2
  <2>2. /\ SubSeq(q, 1, n) \in Seq(S)
        /\ Len(SubSeq(q, 1, n)) = IF 1 <= n THEN n - 1 + 1 ELSE 0
    BY <1>1, <1>2, <2>1, SubSeqProperties
  <2> QED BY <1>2, <2>2
<1> QED BY <1>2, <1>3, <1>4

(* What a round does, and what it gives the task.                          *)
LEMMA ProcessOk ==
    ASSUME TypeInv, BrokerInv, NEW k \in Slots, pc[k] = "process",
           NEW b, b = Round(broker, session[k], packet[k])
    PROVE  /\ session[k] \in Sessions
           /\ Sound(b, Sessions, Packets)
           /\ b.sessions = broker.sessions
           /\ \A q \in Sessions : q # session[k] /\ Quiet(broker, q) => Quiet(b, q)
           /\ b.tx[session[k]] \in Seq(Replies(Packets))
           /\ SessionsWithPending(b) \in Seq(Sessions)
           /\ Range(SessionsWithPending(b)) = {s \in Range(broker.sessions) : b.tx[s] # <<>>}
<1>1. packet[k] \in Packets /\ session[k] \in Sessions
  BY EmbassyAssumption DEF TypeInv, Sessions
<1>2. /\ Sound(b, Sessions, Packets)
      /\ b.sessions = broker.sessions
      /\ \A q \in Sessions : q # session[k] /\ Quiet(broker, q) => Quiet(b, q)
  BY <1>1, RoundSound DEF BrokerInv
<1>3. b.tx[session[k]] \in Seq(Replies(Packets))
  BY <1>1, <1>2 DEF Sound, Brokers
<1>4. /\ SessionsWithPending(b) \in Seq(Sessions)
      /\ Range(SessionsWithPending(b)) = {s \in Range(b.sessions) : b.tx[s] # <<>>}
  BY <1>2, PendingSessions
<1> QED BY <1>1, <1>2, <1>3, <1>4

(* The two ends of the section. *)
RoundWorked(k, b) ==
    /\ to_notify' = Set(to_notify, k, SessionsWithPending(b))
    /\ tx_packets' = Set(tx_packets, k, Collect(b.tx[session[k]]))
    /\ broker' = DequeueAll(b, session[k])
    /\ Go(k, "notify")
    /\ failed' = failed

RoundFailed(k, b) ==
    /\ broker' = MarkSessionDisconnected(b, session[k])
    /\ failed' = TRUE
    /\ Go(k, "unregister")
    /\ to_notify' = to_notify /\ tx_packets' = tx_packets

(* The round went well, or the session is marked and the loop is left      *)
(* (handler.rs, the match on the result).                                  *)
LEMMA ProcessCases ==
    ASSUME NEW k, Process(k), NEW b, b = Round(broker, session[k], packet[k])
    PROVE  RoundWorked(k, b) \/ RoundFailed(k, b)
<1>1. \E a \in {Round(broker, session[k], packet[k])} :
         IF a.result = "Ok"
         THEN /\ to_notify' = Set(to_notify, k, SessionsWithPending(a))
              /\ tx_packets' = Set(tx_packets, k, Collect(a.tx[session[k]]))
              /\ broker' = DequeueAll(a, session[k])
              /\ Go(k, "notify")
              /\ UNCHANGED failed
         ELSE /\ broker' = MarkSessionDisconnected(a, session[k])
              /\ failed' = TRUE
              /\ Go(k, "unregister")
              /\ UNCHANGED <<to_notify, tx_packets>>
  BY Zenon DEF Process
<1>2. PICK a : a = b /\
         IF a.result = "Ok"
         THEN /\ to_notify' = Set(to_notify, k, SessionsWithPending(a))
              /\ tx_packets' = Set(tx_packets, k, Collect(a.tx[session[k]]))
              /\ broker' = DequeueAll(a, session[k])
              /\ Go(k, "notify")
              /\ UNCHANGED failed
         ELSE /\ broker' = MarkSessionDisconnected(a, session[k])
              /\ failed' = TRUE
              /\ Go(k, "unregister")
              /\ UNCHANGED <<to_notify, tx_packets>>
  BY <1>1, Zenon
<1>3. CASE a.result = "Ok"
  BY <1>2, <1>3, Zenon DEF RoundWorked
<1>4. CASE a.result # "Ok"
  <2>1. UNCHANGED <<to_notify, tx_packets>>
    BY <1>2, <1>4, Zenon
  <2>2. to_notify' = to_notify /\ tx_packets' = tx_packets
    BY <2>1
  <2> QED BY <1>2, <1>4, <2>2, Zenon DEF RoundFailed
<1> QED BY <1>3, <1>4

-----------------------------------------------------------------------------
(* Types. *)

(* Every step keeps the types and the capacities.                          *)
LEMMA TypeStep ==
    ASSUME TypeInv, BrokerInv, [Next]_vars
    PROVE  TypeInv'
<1> USE EmbassyAssumption
<1>e. \A S : <<>> \in Seq(S) /\ Len(<<>>) = 0
  OBVIOUS
<1>1. ASSUME NEW k \in Slots, Accept(k) PROVE TypeInv'
  <2>1. /\ next_id' \in 1 .. MaxAccepted + 1 /\ next_id \in 0 .. MaxAccepted /\ next_id # 0
        /\ session' \in [Slots -> 0 .. MaxAccepted]
    BY <1>1 DEF Accept, Set, TypeInv
  <2>2. /\ rx_buffer' \in [Slots -> Seq(Pieces)] /\ socket' \in [Slots -> Seq(Pieces)]
        /\ unsent' \in [Slots -> Seq(Pieces)] /\ tx_packets' \in [Slots -> Seq(Replies(Packets))]
        /\ sent' \in [Slots -> Nat]
    BY <1>1, <1>e DEF Accept, Set, TypeInv
  <2>3. /\ pc' = [pc EXCEPT ![k] = "register"] /\ session' = [session EXCEPT ![k] = next_id]
        /\ rx_buffer' = [rx_buffer EXCEPT ![k] = <<>>]
        /\ tx_packets' = [tx_packets EXCEPT ![k] = <<>>]
        /\ UNCHANGED <<token, packet, to_notify>>
    BY <1>1 DEF Accept, Set, Go, registry
  <2>4. 0 < RX_BUFFER_SIZE /\ 0 <= TX_PACKETS
    OBVIOUS
  <2>5. pc' \in [Slots -> Stages]
    BY <2>3 DEF TypeInv, Stages
  <2>6. ASSUME NEW j \in Slots
        PROVE  /\ Len(rx_buffer'[j]) <= RX_BUFFER_SIZE /\ Len(tx_packets'[j]) <= TX_PACKETS
               /\ pc'[j] = "process" => packet'[j] \in Packets
               /\ pc'[j] \in {"register", "register_slot", "select", "process", "notify",
                              "write", "flush"}
                  => Len(rx_buffer'[j]) < RX_BUFFER_SIZE
               /\ pc'[j] # "accept" => session'[j] # 0
    <3>1. CASE j = k
      <4>1. /\ rx_buffer'[j] = <<>> /\ tx_packets'[j] = <<>> /\ pc'[j] = "register"
            /\ session'[j] = next_id
        BY <2>3, <3>1 DEF TypeInv
      <4> QED BY <1>e, <2>1, <2>4, <4>1
    <3>2. CASE j # k
      <4>1. /\ rx_buffer'[j] = rx_buffer[j] /\ tx_packets'[j] = tx_packets[j]
            /\ pc'[j] = pc[j] /\ session'[j] = session[j] /\ packet'[j] = packet[j]
        BY <2>3, <3>2 DEF TypeInv
      <4> QED BY <4>1 DEF TypeInv
    <3> QED BY <3>1, <3>2
  <2> QED BY <2>1, <2>2, <2>3, <2>5, <2>6 DEF TypeInv
<1>2. ASSUME NEW k \in Slots, Register(k) PROVE TypeInv'
  BY <1>2 DEF Register, Go, TypeInv, Stages, client, registry
<1>3. ASSUME NEW k \in Slots, RegisterSession(k) PROVE TypeInv'
  BY <1>3 DEF RegisterSession, Go, TypeInv, Stages, client
<1>4. ASSUME NEW k \in Slots, SelectRead(k) \/ ReadMore(k) PROVE TypeInv'
  <2>1. /\ ReadSocket(k) /\ pc[k] # "accept" /\ pc' = [pc EXCEPT ![k] = "read_packet"]
        /\ UNCHANGED <<next_id, session, token, packet, to_notify, tx_packets, unsent, sent>>
    BY <1>4 DEF SelectRead, ReadMore, ReadSocket, Go, registry
  <2>2. /\ rx_buffer' \in [Slots -> Seq(Pieces)] /\ socket' \in [Slots -> Seq(Pieces)]
        /\ Len(rx_buffer'[k]) <= RX_BUFFER_SIZE
        /\ \A j \in Slots : j # k => rx_buffer'[j] = rx_buffer[j]
    BY <2>1, ReadSocketTyped
  <2> QED BY <2>1, <2>2 DEF TypeInv, Stages
<1>5. ASSUME NEW k \in Slots, ReadNothing(k) PROVE TypeInv'
  <2>1. Len(rx_buffer[k]) < RX_BUFFER_SIZE
    <3>1. Len(rx_buffer[k]) < 2 /\ Len(rx_buffer[k]) \in Nat
      BY <1>5, LenProperties DEF ReadNothing, TypeInv
    <3> QED BY <3>1
  <2> QED BY <1>5, <2>1 DEF ReadNothing, Go, TypeInv, Stages, client, registry
<1>6. ASSUME NEW k \in Slots, ReadFails(k) \/ Leave(k) \/ Timeout(k) PROVE TypeInv'
  BY <1>6 DEF ReadFails, Leave, Timeout, Go, TypeInv, Stages, client, registry
<1>7. ASSUME NEW k \in Slots, ReadPacket(k) PROVE TypeInv'
  <2>1. /\ First(k) \in Packets
        /\ Decoded(k) \in Seq(Pieces) /\ Len(Decoded(k)) < RX_BUFFER_SIZE
    BY <1>7, DecodedTyped DEF ReadPacket
  <2>2. Len(Decoded(k)) <= RX_BUFFER_SIZE
    BY <2>1, LenProperties
  <2> DEFINE d == Decoded(k)
             p == First(k)
  <2>3. /\ packet' = [packet EXCEPT ![k] = p] /\ rx_buffer' = [rx_buffer EXCEPT ![k] = d]
        /\ pc' = [pc EXCEPT ![k] = "process"] /\ pc[k] = "read_packet"
        /\ UNCHANGED <<next_id, session, token, socket, unsent, to_notify, tx_packets, sent>>
    BY <1>7 DEF ReadPacket, Set, Go, client, registry
  <2> HIDE DEF d, p
  <2>4. p \in Packets /\ d \in Seq(Pieces) /\ Len(d) < RX_BUFFER_SIZE /\ Len(d) <= RX_BUFFER_SIZE
    BY <2>1, <2>2 DEF d, p
  <2> QED BY <2>3, <2>4 DEF TypeInv, Stages
<1>8. ASSUME NEW k \in Slots, Process(k) PROVE TypeInv'
  <2>1. PICK b : b = Round(broker, session[k], packet[k])
    OBVIOUS
  <2>2. b.tx[session[k]] \in Seq(Replies(Packets)) /\ SessionsWithPending(b) \in Seq(Sessions)
    <3>1. pc[k] = "process"
      BY <1>8 DEF Process
    <3> QED BY <2>1, <3>1, ProcessOk
  <2>3. PICK q : q = Collect(b.tx[session[k]])
    OBVIOUS
  <2>4. q \in Seq(Replies(Packets)) /\ Len(q) <= TX_PACKETS
    BY <2>2, <2>3, CollectTyped
  <2>5. /\ packet' = [packet EXCEPT ![k] = NoPacket] /\ pc[k] = "process"
        /\ UNCHANGED <<next_id, session, token, rx_buffer, socket, unsent, sent>>
    BY <1>8 DEF Process, Set, client, registry
  <2>6. CASE RoundWorked(k, b)
    BY <2>2, <2>3, <2>4, <2>5, <2>6 DEF RoundWorked, Set, Go, TypeInv, Stages
  <2>7. CASE RoundFailed(k, b)
    BY <2>5, <2>7 DEF RoundFailed, Go, TypeInv, Stages
  <2> QED BY <1>8, <2>1, <2>6, <2>7, ProcessCases
<1>9. ASSUME NEW k \in Slots, NotifySession(k) PROVE TypeInv'
  <2>1. to_notify[k] \in Seq(Sessions) /\ to_notify[k] # <<>>
    BY <1>9 DEF NotifySession, TypeInv
  <2>2. Tail(to_notify[k]) \in Seq(Sessions)
    BY <2>1, TailElements
  <2>3. token' \in [Slots -> BOOLEAN]
    BY <1>9, Zenon DEF NotifySession
  <2>4. to_notify' \in [Slots -> Seq(Sessions)]
    BY <1>9, <2>2 DEF NotifySession, TypeInv
  <2> QED BY <1>9, <2>3, <2>4 DEF NotifySession, TypeInv, client
<1>10. ASSUME NEW k \in Slots, AllNotified(k) \/ AllWritten(k) PROVE TypeInv'
  BY <1>10 DEF AllNotified, AllWritten, Go, TypeInv, Stages, client, registry
<1>11. ASSUME NEW k \in Slots, WritePacket(k) PROVE TypeInv'
  <2>1. tx_packets[k] \in Seq(Replies(Packets)) /\ tx_packets[k] # <<>>
        /\ Len(tx_packets[k]) \in Nat /\ Len(tx_packets[k]) <= TX_PACKETS
    BY <1>11, LenProperties DEF WritePacket, TypeInv
  <2>2. /\ Tail(tx_packets[k]) \in Seq(Replies(Packets))
        /\ Len(Tail(tx_packets[k])) = Len(tx_packets[k]) - 1
    BY <2>1, TailElements
  <2>3. Len(Tail(tx_packets[k])) <= TX_PACKETS
    BY <2>1, <2>2
  <2> QED BY <1>11, <2>2, <2>3 DEF WritePacket, TypeInv, registry
<1>12. ASSUME NEW k \in Slots, WriteError(k) PROVE TypeInv'
  <2>1. Len(<<>>) <= TX_PACKETS
    OBVIOUS
  <2> QED BY <1>12, <1>e, <2>1 DEF WriteError, Set, TypeInv, client, registry
<1>13. ASSUME NEW k \in Slots, ReceiveNotification(k) PROVE TypeInv'
  BY <1>13 DEF ReceiveNotification, Set, Go, TypeInv, Stages, client
<1>14. ASSUME NEW k \in Slots, Flush(k) PROVE TypeInv'
  <2>1. broker.tx[session[k]] \in Seq(Replies(Packets))
    <3>1. session[k] \in Sessions
      BY <1>14 DEF Flush, TypeInv, Sessions
    <3> QED BY <3>1 DEF BrokerInv, Sound, Brokers
  <2>2. PICK q : q = Collect(broker.tx[session[k]])
    OBVIOUS
  <2>3. q \in Seq(Replies(Packets)) /\ Len(q) <= TX_PACKETS
    BY <2>1, <2>2, CollectTyped
  <2> QED BY <1>14, <2>2, <2>3 DEF Flush, Set, Go, TypeInv, Stages, client, registry
<1>15. ASSUME NEW k \in Slots, UnregisterSession(k) PROVE TypeInv'
  BY <1>15 DEF UnregisterSession, Go, TypeInv, Stages, client
<1>16. ASSUME NEW k \in Slots, RemoveBrokerSession(k) PROVE TypeInv'
  BY <1>16 DEF RemoveBrokerSession, Set, Go, TypeInv, Stages, client, registry
<1>17. ASSUME NEW e, CleanupScan(e) PROVE TypeInv'
  BY <1>17 DEF CleanupScan, TypeInv, client, registry, task
<1>18. ASSUME NEW k \in Slots, ClientSends(k) PROVE TypeInv'
  <2>1. PICK p \in ClientPackets(k) : \E n \in 1 .. Layout[p.type].total :
          /\ socket' = [socket EXCEPT ![k] = @ \o SubSeq(Units(p), 1, n)]
          /\ unsent' = Set(unsent, k, SubSeq(Units(p), n + 1, Layout[p.type].total))
    BY <1>18 DEF ClientSends
  <2>2. /\ Units(p) \in Seq(Pieces) /\ Len(Units(p)) = Layout[p.type].total
        /\ Layout[p.type].total \in Nat
    BY <1>18, UnitsTyped DEF ClientSends
  <2> DEFINE m == Layout[p.type].total
             u == Units(p)
  <2>3. PICK n \in 1 .. m :
          /\ socket' = [socket EXCEPT ![k] = @ \o SubSeq(u, 1, n)]
          /\ unsent' = [unsent EXCEPT ![k] = SubSeq(u, n + 1, m)]
    BY <2>1 DEF Set
  <2>4. u \in Seq(Pieces) /\ Len(u) = m /\ m \in Nat
    BY <2>2
  <2> HIDE DEF m, u
  <2>5. \A i \in 1 .. m : u[i] \in Pieces
    BY <2>4, ElementOfSeq
  <2>6. SubSeq(u, 1, n) \in Seq(Pieces) /\ SubSeq(u, n + 1, m) \in Seq(Pieces)
    <3>1. (\A i \in 1 .. n : u[i] \in Pieces) /\ (\A i \in (n + 1) .. m : u[i] \in Pieces)
      BY <2>4, <2>5
    <3>2. n \in Int /\ n + 1 \in Int /\ m \in Int /\ 1 \in Int
      BY <2>4
    <3>3. SubSeq(u, 1, n) \in Seq(Pieces)
      BY <3>1, <3>2, SubSeqProperties
    <3>4. SubSeq(u, n + 1, m) \in Seq(Pieces)
      BY <3>1, <3>2, SubSeqProperties
    <3> QED BY <3>3, <3>4
  <2>7. socket[k] \o SubSeq(u, 1, n) \in Seq(Pieces)
    BY <2>6, ConcatProperties DEF TypeInv
  <2>8. socket' \in [Slots -> Seq(Pieces)] /\ unsent' \in [Slots -> Seq(Pieces)]
    BY <2>3, <2>6, <2>7 DEF TypeInv
  <2>9. UNCHANGED <<next_id, session, token, pc, rx_buffer, packet, to_notify, tx_packets>>
    BY <1>18 DEF ClientSends, registry, task
  <2>10. sent' \in [Slots -> Nat]
    <3>1. sent \in [Slots -> Nat] /\ sent' = [sent EXCEPT ![k] = @ + 1]
      BY <1>18 DEF ClientSends, TypeInv
    <3> QED BY <3>1
  <2> QED BY <2>8, <2>9, <2>10 DEF TypeInv
<1>19. ASSUME NEW k \in Slots, ClientContinues(k) PROVE TypeInv'
  <2>1. socket[k] \o unsent[k] \in Seq(Pieces)
    BY ConcatProperties DEF TypeInv
  <2> QED BY <1>19, <1>e, <2>1 DEF ClientContinues, Set, TypeInv, registry, task
<1>20. ASSUME NEW k \in Slots, ClientCloses(k) \/ ClientStalls(k) PROVE TypeInv'
  BY <1>20 DEF ClientCloses, ClientStalls, TypeInv, registry, task
<1>21. CASE UNCHANGED vars
  BY <1>21 DEF vars, TypeInv, registry, task, client
<1> QED BY <1>1, <1>2, <1>3, <1>4, <1>5, <1>6, <1>7, <1>8, <1>9, <1>10, <1>11, <1>12, <1>13,
           <1>14, <1>15, <1>16, <1>17, <1>18, <1>19, <1>20, <1>21
        DEF Next, TaskStep

-----------------------------------------------------------------------------
(* The broker. *)

(* Only these steps touch the broker (the others never hold its lock).     *)
LEMMA BrokerCalls ==
    ASSUME [Next]_vars
    PROVE  \/ UNCHANGED broker
           \/ \E k \in Slots :
                Register(k) \/ Process(k) \/ Flush(k) \/ RemoveBrokerSession(k)
           \/ \E e : CleanupScan(e)
<1>1. UNCHANGED vars => UNCHANGED broker
  BY DEF vars
<1>2. ASSUME NEW k \in Slots
      PROVE  \/ Accept(k) \/ RegisterSession(k) \/ SelectRead(k) \/ ReadMore(k)
             \/ ReadNothing(k) \/ ReadFails(k) \/ ReadPacket(k) \/ NotifySession(k)
             \/ AllNotified(k) \/ WritePacket(k) \/ WriteError(k) \/ AllWritten(k)
             \/ ReceiveNotification(k) \/ Leave(k) \/ Timeout(k) \/ UnregisterSession(k)
             \/ ClientSends(k) \/ ClientContinues(k) \/ ClientCloses(k) \/ ClientStalls(k)
             => UNCHANGED broker
  BY DEF Accept, RegisterSession, SelectRead, ReadMore, ReadSocket, ReadNothing, ReadFails,
         ReadPacket, NotifySession, AllNotified, WritePacket, WriteError, AllWritten,
         ReceiveNotification, Leave, Timeout, UnregisterSession, ClientSends,
         ClientContinues, ClientCloses, ClientStalls
<1> QED BY <1>1, <1>2, Zenon DEF Next, TaskStep

(* A slot that registers has a session the broker does not know yet.       *)
LEMMA RegistersNew ==
    ASSUME TypeInv, SlotInv, HoldsInv, NEW k \in Slots, pc[k] = "register"
    PROVE  session[k] \in Sessions /\ session[k] \notin Range(broker.sessions)
<1>1. session[k] \in Sessions /\ session[k] # 0
  BY EmbassyAssumption DEF TypeInv, Sessions
<1> QED BY <1>1 DEF SlotInv, HoldsInv

(* Every call of a task keeps the broker sound.                            *)
LEMMA BrokerStep ==
    ASSUME TypeInv, BrokerInv, SlotInv, HoldsInv, [Next]_vars
    PROVE  BrokerInv'
<1>0. \A k \in Slots : pc[k] # "accept" => session[k] \in Sessions
  BY EmbassyAssumption DEF TypeInv, Sessions
<1>1. ASSUME NEW k \in Slots, Register(k) PROVE BrokerInv'
  <2>1. session[k] \in Sessions /\ session[k] \notin Range(broker.sessions)
    BY <1>1, RegistersNew DEF Register
  <2>2. broker' = RegisterNewSession(broker, session[k])
    BY <1>1 DEF Register
  <2> QED BY <2>1, <2>2, RegisterSound DEF BrokerInv
<1>2. ASSUME NEW k \in Slots, Process(k) PROVE BrokerInv'
  <2>1. PICK b : b = Round(broker, session[k], packet[k])
    OBVIOUS
  <2>2. Sound(b, Sessions, Packets) /\ session[k] \in Sessions
    <3>1. pc[k] = "process"
      BY <1>2 DEF Process
    <3> QED BY <2>1, <3>1, ProcessOk
  <2>3. CASE RoundWorked(k, b)
    BY <2>2, <2>3, DequeueAllSound DEF BrokerInv, RoundWorked
  <2>4. CASE RoundFailed(k, b)
    BY <2>2, <2>4, MarkSound DEF BrokerInv, RoundFailed
  <2> QED BY <1>2, <2>1, <2>3, <2>4, ProcessCases
<1>3. ASSUME NEW k \in Slots, Flush(k) PROVE BrokerInv'
  <2>1. session[k] \in Sessions /\ broker' = DequeueAll(broker, session[k])
    BY <1>0, <1>3 DEF Flush
  <2> QED BY <2>1, DequeueAllSound DEF BrokerInv
<1>4. ASSUME NEW k \in Slots, RemoveBrokerSession(k) PROVE BrokerInv'
  <2>1. session[k] \in Sessions /\ broker' = RemoveSession(broker, session[k])
    BY <1>0, <1>4 DEF RemoveBrokerSession
  <2> QED BY <2>1, RemoveSound DEF BrokerInv
<1>5. ASSUME NEW e, CleanupScan(e) PROVE BrokerInv'
  BY <1>5, RemoveAllSound DEF BrokerInv, CleanupScan
<1>6. CASE UNCHANGED broker
  BY <1>6 DEF BrokerInv
<1> QED BY <1>1, <1>2, <1>3, <1>4, <1>5, <1>6, BrokerCalls

-----------------------------------------------------------------------------
(* Slots. *)

(* A slot takes a new session and gives it up with its registry entry      *)
(* cleared (state.rs, register_session and unregister_session).            *)
LEMMA SlotStep ==
    ASSUME TypeInv, SlotInv, [Next]_vars
    PROVE  SlotInv'
<1> USE EmbassyAssumption
<1>0. /\ pc \in [Slots -> Stages] /\ session \in [Slots -> 0 .. MaxAccepted]
      /\ next_id \in 1 .. MaxAccepted + 1 /\ ids \in [Slots -> 0 .. MaxAccepted]
  BY DEF TypeInv, SlotInv
<1>1. ASSUME NEW k \in Slots, Accept(k) PROVE SlotInv'
  <2>1. /\ next_id' = next_id + 1 /\ session' = [session EXCEPT ![k] = next_id]
        /\ pc' = [pc EXCEPT ![k] = "register"] /\ ids' = ids /\ next_id # 0
    BY <1>0, <1>1 DEF Accept, Set, Go, registry
  <2>2. \A j \in Slots : session[j] < next_id /\ session[j] \in Int /\ next_id \in Int
    BY <1>0 DEF SlotInv
  <2>3. \A j \in Slots : session'[j] < next_id'
    BY <1>0, <2>1, <2>2
  <2>4. \A i, j \in Slots : session'[i] = session'[j] /\ session'[i] # 0 => i = j
    BY <1>0, <2>1, <2>2 DEF SlotInv
  <2>5. ASSUME NEW j \in Slots
        PROVE  /\ InLoop(j)' => ids'[j] = session'[j]
               /\ session'[j] = 0 \/ pc'[j] = "remove_session" => ids'[j] = 0
    BY <1>0, <2>1 DEF SlotInv, InLoop
  <2> QED BY <1>0, <2>1, <2>3, <2>4, <2>5 DEF SlotInv
<1>2. ASSUME NEW k \in Slots, RegisterSession(k) PROVE SlotInv'
  <2>1. /\ ids' = [ids EXCEPT ![k] = session[k]] /\ pc' = [pc EXCEPT ![k] = "select"]
        /\ UNCHANGED <<next_id, session>> /\ session[k] # 0
    BY <1>2 DEF RegisterSession, Set, Go, TypeInv
  <2> QED BY <1>0, <2>1 DEF SlotInv, InLoop
<1>3. ASSUME NEW k \in Slots, UnregisterSession(k) PROVE SlotInv'
  <2>1. /\ ids' = [ids EXCEPT ![k] = 0] /\ pc' = [pc EXCEPT ![k] = "remove_session"]
        /\ UNCHANGED <<next_id, session>>
    BY <1>3 DEF UnregisterSession, Set, Go
  <2> QED BY <1>0, <2>1 DEF SlotInv, InLoop
<1>4. ASSUME NEW k \in Slots, RemoveBrokerSession(k) PROVE SlotInv'
  <2>1. /\ session' = [session EXCEPT ![k] = 0] /\ pc' = [pc EXCEPT ![k] = "accept"]
        /\ UNCHANGED <<next_id, ids>> /\ pc[k] = "remove_session"
    BY <1>4 DEF RemoveBrokerSession, Set, Go, registry
  <2>2. 0 < next_id
    BY <1>0
  <2> QED BY <1>0, <2>1, <2>2 DEF SlotInv, InLoop
<1>5. CASE /\ UNCHANGED <<next_id, ids, session>>
           /\ \A j \in Slots :
                (InLoop(j)' => InLoop(j)) /\ (pc'[j] = "remove_session" => pc[j] = "remove_session")
  BY <1>5 DEF SlotInv
<1>6. ASSUME NEW k \in Slots, NEW place, Go(k, place),
             UNCHANGED <<next_id, ids, session>>,
             place # "remove_session",
             InLoop(k) \/ place \in {"register_slot", "accept", "unregister"}
      PROVE  SlotInv'
  <2>1. pc' = [pc EXCEPT ![k] = place]
    BY <1>6 DEF Go
  <2>2. \A j \in Slots :
          (InLoop(j)' => InLoop(j)) /\ (pc'[j] = "remove_session" => pc[j] = "remove_session")
    BY <1>0, <1>6, <2>1 DEF InLoop
  <2> QED BY <1>5, <1>6, <2>2
<1>7. ASSUME NEW k \in Slots, Register(k) PROVE SlotInv'
  <2>1. /\ Go(k, "register_slot") \/ Go(k, "accept")
        /\ UNCHANGED <<next_id, ids, session>>
    BY <1>7 DEF Register, registry
  <2> QED BY <1>6, <2>1
<1>8. ASSUME NEW k \in Slots, Process(k) PROVE SlotInv'
  <2>1. PICK b : b = Round(broker, session[k], packet[k])
    OBVIOUS
  <2>2. InLoop(k) /\ UNCHANGED <<next_id, ids, session>>
    BY <1>8 DEF Process, InLoop, registry
  <2>3. Go(k, "notify") \/ Go(k, "unregister")
    BY <1>8, <2>1, ProcessCases DEF RoundWorked, RoundFailed
  <2> QED BY <1>6, <2>2, <2>3
<1>9. ASSUME NEW k \in Slots,
             \/ SelectRead(k) \/ ReadMore(k) \/ ReadNothing(k) \/ ReadFails(k)
             \/ ReadPacket(k) \/ AllNotified(k) \/ AllWritten(k) \/ ReceiveNotification(k)
             \/ Flush(k) \/ Leave(k) \/ Timeout(k)
      PROVE  SlotInv'
  <2>1. InLoop(k) /\ UNCHANGED <<next_id, ids, session>>
    BY <1>9 DEF SelectRead, ReadMore, ReadSocket, ReadNothing, ReadFails, ReadPacket,
           AllNotified, AllWritten, ReceiveNotification, Flush, Leave, Timeout, InLoop, registry
  <2>2. \/ Go(k, "read_packet") \/ Go(k, "select") \/ Go(k, "unregister") \/ Go(k, "process")
        \/ Go(k, "write") \/ Go(k, "flush")
    BY <1>9 DEF SelectRead, ReadMore, ReadSocket, ReadNothing, ReadFails, ReadPacket,
           AllNotified, AllWritten, ReceiveNotification, Flush, Leave, Timeout
  <2> QED BY <1>6, <2>1, <2>2
<1>10. CASE UNCHANGED <<next_id, ids, session, pc>>
  BY <1>10 DEF SlotInv, InLoop
<1>11. ASSUME NEW k \in Slots,
              \/ NotifySession(k) \/ WritePacket(k) \/ WriteError(k) \/ ClientSends(k)
              \/ ClientContinues(k) \/ ClientCloses(k) \/ ClientStalls(k)
       PROVE  SlotInv'
  BY <1>10, <1>11 DEF NotifySession, WritePacket, WriteError, ClientSends, ClientContinues,
         ClientCloses, ClientStalls, registry, task
<1>12. ASSUME NEW e, CleanupScan(e) PROVE SlotInv'
  BY <1>10, <1>12 DEF CleanupScan, registry, task
<1>13. CASE UNCHANGED vars
  BY <1>10, <1>13 DEF vars, registry, task
<1> QED BY <1>1, <1>2, <1>3, <1>4, <1>7, <1>8, <1>9, <1>11, <1>12, <1>13 DEF Next, TaskStep

-----------------------------------------------------------------------------
(* What the broker holds. *)

(* The first part of HoldsInv: every session of the broker has a slot that *)
(* will remove it.                                                         *)
Owned == \A s \in Range(broker.sessions) :
            \E j \in Slots : session[j] = s /\ pc[j] \notin {"accept", "register"}

(* Every step keeps the broker's sessions owned, and the silence of the    *)
(* sessions that are not in their loop yet.                                *)
LEMMA HoldsStep ==
    ASSUME TypeInv, BrokerInv, SlotInv, HoldsInv, [Next]_vars
    PROVE  HoldsInv'
<1> USE EmbassyAssumption
<1>0. /\ pc \in [Slots -> Stages] /\ session \in [Slots -> 0 .. MaxAccepted]
      /\ next_id \in 1 .. MaxAccepted + 1
      /\ \A k \in Slots : pc[k] # "accept" => session[k] \in Sessions
  BY DEF TypeInv, Sessions
<1>h. /\ Owned
      /\ \A k \in Slots : pc[k] \in {"register", "register_slot"} => Quiet(broker, session[k])
      /\ \A s \in Sessions : s >= next_id => Quiet(broker, s)
  BY DEF HoldsInv, Owned
<1>1. ASSUME NEW k \in Slots, Accept(k) PROVE HoldsInv'
  <2>1. /\ next_id' = next_id + 1 /\ session' = [session EXCEPT ![k] = next_id]
        /\ pc' = [pc EXCEPT ![k] = "register"] /\ broker' = broker /\ next_id \in Sessions
        /\ pc[k] = "accept"
    BY <1>0, <1>1 DEF Accept, Set, Go, Sessions
  <2>2. Owned'
    BY <1>0, <1>h, <2>1 DEF Owned
  <2>3. ASSUME NEW j \in Slots, pc'[j] \in {"register", "register_slot"}
        PROVE  Quiet(broker', session'[j])
    <3>1. CASE j = k
      <4>1. session'[j] = next_id /\ next_id >= next_id
        BY <1>0, <2>1, <3>1
      <4> QED BY <1>h, <2>1, <4>1
    <3>2. CASE j # k
      <4>1. session'[j] = session[j] /\ pc'[j] = pc[j]
        BY <1>0, <2>1, <3>2
      <4> QED BY <1>h, <2>1, <2>3, <4>1
    <3> QED BY <3>1, <3>2
  <2>4. ASSUME NEW s \in Sessions, s >= next_id' PROVE Quiet(broker', s)
    <3>1. s >= next_id
      BY <1>0, <2>1, <2>4 DEF Sessions
    <3> QED BY <1>h, <2>1, <3>1
  <2> QED BY <2>2, <2>3, <2>4 DEF HoldsInv, Owned
<1>2. ASSUME NEW k \in Slots, Register(k) PROVE HoldsInv'
  <2>1. session[k] \in Sessions /\ session[k] \notin Range(broker.sessions)
    BY <1>2, RegistersNew DEF Register
  <2>2. PICK r : r = broker' /\ r = RegisterNewSession(broker, session[k])
    BY <1>2 DEF Register
  <2>3. /\ r.rx = broker.rx /\ r.tx = broker.tx /\ r.subscribers = broker.subscribers
        /\ r.result = "Ok" => Range(r.sessions) = Range(broker.sessions) \cup {session[k]}
        /\ r.result # "Ok" => r.sessions = broker.sessions
    BY <2>1, <2>2, RegisterSound DEF BrokerInv
  <2>4. \A q : Quiet(broker, q) => Quiet(broker', q)
    BY <2>2, <2>3 DEF Quiet
  <2>5. pc[k] = "register" /\ UNCHANGED <<next_id, session>>
    BY <1>2 DEF Register
  <2>6. CASE r.result = "Ok"
    <3>1. pc' = [pc EXCEPT ![k] = "register_slot"]
      BY <1>2, <2>2, <2>6 DEF Register, Go
    <3>2. Range(broker'.sessions) = Range(broker.sessions) \cup {session[k]}
      BY <2>2, <2>3, <2>6
    <3>3. Owned'
      BY <1>0, <1>h, <2>5, <3>1, <3>2 DEF Owned
    <3> QED BY <1>0, <1>h, <2>4, <2>5, <3>1, <3>3 DEF HoldsInv, Owned
  <2>7. CASE r.result # "Ok"
    <3>1. pc' = [pc EXCEPT ![k] = "accept"] /\ broker'.sessions = broker.sessions
      BY <1>2, <2>2, <2>3, <2>7 DEF Register, Go
    <3>2. Owned'
      BY <1>0, <1>h, <2>5, <3>1 DEF Owned
    <3> QED BY <1>0, <1>h, <2>4, <2>5, <3>1, <3>2 DEF HoldsInv, Owned
  <2> QED BY <2>6, <2>7
<1>3. ASSUME NEW k \in Slots, Process(k) PROVE HoldsInv'
  <2>1. PICK b : b = Round(broker, session[k], packet[k])
    OBVIOUS
  <2>2. pc[k] = "process" /\ UNCHANGED <<next_id, session>>
    BY <1>3 DEF Process
  <2>3. /\ session[k] \in Sessions /\ Sound(b, Sessions, Packets)
        /\ b.sessions = broker.sessions
        /\ \A q \in Sessions : q # session[k] /\ Quiet(broker, q) => Quiet(b, q)
    BY <2>1, <2>2, ProcessOk
  <2>4. broker'.sessions = b.sessions /\ KeepsQuiet(b, broker', Sessions)
    <3>1. CASE RoundWorked(k, b)
      BY <2>3, <3>1, DequeueAllSound DEF RoundWorked
    <3>2. CASE RoundFailed(k, b)
      BY <2>3, <3>2, MarkSound DEF RoundFailed
    <3> QED BY <1>3, <2>1, <3>1, <3>2, ProcessCases
  <2>5. pc' = [pc EXCEPT ![k] = "notify"] \/ pc' = [pc EXCEPT ![k] = "unregister"]
    BY <1>3, <2>1, ProcessCases DEF RoundWorked, RoundFailed, Go
  <2>6. Owned'
    BY <1>0, <1>h, <2>2, <2>3, <2>4, <2>5 DEF Owned
  <2>7. ASSUME NEW j \in Slots, pc'[j] \in {"register", "register_slot"}
        PROVE  Quiet(broker', session'[j])
    <3>1. j # k /\ pc[j] \in {"register", "register_slot"}
      BY <1>0, <2>5, <2>7
    <3>2. session[j] \in Sessions /\ session[j] # 0
      BY <1>0, <3>1 DEF TypeInv
    <3>3. session[j] # session[k]
      BY <3>1, <3>2 DEF SlotInv
    <3> QED BY <1>h, <2>2, <2>3, <2>4, <3>1, <3>2, <3>3 DEF KeepsQuiet
  <2>8. ASSUME NEW s \in Sessions, s >= next_id' PROVE Quiet(broker', s)
    <3>1. s # session[k] /\ s >= next_id
      BY <1>0, <2>2, <2>8 DEF SlotInv, Sessions
    <3> QED BY <1>h, <2>3, <2>4, <3>1 DEF KeepsQuiet
  <2> QED BY <2>6, <2>7, <2>8 DEF HoldsInv, Owned
<1>4. ASSUME NEW k \in Slots, RemoveBrokerSession(k) PROVE HoldsInv'
  <2>1. /\ session[k] \in Sessions /\ broker' = RemoveSession(broker, session[k])
        /\ session' = [session EXCEPT ![k] = 0] /\ pc' = [pc EXCEPT ![k] = "accept"]
        /\ next_id' = next_id
    BY <1>0, <1>4 DEF RemoveBrokerSession, Set, Go
  <2>2. /\ Range(broker'.sessions) = Range(broker.sessions) \ {session[k]}
        /\ KeepsQuiet(broker, broker', Sessions)
    BY <2>1, RemoveSound DEF BrokerInv
  <2>3. Owned'
    <3> SUFFICES ASSUME NEW s \in Range(broker'.sessions)
                 PROVE  \E j \in Slots : session'[j] = s /\ pc'[j] \notin {"accept", "register"}
      BY DEF Owned
    <3>1. s \in Range(broker.sessions) /\ s # session[k]
      BY <2>2
    <3>2. PICK j \in Slots : session[j] = s /\ pc[j] \notin {"accept", "register"}
      BY <1>h, <3>1 DEF Owned
    <3>3. j # k
      BY <3>1, <3>2
    <3> QED BY <1>0, <2>1, <3>2, <3>3
  <2>4. ASSUME NEW j \in Slots, pc'[j] \in {"register", "register_slot"}
        PROVE  Quiet(broker', session'[j])
    <3>1. j # k /\ pc[j] \in {"register", "register_slot"} /\ session'[j] = session[j]
      BY <1>0, <2>1, <2>4
    <3>2. session[j] \in Sessions
      BY <1>0, <3>1
    <3> QED BY <1>h, <2>2, <3>1, <3>2 DEF KeepsQuiet
  <2>5. \A s \in Sessions : s >= next_id' => Quiet(broker', s)
    BY <1>h, <2>1, <2>2 DEF KeepsQuiet
  <2> QED BY <2>3, <2>4, <2>5 DEF HoldsInv, Owned
<1>5. CASE /\ Range(broker'.sessions) \subseteq Range(broker.sessions)
           /\ KeepsQuiet(broker, broker', Sessions)
           /\ UNCHANGED <<next_id, session>>
           /\ \A j \in Slots :
                /\ pc'[j] \in {"register", "register_slot"} => pc[j] \in {"register", "register_slot"}
                /\ pc'[j] \in {"accept", "register"} => pc[j] \in {"accept", "register"}
  <2>1. Owned'
    BY <1>5, <1>h DEF Owned
  <2>2. ASSUME NEW j \in Slots, pc'[j] \in {"register", "register_slot"}
        PROVE  Quiet(broker', session'[j])
    <3>1. pc[j] \in {"register", "register_slot"} /\ session'[j] = session[j]
      BY <1>5, <2>2
    <3>2. session[j] \in Sessions
      BY <1>0, <3>1
    <3> QED BY <1>5, <1>h, <3>1, <3>2 DEF KeepsQuiet
  <2>3. \A s \in Sessions : s >= next_id' => Quiet(broker', s)
    BY <1>h, <1>5 DEF KeepsQuiet
  <2> QED BY <2>1, <2>2, <2>3 DEF HoldsInv, Owned
<1>6. ASSUME NEW k \in Slots, Flush(k) PROVE HoldsInv'
  <2>1. session[k] \in Sessions /\ broker' = DequeueAll(broker, session[k])
    BY <1>0, <1>6 DEF Flush
  <2>2. broker'.sessions = broker.sessions /\ KeepsQuiet(broker, broker', Sessions)
    BY <2>1, DequeueAllSound DEF BrokerInv
  <2>3. pc' = [pc EXCEPT ![k] = "write"] /\ pc[k] = "flush" /\ UNCHANGED <<next_id, session>>
    BY <1>6 DEF Flush, Go
  <2> QED BY <1>0, <1>5, <2>2, <2>3
<1>7. ASSUME NEW e, CleanupScan(e) PROVE HoldsInv'
  <2>1. PICK gone : broker' = RemoveSessions(broker, gone)
    BY <1>7 DEF CleanupScan
  <2>2. /\ Range(broker'.sessions) = Range(broker.sessions) \ gone
        /\ KeepsQuiet(broker, broker', Sessions)
    BY <2>1, RemoveAllSound DEF BrokerInv
  <2>3. UNCHANGED <<next_id, session, pc>>
    BY <1>7 DEF CleanupScan, task
  <2> QED BY <1>5, <2>2, <2>3
<1>8. ASSUME NEW k \in Slots, NEW place, Go(k, place), UNCHANGED <<broker, next_id, session>>,
             place \notin {"accept", "register", "register_slot"}
      PROVE  HoldsInv'
  <2>1. KeepsQuiet(broker, broker', Sessions)
    BY <1>8 DEF KeepsQuiet
  <2> QED BY <1>0, <1>5, <1>8, <2>1 DEF Go
<1>9. ASSUME NEW k \in Slots,
             \/ RegisterSession(k) \/ SelectRead(k) \/ ReadMore(k) \/ ReadNothing(k)
             \/ ReadFails(k) \/ ReadPacket(k) \/ AllNotified(k) \/ AllWritten(k)
             \/ ReceiveNotification(k) \/ Leave(k) \/ Timeout(k) \/ UnregisterSession(k)
      PROVE  HoldsInv'
  <2>1. UNCHANGED <<broker, next_id, session>>
    BY <1>9 DEF RegisterSession, SelectRead, ReadMore, ReadSocket, ReadNothing, ReadFails,
           ReadPacket, AllNotified, AllWritten, ReceiveNotification, Leave, Timeout,
           UnregisterSession
  <2>2. \/ Go(k, "read_packet") \/ Go(k, "select") \/ Go(k, "unregister") \/ Go(k, "process")
        \/ Go(k, "write") \/ Go(k, "flush") \/ Go(k, "remove_session")
    BY <1>9 DEF RegisterSession, SelectRead, ReadMore, ReadSocket, ReadNothing, ReadFails,
           ReadPacket, AllNotified, AllWritten, ReceiveNotification, Leave, Timeout,
           UnregisterSession
  <2> QED BY <1>8, <2>1, <2>2
<1>10. CASE UNCHANGED <<broker, next_id, session, pc>>
  BY <1>10 DEF HoldsInv
<1>11. ASSUME NEW k \in Slots,
              \/ NotifySession(k) \/ WritePacket(k) \/ WriteError(k) \/ ClientSends(k)
              \/ ClientContinues(k) \/ ClientCloses(k) \/ ClientStalls(k)
       PROVE  HoldsInv'
  BY <1>10, <1>11 DEF NotifySession, WritePacket, WriteError, ClientSends, ClientContinues,
         ClientCloses, ClientStalls, task
<1>12. CASE UNCHANGED vars
  BY <1>10, <1>12 DEF vars, task
<1> QED BY <1>1, <1>2, <1>3, <1>4, <1>6, <1>7, <1>9, <1>11, <1>12 DEF Next, TaskStep

-----------------------------------------------------------------------------
(* Wake-ups. *)

(* Whoever empties the queue of slot k's session is on its way to it.      *)
Woken(k) ==
    \/ token[k] \/ pc[k] = "flush"
    \/ \E j \in Slots : session[k] \in Range(to_notify[j])

(* Slot k's session has something to send. *)
HasPending(k) ==
    /\ ~failed /\ InLoop(k) /\ session[k] \in Range(broker.sessions)
    /\ broker.tx[session[k]] # <<>>

(* Notifying the first session of a list leaves the others on theirs       *)
(* (handler.rs, the loop over sessions_to_notify).                         *)
LEMMA OthersStayListed ==
    ASSUME TypeInv, NEW k \in Slots, NotifySession(k)
    PROVE  \A h \in Slots : \A s \in Range(to_notify[h]) :
             s # Head(to_notify[k]) => s \in Range(to_notify'[h])
<1> SUFFICES ASSUME NEW h \in Slots, NEW s \in Range(to_notify[h]), s # Head(to_notify[k])
             PROVE  s \in Range(to_notify'[h])
  OBVIOUS
<1>1. to_notify \in [Slots -> Seq(Sessions)]
  BY DEF TypeInv
<1>2. to_notify' = [to_notify EXCEPT ![k] = Tail(@)] /\ to_notify[k] # <<>>
  BY DEF NotifySession
<1>3. CASE h = k
  <2>1. to_notify[k] \in Seq(Sessions) /\ s \in Range(to_notify[k])
    BY <1>1, <1>3
  <2>2. s \in Range(Tail(to_notify[k]))
    BY <1>2, <2>1, HeadOrTail
  <2>3. to_notify'[h] = Tail(to_notify[k])
    BY <1>1, <1>2, <1>3
  <2> QED BY <2>2, <2>3
<1>4. CASE h # k
  BY <1>1, <1>2, <1>4
<1> QED BY <1>3, <1>4

(* Every step keeps a wake-up on its way to whoever has something to send. *)
LEMMA WakeStep ==
    ASSUME TypeInv, BrokerInv, SlotInv, HoldsInv, WakeUpNotLost, [Next]_vars
    PROVE  WakeUpNotLost'
<1> USE EmbassyAssumption
<1>0. /\ pc \in [Slots -> Stages] /\ session \in [Slots -> 0 .. MaxAccepted]
      /\ token \in [Slots -> BOOLEAN] /\ to_notify \in [Slots -> Seq(Sessions)]
      /\ \A j \in Slots : pc[j] # "accept" => session[j] \in Sessions /\ session[j] # 0
  BY DEF TypeInv, Sessions
<1> SUFFICES ASSUME NEW k \in Slots, HasPending(k)'
             PROVE  Woken(k)'
  BY DEF WakeUpNotLost, Woken, HasPending
<1>w. HasPending(k) => Woken(k)
  BY DEF WakeUpNotLost, Woken, HasPending
<1>p. /\ ~failed' /\ InLoop(k)' /\ session'[k] \in Range(broker'.sessions)
      /\ broker'.tx[session'[k]] # <<>>
  BY DEF HasPending
<1>s. \A j \in Slots : j # k /\ session[k] # 0 => session[j] # session[k]
  BY DEF SlotInv
<1>1. ASSUME NEW j \in Slots, Accept(j) PROVE Woken(k)'
  <2>1. /\ session' = [session EXCEPT ![j] = next_id] /\ pc' = [pc EXCEPT ![j] = "register"]
        /\ UNCHANGED <<broker, token, to_notify, failed>>
    BY <1>1 DEF Accept, Set, Go, registry
  <2>2. k # j
    BY <1>0, <1>p, <2>1 DEF InLoop
  <2>3. session'[k] = session[k] /\ pc'[k] = pc[k]
    BY <1>0, <2>1, <2>2
  <2>4. HasPending(k)
    BY <1>p, <2>1, <2>3 DEF HasPending, InLoop
  <2> QED BY <1>w, <2>1, <2>3, <2>4 DEF Woken
<1>2. ASSUME NEW j \in Slots, Register(j) PROVE Woken(k)'
  <2>1. /\ session[j] \in Sessions /\ session[j] \notin Range(broker.sessions)
        /\ broker' = RegisterNewSession(broker, session[j])
    BY <1>2, RegistersNew DEF Register
  <2>2. PICK b, r : b = broker /\ r = broker'
    OBVIOUS
  <2>3. /\ r.tx = b.tx
        /\ r.result = "Ok" => Range(r.sessions) = Range(b.sessions) \cup {session[j]}
        /\ r.result # "Ok" => r.sessions = b.sessions
    BY <2>1, <2>2, RegisterSound DEF BrokerInv
  <2>4. /\ Go(j, "register_slot") \/ Go(j, "accept")
        /\ UNCHANGED <<session, token, to_notify, failed>>
    BY <1>2 DEF Register, registry
  <2>5. k # j /\ pc'[k] = pc[k]
    BY <1>0, <1>p, <2>4 DEF Go, InLoop
  <2>6. session[k] # session[j]
    <3>1. pc[k] # "accept"
      BY <1>p, <2>5 DEF InLoop
    <3> QED BY <1>0, <1>s, <2>5, <3>1
  <2>7. HasPending(k)
    BY <1>p, <2>2, <2>3, <2>4, <2>5, <2>6 DEF HasPending, InLoop
  <2> QED BY <1>w, <2>4, <2>5, <2>7 DEF Woken
<1>3. ASSUME NEW j \in Slots, RegisterSession(j) PROVE Woken(k)'
  <2>1. /\ pc' = [pc EXCEPT ![j] = "select"] /\ pc[j] = "register_slot"
        /\ UNCHANGED <<broker, session, token, to_notify, failed>>
    BY <1>3 DEF RegisterSession, Go
  <2>2. k # j
    BY <1>p, <2>1 DEF HoldsInv, Quiet
  <2>3. pc'[k] = pc[k]
    BY <1>0, <2>1, <2>2
  <2>4. HasPending(k)
    BY <1>p, <2>1, <2>3 DEF HasPending, InLoop
  <2> QED BY <1>w, <2>1, <2>3, <2>4 DEF Woken
<1>4. ASSUME NEW j \in Slots, Process(j) PROVE Woken(k)'
  <2>1. PICK b : b = Round(broker, session[j], packet[j])
    OBVIOUS
  <2>2. pc[j] = "process" /\ session' = session
    BY <1>4 DEF Process
  <2>3. /\ session[j] \in Sessions /\ Sound(b, Sessions, Packets)
        /\ b.sessions = broker.sessions
        /\ Range(SessionsWithPending(b)) = {s \in Range(broker.sessions) : b.tx[s] # <<>>}
    BY <2>1, <2>2, ProcessOk
  <2>4. CASE RoundWorked(j, b)
    <3>1. /\ broker'.sessions = b.sessions /\ broker'.tx[session[j]] = <<>>
          /\ \A q \in Sessions : q # session[j] => broker'.tx[q] = b.tx[q]
      BY <2>3, <2>4, DequeueAllSound DEF RoundWorked
    <3>2. session[k] \in Sessions
      BY <1>0, <1>p, <2>2, <2>4 DEF InLoop, RoundWorked, Go
    <3>3. session[k] # session[j] /\ b.tx[session[k]] # <<>>
          /\ session[k] \in Range(broker.sessions)
      BY <1>p, <2>2, <2>3, <3>1, <3>2
    <3>4. to_notify'[j] = SessionsWithPending(b)
      BY <1>0, <2>4 DEF RoundWorked, Set
    <3>5. session'[k] \in Range(to_notify'[j])
      BY <2>2, <2>3, <3>3, <3>4
    <3> QED BY <3>5 DEF Woken
  <2>5. CASE RoundFailed(j, b)
    BY <1>p, <2>5 DEF RoundFailed
  <2> QED BY <1>4, <2>1, <2>4, <2>5, ProcessCases
<1>5. ASSUME NEW j \in Slots, NotifySession(j) PROVE Woken(k)'
  <2>1. /\ token' = [i \in Slots |-> token[i] \/ ids[i] = Head(to_notify[j])]
        /\ UNCHANGED <<broker, ids, pc, session, failed>>
    BY <1>5 DEF NotifySession
  <2>2. HasPending(k)
    BY <1>p, <2>1 DEF HasPending, InLoop
  <2>3. Woken(k) /\ ids[k] = session[k]
    BY <1>w, <2>2 DEF HasPending, SlotInv
  <2>4. CASE token[k] \/ pc[k] = "flush"
    BY <2>1, <2>4 DEF Woken
  <2>5. ASSUME NEW h \in Slots, session[k] \in Range(to_notify[h]) PROVE Woken(k)'
    <3>1. CASE session[k] = Head(to_notify[j])
      <4>1. token'[k]
        BY <2>1, <2>3, <3>1
      <4> QED BY <4>1 DEF Woken
    <3>2. CASE session[k] # Head(to_notify[j])
      <4>1. session[k] \in Range(to_notify'[h])
        BY <1>5, <2>5, <3>2, OthersStayListed
      <4> QED BY <2>1, <4>1 DEF Woken
    <3> QED BY <3>1, <3>2
  <2> QED BY <2>3, <2>4, <2>5 DEF Woken
<1>6. ASSUME NEW j \in Slots, ReceiveNotification(j) PROVE Woken(k)'
  <2>1. /\ token' = [token EXCEPT ![j] = FALSE] /\ pc' = [pc EXCEPT ![j] = "flush"]
        /\ UNCHANGED <<broker, session, to_notify, failed>>
    BY <1>6 DEF ReceiveNotification, Set, Go
  <2>2. CASE k = j
    BY <1>0, <2>1, <2>2 DEF Woken
  <2>3. CASE k # j
    <3>1. pc'[k] = pc[k] /\ token'[k] = token[k]
      BY <1>0, <2>1, <2>3
    <3>2. HasPending(k)
      BY <1>p, <2>1, <3>1 DEF HasPending, InLoop
    <3> QED BY <1>w, <2>1, <3>1, <3>2 DEF Woken
  <2> QED BY <2>2, <2>3
<1>7. ASSUME NEW j \in Slots, Flush(j) PROVE Woken(k)'
  <2>1. /\ pc' = [pc EXCEPT ![j] = "write"] /\ pc[j] = "flush"
        /\ UNCHANGED <<session, token, to_notify, failed>>
        /\ broker' = DequeueAll(broker, session[j])
    BY <1>7 DEF Flush, Go, registry
  <2>2. session[j] \in Sessions
    BY <1>0, <2>1
  <2>3. /\ broker'.sessions = broker.sessions /\ broker'.tx[session[j]] = <<>>
        /\ \A q \in Sessions : q # session[j] => broker'.tx[q] = broker.tx[q]
    BY <2>1, <2>2, DequeueAllSound DEF BrokerInv
  <2>4. k # j
    BY <1>p, <2>1, <2>3
  <2>5. pc'[k] = pc[k]
    BY <1>0, <2>1, <2>4
  <2>6. session[k] \in Sessions /\ session[k] # session[j]
    BY <1>0, <1>p, <1>s, <2>4, <2>5 DEF InLoop
  <2>7. HasPending(k)
    BY <1>p, <2>1, <2>3, <2>5, <2>6 DEF HasPending, InLoop
  <2> QED BY <1>w, <2>1, <2>5, <2>7 DEF Woken
<1>8. ASSUME NEW j \in Slots, RemoveBrokerSession(j) PROVE Woken(k)'
  <2>1. /\ session[j] \in Sessions /\ broker' = RemoveSession(broker, session[j])
        /\ session' = [session EXCEPT ![j] = 0] /\ pc' = [pc EXCEPT ![j] = "accept"]
        /\ UNCHANGED <<token, to_notify, failed>>
    BY <1>0, <1>8 DEF RemoveBrokerSession, Set, Go, registry
  <2>2. k # j
    BY <1>0, <1>p, <2>1 DEF InLoop
  <2>3. session'[k] = session[k] /\ pc'[k] = pc[k]
    BY <1>0, <2>1, <2>2
  <2>4. session[k] \in Sessions /\ session[k] # session[j]
    BY <1>0, <1>p, <1>s, <2>2, <2>3 DEF InLoop
  <2>5. PICK b, r : b = broker /\ r = broker'
    OBVIOUS
  <2>6. Sound(b, Sessions, Packets) /\ r = RemoveSession(b, session[j])
    BY <2>1, <2>5 DEF BrokerInv
  <2>7. Range(r.sessions) = Range(b.sessions) \ {session[j]}
    BY <2>1, <2>6, RemoveSound
  <2>8. ASSUME NEW q \in Sessions, q # session[j] PROVE r.tx[q] = b.tx[q]
    BY <2>1, <2>6, <2>8, RemoveSound
  <2>9. HasPending(k)
    BY <1>p, <2>1, <2>3, <2>4, <2>5, <2>7, <2>8 DEF HasPending, InLoop
  <2> QED BY <1>w, <2>1, <2>3, <2>9 DEF Woken
<1>9. ASSUME NEW e, CleanupScan(e) PROVE Woken(k)'
  <2>1. PICK gone : broker' = RemoveSessions(broker, gone)
    BY <1>9 DEF CleanupScan
  <2>2. /\ Range(broker'.sessions) = Range(broker.sessions) \ gone
        /\ \A q \in Sessions : q \notin gone => broker'.tx[q] = broker.tx[q]
    BY <2>1, RemoveAllSound DEF BrokerInv
  <2>3. UNCHANGED <<session, pc, token, to_notify, failed>>
    BY <1>9 DEF CleanupScan, task, registry
  <2>4. session[k] \in Sessions
    BY <1>0, <1>p, <2>3 DEF InLoop
  <2>5. HasPending(k)
    BY <1>p, <2>2, <2>3, <2>4 DEF HasPending, InLoop
  <2> QED BY <1>w, <2>3, <2>5 DEF Woken
<1>10. CASE /\ UNCHANGED <<broker, session, token, to_notify, failed>>
            /\ (InLoop(k)' => InLoop(k)) /\ (pc[k] = "flush" => pc'[k] = "flush")
  BY <1>10, <1>p, <1>w DEF Woken, HasPending
<1>11. ASSUME NEW j \in Slots,
              \/ SelectRead(j) \/ ReadMore(j) \/ ReadNothing(j) \/ ReadFails(j)
              \/ ReadPacket(j) \/ AllNotified(j) \/ AllWritten(j) \/ Leave(j)
              \/ Timeout(j) \/ UnregisterSession(j)
       PROVE  Woken(k)'
  <2>1. UNCHANGED <<broker, session, token, to_notify, failed>>
    BY <1>11 DEF SelectRead, ReadMore, ReadSocket, ReadNothing, ReadFails, ReadPacket,
           AllNotified, AllWritten, Leave, Timeout, UnregisterSession, registry
  <2>2. \/ Go(j, "read_packet") \/ Go(j, "select") \/ Go(j, "unregister")
        \/ Go(j, "process") \/ Go(j, "write") \/ Go(j, "remove_session")
    BY <1>11 DEF SelectRead, ReadMore, ReadSocket, ReadNothing, ReadFails, ReadPacket,
           AllNotified, AllWritten, Leave, Timeout, UnregisterSession
  <2>3. pc[j] # "flush" /\ (InLoop(j) \/ UnregisterSession(j))
    BY <1>11 DEF SelectRead, ReadMore, ReadNothing, ReadFails, ReadPacket, AllNotified,
           AllWritten, Leave, Timeout, UnregisterSession, InLoop
  <2>4. (InLoop(k)' => InLoop(k)) /\ (pc[k] = "flush" => pc'[k] = "flush")
    BY <1>0, <2>2, <2>3 DEF UnregisterSession, Go, InLoop
  <2> QED BY <1>10, <2>1, <2>4
<1>12. CASE UNCHANGED <<broker, session, pc, token, to_notify, failed>>
  BY <1>10, <1>12 DEF InLoop
<1>13. ASSUME NEW j \in Slots,
              \/ WritePacket(j) \/ WriteError(j) \/ ClientSends(j)
              \/ ClientContinues(j) \/ ClientCloses(j) \/ ClientStalls(j)
       PROVE  Woken(k)'
  BY <1>12, <1>13 DEF WritePacket, WriteError, ClientSends, ClientContinues,
         ClientCloses, ClientStalls, registry, task
<1>14. CASE UNCHANGED vars
  BY <1>12, <1>14 DEF vars, registry, task
<1> QED BY <1>1, <1>2, <1>3, <1>4, <1>5, <1>6, <1>7, <1>8, <1>9, <1>11, <1>13, <1>14
        DEF Next, TaskStep

-----------------------------------------------------------------------------
(* The invariant, and what follows from it. *)

(* A server that has just started: every task accepts, nothing is queued.  *)
LEMMA InitInv == Init => Inv
<1> SUFFICES ASSUME Init PROVE Inv
  OBVIOUS
<1> USE EmbassyAssumption
<1>1. /\ Sound(broker, Sessions, Packets) /\ broker.sessions = <<>>
      /\ \A q \in Sessions : Quiet(broker, q)
  BY EmptyBrokerSound DEF Init
<1>2. Range(broker.sessions) = {}
  BY <1>1 DEF Range
<1>3. TypeInv
  <2>1. /\ <<>> \in Seq(Pieces) /\ <<>> \in Seq(Sessions) /\ <<>> \in Seq(Replies(Packets))
        /\ Len(<<>>) = 0 /\ 0 <= RX_BUFFER_SIZE /\ 0 <= TX_PACKETS
        /\ 1 \in 1 .. MaxAccepted + 1 /\ 0 \in 0 .. MaxAccepted
    OBVIOUS
  <2> QED BY <2>1 DEF Init, Each, TypeInv, Stages
<1>4. SlotInv
  <2>1. 0 < 1 /\ 0 \in 0 .. MaxAccepted
    OBVIOUS
  <2> QED BY <2>1 DEF Init, Each, SlotInv, InLoop
<1>5. HoldsInv
  BY <1>1, <1>2 DEF Init, Each, HoldsInv
<1>6. WakeUpNotLost
  BY <1>2 DEF WakeUpNotLost
<1> QED BY <1>1, <1>3, <1>4, <1>5, <1>6 DEF Inv, BrokerInv

(* Inv is inductive: no step of a task, a client or the cleanup task       *)
(* breaks it.                                                              *)
LEMMA StepInv == Inv /\ [Next]_vars => Inv'
<1> SUFFICES ASSUME Inv, [Next]_vars PROVE Inv'
  OBVIOUS
<1>1. TypeInv /\ BrokerInv /\ SlotInv /\ HoldsInv /\ WakeUpNotLost
  BY DEF Inv
<1>2. TypeInv'
  BY <1>1, TypeStep
<1>3. BrokerInv'
  BY <1>1, BrokerStep
<1>4. SlotInv'
  BY <1>1, SlotStep
<1>5. HoldsInv'
  BY <1>1, HoldsStep
<1>6. WakeUpNotLost'
  BY <1>1, WakeStep
<1> QED BY <1>2, <1>3, <1>4, <1>5, <1>6 DEF Inv

(* All that the server does is within Inv.                                 *)
LEMMA AlwaysInv == Spec => []Inv
  BY InitInv, StepInv, PTL DEF Spec

(* For any slots, capacities and layouts: no two tasks handle the same     *)
(* session, a handler's slot of the registry carries its session's id, and *)
(* neither the read buffer nor the vector of packets to write ever holds   *)
(* more than its size (state.rs, io.rs, handler.rs).                       *)
THEOREM EmbassyTypeCorrect == Spec => []TypeOK
<1>1. Inv => TypeOK
  BY DEF Inv, TypeInv, SlotInv, TypeOK
<1> QED BY <1>1, AlwaysInv, PTL

(* For any number of tasks: one that registers its session finds at most   *)
(* one session per other task in the broker, whatever ended the sessions   *)
(* before and whatever the cleanup task removed (main.rs accept_task,      *)
(* broker.rs register_new_session).                                        *)
THEOREM BrokerNeverFull == Spec => []RegistrationSucceeds
<1> USE EmbassyAssumption, RoundAssumption
<1>1. Inv => RegistrationSucceeds
  <2> SUFFICES ASSUME Inv, NEW k \in Slots, pc[k] = "register"
               PROVE  Len(broker.sessions) < MAX_SESSIONS
    BY DEF RegistrationSucceeds
  <2>1. TypeInv /\ BrokerInv /\ SlotInv /\ HoldsInv
    BY DEF Inv
  <2>2. broker.sessions \in Seq(Sessions) /\ IsInjective(broker.sessions)
    BY <2>1 DEF BrokerInv, Sound, Brokers, Consistent
  <2> DEFINE Held == Range(broker.sessions)
             Owners == {j \in Slots : session[j] \in Held}
             f == [j \in Owners |-> session[j]]
  <2>3. Owners \subseteq Slots \ {k}
    BY <2>1, RegistersNew
  <2>4. IsFiniteSet(Slots \ {k}) /\ Cardinality(Slots \ {k}) = MAX_SESSIONS - 1
    BY FS_RemoveElement
  <2>5. IsFiniteSet(Owners) /\ Cardinality(Owners) <= MAX_SESSIONS - 1
    BY <2>3, <2>4, FS_Subset
  <2>6. \A s \in Held : \E j \in Owners : session[j] = s
    BY <2>1 DEF HoldsInv
  <2>7. f \in Surjection(Owners, Held)
    BY <2>6 DEF Surjection
  <2> HIDE DEF Owners, Held, f
  <2>8. IsFiniteSet(Held) /\ Cardinality(Held) <= Cardinality(Owners)
    BY <2>5, <2>7, FS_Surjection
  <2>9. Cardinality(Held) = Len(broker.sessions)
    BY <2>2, InjectiveLength DEF Held
  <2>10. Cardinality(Held) \in Nat /\ Cardinality(Owners) \in Nat
    BY <2>5, <2>8, FS_CardinalityType
  <2> QED BY <2>5, <2>8, <2>9, <2>10
<1> QED BY <1>1, AlwaysInv, PTL

(* For any slots and capacities: with channels of one token, try_send and  *)
(* slots that pass from session to session, no wake-up is lost between the *)
(* release of the broker's lock and the receiver's next select3            *)
(* (handler.rs, state.rs notify_session).                                  *)
THEOREM EmbassyWakeUpsAreKept == Spec => []WakeUpNotLost
<1>1. Inv => WakeUpNotLost
  BY DEF Inv
<1> QED BY <1>1, AlwaysInv, PTL

(* For any layout whose packets have two units or more and any buffer of   *)
(* two or more: when a task waits in its select3 its buffer is not full, so*)
(* a read of nothing is the end of file (handler.rs, the Ok(0) arm; io.rs  *)
(* read_packet).                                                           *)
THEOREM BufferHasRoom == Spec => []RoomInSelect
<1> USE EmbassyAssumption
<1>1. Inv => RoomInSelect
  <2> SUFFICES ASSUME Inv, NEW k \in Slots, pc[k] = "select" PROVE Room(k) > 0
    BY DEF RoomInSelect
  <2>1. Len(rx_buffer[k]) \in Nat /\ Len(rx_buffer[k]) < RX_BUFFER_SIZE
    BY LenProperties DEF Inv, TypeInv
  <2> QED BY <2>1 DEF Room
<1> QED BY <1>1, AlwaysInv, PTL

-----------------------------------------------------------------------------
(* Messages without gaps: of one publisher, in one queue. *)

NoneFrom(q, s) == \A i \in DOMAIN q : ~IsFrom(q[i], s)

(* The last message of s in q, if there is one, is number n. *)
LastFrom(q, s, n) ==
    \A i \in DOMAIN q :
        IsFrom(q[i], s) /\ (\A j \in DOMAIN q : i < j => ~IsFrom(q[j], s)) => q[i].seq = n

(* With no message of s there is no gap, and any may come next.            *)
LEMMA NoneGapless ==
    ASSUME NEW q, NEW s, NoneFrom(q, s)
    PROVE  Gapless(q, s) /\ \A n : LastFrom(q, s, n)
BY DEF NoneFrom, Gapless, LastFrom

(* The first part of a queue that has no gap has none.                     *)
LEMMA PrefixGapless ==
    ASSUME NEW M, NEW p \in Seq(M), NEW q \in Seq(M), NEW s
    PROVE  /\ Gapless(p \o q, s) => Gapless(p, s)
           /\ NoneFrom(p \o q, s) => NoneFrom(p, s)
<1>1. PICK r : r = p \o q
  OBVIOUS
<1>2. /\ Len(p) \in Nat /\ Len(q) \in Nat /\ DOMAIN p = 1..Len(p)
      /\ DOMAIN r = 1..(Len(p) + Len(q)) /\ \A i \in 1..Len(p) : r[i] = p[i]
  <2>1. /\ r \in Seq(M) /\ Len(r) = Len(p) + Len(q) /\ Len(p) \in Nat /\ Len(q) \in Nat
        /\ \A i \in 1..(Len(p) + Len(q)) : r[i] = IF i <= Len(p) THEN p[i] ELSE q[i - Len(p)]
    BY <1>1, ConcatProperties, LenProperties
  <2>2. DOMAIN r = 1..(Len(p) + Len(q)) /\ DOMAIN p = 1..Len(p)
    BY <2>1, LenProperties
  <2> QED BY <2>1, <2>2
<1>3. \A i \in DOMAIN p : i \in DOMAIN r /\ r[i] = p[i]
  BY <1>2
<1>4. ASSUME NoneFrom(r, s) PROVE NoneFrom(p, s)
  BY <1>3, <1>4 DEF NoneFrom
<1>5. ASSUME Gapless(r, s) PROVE Gapless(p, s)
  <2> SUFFICES ASSUME NEW i \in DOMAIN p, NEW j \in DOMAIN p, i < j,
                      IsFrom(p[i], s), IsFrom(p[j], s),
                      \A n \in i + 1 .. j - 1 : ~IsFrom(p[n], s)
               PROVE  p[j].seq = p[i].seq + 1
    BY DEF Gapless
  <2>1. \A n \in i + 1 .. j - 1 : n \in DOMAIN p
    BY <1>2
  <2>2. \A n \in i + 1 .. j - 1 : ~IsFrom(r[n], s)
    BY <1>3, <2>1
  <2>3. r[j].seq = r[i].seq + 1
    BY <1>3, <1>5, <2>2 DEF Gapless
  <2> QED BY <1>3, <2>3
<1> QED BY <1>1, <1>4, <1>5

(* The positions of a queue with one more at its end. *)
Longer(r, q, m) ==
    /\ Len(q) \in Nat /\ DOMAIN q = 1..Len(q) /\ DOMAIN r = 1..(Len(q) + 1)
    /\ \A i \in 1..Len(q) : r[i] = q[i]
    /\ r[Len(q) + 1] = m

(* Append adds a position.                                                 *)
LEMMA AppendLonger ==
    ASSUME NEW M, NEW q \in Seq(M), NEW m \in M
    PROVE  Longer(Append(q, m), q, m)
<1>1. PICK r : r = Append(q, m)
  OBVIOUS
<1>2. /\ r \in Seq(M) /\ Len(r) = Len(q) + 1 /\ r[Len(q) + 1] = m
      /\ \A i \in 1..Len(q) : r[i] = q[i]
  BY <1>1, AppendProperties
<1>3. Len(q) \in Nat /\ DOMAIN q = 1..Len(q) /\ DOMAIN r = 1..(Len(q) + 1)
  BY <1>2, LenProperties
<1> QED BY <1>1, <1>2, <1>3 DEF Longer

(* What is not a message of s does not count.                              *)
LEMMA AppendOther ==
    ASSUME NEW M, NEW q \in Seq(M), NEW m \in M, NEW s, ~IsFrom(m, s)
    PROVE  /\ NoneFrom(q, s) => NoneFrom(Append(q, m), s)
           /\ Gapless(q, s) => Gapless(Append(q, m), s)
           /\ \A n : LastFrom(q, s, n) => LastFrom(Append(q, m), s, n)
<1>1. PICK r : r = Append(q, m)
  OBVIOUS
<1>2. Longer(r, q, m)
  BY <1>1, AppendLonger
<1>3. /\ DOMAIN q = 1..Len(q) /\ Len(q) \in Nat
      /\ \A i \in DOMAIN q : i \in DOMAIN r /\ r[i] = q[i]
      /\ \A i \in DOMAIN r : IsFrom(r[i], s) => i \in DOMAIN q
  BY <1>2 DEF Longer
<1>4. ASSUME NoneFrom(q, s) PROVE NoneFrom(r, s)
  BY <1>3, <1>4 DEF NoneFrom
<1>5. ASSUME Gapless(q, s) PROVE Gapless(r, s)
  <2> SUFFICES ASSUME NEW i \in DOMAIN r, NEW j \in DOMAIN r, i < j,
                      IsFrom(r[i], s), IsFrom(r[j], s),
                      \A n \in i + 1 .. j - 1 : ~IsFrom(r[n], s)
               PROVE  r[j].seq = r[i].seq + 1
    BY DEF Gapless
  <2>1. i \in DOMAIN q /\ j \in DOMAIN q /\ r[i] = q[i] /\ r[j] = q[j]
    BY <1>3
  <2>2. \A n \in i + 1 .. j - 1 : n \in DOMAIN q
    BY <1>3, <2>1
  <2>3. \A n \in i + 1 .. j - 1 : ~IsFrom(q[n], s)
    BY <1>3, <2>2
  <2>4. q[j].seq = q[i].seq + 1
    BY <1>5, <2>1, <2>3 DEF Gapless
  <2> QED BY <2>1, <2>4
<1>6. ASSUME NEW n, LastFrom(q, s, n) PROVE LastFrom(r, s, n)
  <2> SUFFICES ASSUME NEW i \in DOMAIN r, IsFrom(r[i], s),
                      \A j \in DOMAIN r : i < j => ~IsFrom(r[j], s)
               PROVE  r[i].seq = n
    BY DEF LastFrom
  <2>1. i \in DOMAIN q /\ r[i] = q[i] /\ \A j \in DOMAIN q : i < j => ~IsFrom(q[j], s)
    BY <1>3
  <2> QED BY <1>6, <2>1 DEF LastFrom
<1> QED BY <1>1, <1>4, <1>5, <1>6

(* The message after the last one leaves no gap.                           *)
LEMMA AppendNext ==
    ASSUME NEW M, NEW q \in Seq(M), NEW m \in M, NEW s, IsFrom(m, s), m.seq \in Nat,
           Gapless(q, s), LastFrom(q, s, m.seq - 1)
    PROVE  Gapless(Append(q, m), s) /\ LastFrom(Append(q, m), s, m.seq)
<1>1. PICK r, l : r = Append(q, m) /\ l = Len(q)
  OBVIOUS
<1>2. /\ l \in Nat /\ DOMAIN q = 1..l /\ DOMAIN r = 1..(l + 1)
      /\ \A i \in 1..l : r[i] = q[i]
      /\ r[l + 1] = m
  BY <1>1, AppendLonger DEF Longer
<1>3. Gapless(r, s)
  <2> SUFFICES ASSUME NEW i \in DOMAIN r, NEW j \in DOMAIN r, i < j,
                      IsFrom(r[i], s), IsFrom(r[j], s),
                      \A n \in i + 1 .. j - 1 : ~IsFrom(r[n], s)
               PROVE  r[j].seq = r[i].seq + 1
    BY DEF Gapless
  <2>1. i \in 1..l /\ r[i] = q[i]
    BY <1>2
  <2>2. CASE j \in 1..l
    <3>1. \A n \in i + 1 .. j - 1 : n \in 1..l
      BY <1>2, <2>1, <2>2
    <3>2. \A n \in i + 1 .. j - 1 : ~IsFrom(q[n], s)
      BY <1>2, <3>1
    <3>3. r[j] = q[j] /\ q[j].seq = q[i].seq + 1
      BY <1>2, <2>1, <2>2, <3>2 DEF Gapless
    <3> QED BY <2>1, <3>3
  <2>3. CASE j = l + 1
    <3>1. ASSUME NEW n \in 1..l, i < n PROVE ~IsFrom(q[n], s)
      <4>1. n \in i + 1 .. j - 1 /\ r[n] = q[n]
        BY <1>2, <2>1, <2>3, <3>1
      <4> QED BY <4>1
    <3>2. q[i].seq = m.seq - 1
      BY <1>2, <2>1, <3>1 DEF LastFrom
    <3>3. (m.seq - 1) + 1 = m.seq
      OBVIOUS
    <3> QED BY <1>2, <2>1, <2>3, <3>2, <3>3
  <2> QED BY <1>2, <2>2, <2>3
<1>4. LastFrom(r, s, m.seq)
  <2> SUFFICES ASSUME NEW i \in DOMAIN r, IsFrom(r[i], s),
                      \A j \in DOMAIN r : i < j => ~IsFrom(r[j], s)
               PROVE  r[i].seq = m.seq
    BY DEF LastFrom
  <2>1. i = l + 1
    <3>1. l + 1 \in DOMAIN r /\ IsFrom(r[l + 1], s)
      BY <1>2
    <3>2. ~(i < l + 1)
      BY <3>1
    <3> QED BY <1>2, <3>2
  <2> QED BY <1>2, <2>1
<1> QED BY <1>1, <1>3, <1>4

-----------------------------------------------------------------------------
(* The units of a client's packets. *)

(* How many units has the packet that unit i of q is of. *)
Size(q, i) == Layout[q[i].p.type].total

(* Unit i of q is of a packet that stands there from f + 1 to f + m; the   *)
(* packets of q are numbered on to n.                                      *)
Belongs(q, i, f, m, n) ==
    /\ q[i].i = i - f /\ q[i].i \in 1 .. m /\ f + m <= Len(q)
    /\ \A j \in 1 .. m : q[f + j] = [p |-> q[i].p, i |-> j]
    /\ f + m = Len(q) => q[i].p.seq = n
    /\ f + m # Len(q) => q[f + m + 1].i = 1 /\ q[f + m + 1].p.seq = q[i].p.seq + 1

(* q has the units of whole packets. *)
Whole(q, n) ==
    /\ q # <<>> => q[1].i = 1
    /\ \A i \in 1 .. Len(q) : \E f \in 0 .. Len(q) : Belongs(q, i, f, Size(q, i), n)

(* How many packets have been taken from a stream of n that is now q. *)
TakenOf(q, n) == IF q = <<>> THEN n ELSE q[1].p.seq - 1

(* p is the packet at the front of q, m its size and r what follows it. *)
AtFront(q, p, m, r) ==
    /\ p = q[1].p /\ m = Layout[p.type].total
    /\ r = SubSeq(q, m + 1, Len(q))

(* A stream of n packets is q before p is taken off its front, and r after.*)
Takes(q, n, p, r) ==
    /\ Whole(r, n) /\ TakenOf(q, n) = p.seq - 1 /\ TakenOf(r, n) = p.seq
    /\ \A i \in 1..Len(r) : \E j \in 1..Len(q) : r[i] = q[j]

(* The packet at the front of a stream is taken off it.                    *)
LEMMA TakeFirst ==
    ASSUME NEW q \in Seq(Pieces), NEW n \in Nat, Whole(q, n), q # <<>>,
           NEW p, NEW m \in Nat, NEW r, AtFront(q, p, m, r)
    PROVE  Takes(q, n, p, r)
<1>1. Len(q) \in Nat /\ Len(q) >= 1 /\ 1 \in 1..Len(q)
  BY EmptySeq, LenProperties
<1>2. /\ q[1].i = 1 /\ q[1].p = p /\ p.seq \in Nat
      /\ m \in Nat /\ m = Size(q, 1) /\ m = Layout[p.type].total
  <2>1. q[1] \in Pieces
    BY <1>1, ElementOfSeq
  <2>2. q[1].p \in Packets
    BY <2>1 DEF Pieces
  <2>3. q[1].p.seq \in Nat /\ Layout[q[1].p.type].total \in Nat
    BY <2>2, EmbassyAssumption DEF Packets
  <2> QED BY <2>3 DEF Whole, AtFront, Size
<1>3. PICK g \in 0 .. Len(q) : Belongs(q, 1, g, m, n)
  BY <1>1, <1>2 DEF Whole
<1>4. /\ g = 0 /\ m >= 1 /\ m <= Len(q)
      /\ \A j \in 1 .. m : q[j] = [p |-> p, i |-> j]
      /\ m = Len(q) => p.seq = n
      /\ m # Len(q) => q[m + 1].i = 1 /\ q[m + 1].p.seq = p.seq + 1
  <2>1. g = 0
    BY <1>2, <1>3 DEF Belongs
  <2>2. Belongs(q, 1, 0, m, n)
    BY <1>3, <2>1
  <2>3. 0 + m = m /\ \A j \in 1..m : 0 + j = j
    OBVIOUS
  <2>4. m >= 1 /\ m <= Len(q)
    BY <1>2, <2>2, <2>3 DEF Belongs
  <2>5. \A j \in 1 .. m : q[0 + j] = [p |-> p, i |-> j]
    BY <1>2, <2>2 DEF Belongs
  <2>6. \A j \in 1 .. m : q[j] = [p |-> p, i |-> j]
    BY <2>3, <2>5
  <2>7. m = Len(q) => p.seq = n
    BY <1>2, <2>2, <2>3 DEF Belongs
  <2>8. m # Len(q) => q[m + 1].i = 1 /\ q[m + 1].p.seq = p.seq + 1
    BY <1>2, <2>2, <2>3 DEF Belongs
  <2> QED BY <2>1, <2>4, <2>6, <2>7, <2>8
<1>5. /\ r \in Seq(Pieces) /\ Len(r) = Len(q) - m
      /\ \A i \in 1..(Len(q) - m) : r[i] = q[m + i]
  <2>0. r = SubSeq(q, m + 1, Len(q))
    BY DEF AtFront
  <2>1. \A i \in (m + 1)..Len(q) : q[i] \in Pieces
    BY <1>1, <1>2, ElementOfSeq
  <2>2. m + 1 \in Int /\ Len(q) \in Int /\ Len(q) - (m + 1) + 1 = Len(q) - m
    BY <1>1, <1>2
  <2>3. /\ r \in Seq(Pieces) /\ Len(r) = IF m + 1 <= Len(q) THEN Len(q) - (m + 1) + 1 ELSE 0
        /\ \A i \in 1..(Len(q) - (m + 1) + 1) : r[i] = q[(m + 1) + i - 1]
    BY <2>0, <2>1, <2>2, SubSeqProperties
  <2>4. \A i \in 1..(Len(q) - m) : (m + 1) + i - 1 = m + i
    OBVIOUS
  <2>5. Len(r) = Len(q) - m
    <3>1. Len(r) = IF m + 1 <= Len(q) THEN Len(q) - (m + 1) + 1 ELSE 0
      BY <2>3
    <3>2. CASE m + 1 <= Len(q)
      BY <2>2, <3>1, <3>2
    <3>3. CASE ~(m + 1 <= Len(q))
      <4>1. Len(r) = 0 /\ m = Len(q)
        BY <1>1, <1>4, <3>1, <3>3
      <4> QED BY <1>1, <4>1
    <3> QED BY <3>2, <3>3
  <2> QED BY <2>2, <2>3, <2>4, <2>5
<1>6. r # <<>> => m # Len(q) /\ 1 \in 1..(Len(q) - m) /\ r[1] = q[m + 1]
  <2> SUFFICES ASSUME r # <<>> PROVE m # Len(q) /\ 1 \in 1..(Len(q) - m) /\ r[1] = q[m + 1]
    OBVIOUS
  <2>1. Len(r) \in Nat \ {0}
    BY <1>5, EmptySeq
  <2>2. m # Len(q) /\ 1 \in 1..(Len(q) - m)
    BY <1>1, <1>4, <1>5, <2>1
  <2> QED BY <1>5, <2>2
<1>7. r = <<>> => m = Len(q)
  <2>1. Len(<<>>) = 0
    OBVIOUS
  <2>2. ASSUME r = <<>> PROVE Len(r) = 0
    BY <2>1, <2>2, Zenon
  <2> QED BY <1>1, <1>5, <2>2
<1>8. TakenOf(q, n) = p.seq - 1
  BY <1>2 DEF TakenOf
<1>9. TakenOf(r, n) = p.seq
  <2>1. CASE r = <<>>
    BY <1>4, <1>7, <2>1 DEF TakenOf
  <2>2. CASE r # <<>>
    <3>1. r[1].p.seq = p.seq + 1
      BY <1>4, <1>6, <2>2
    <3> QED BY <1>2, <2>2, <3>1 DEF TakenOf
  <2> QED BY <2>1, <2>2
<1>10. ASSUME NEW i \in 1..Len(r)
       PROVE  \E f \in 0 .. Len(r) : Belongs(r, i, f, Size(r, i), n)
  <2>1. m + i \in 1..Len(q) /\ r[i] = q[m + i] /\ i \in Nat /\ i >= 1 /\ m + i \in Nat
    BY <1>1, <1>2, <1>4, <1>5
  <2>2. PICK M : M = Size(r, i)
    OBVIOUS
  <2>3. PICK f \in 0 .. Len(q) : Belongs(q, m + i, f, M, n)
    BY <2>1, <2>2 DEF Whole, Size
  <2>4. /\ r[i].i = (m + i) - f /\ r[i].i \in 1..M /\ f + M <= Len(q)
        /\ \A j \in 1 .. M : q[f + j] = [p |-> r[i].p, i |-> j]
        /\ f + M = Len(q) => r[i].p.seq = n
        /\ f + M # Len(q) => q[f + M + 1].i = 1 /\ q[f + M + 1].p.seq = r[i].p.seq + 1
    BY <2>1, <2>3 DEF Belongs
  <2>5. M \in Nat
    <3>1. r[i] \in Pieces
      BY <1>5, ElementOfSeq
    <3>2. r[i].p \in Packets
      BY <3>1 DEF Pieces
    <3> QED BY <2>2, <3>2, EmbassyAssumption DEF Packets, Size
  <2>6. f >= m
    <3> SUFFICES ASSUME f < m PROVE FALSE
      BY <1>4
    <3>1. f + 1 \in 1..m /\ 1 \in 1..M
      BY <2>3, <2>4, <2>5
    <3>2. q[f + 1] = [p |-> p, i |-> f + 1] /\ q[f + 1] = [p |-> r[i].p, i |-> 1]
      BY <1>4, <2>4, <3>1
    <3>3. f = 0 /\ r[i].p = p
      BY <2>3, <3>2
    <3>4. M = m
      BY <1>2, <2>2, <3>3 DEF Size
    <3> QED BY <2>1, <2>4, <3>3, <3>4
  <2>7. f - m \in Nat
    BY <2>3, <2>6
  <2>8. \A j \in 1..M : j \in Nat /\ (f - m) + j \in 1..(Len(q) - m) /\ m + ((f - m) + j) = f + j
    BY <1>1, <2>3, <2>4, <2>5, <2>6
  <2>9. ASSUME NEW j \in 1..M PROVE r[(f - m) + j] = [p |-> r[i].p, i |-> j]
    <3>1. r[(f - m) + j] = q[f + j]
      BY <1>5, <2>8
    <3> QED BY <2>4, <3>1
  <2>10. /\ r[i].i = i - (f - m) /\ (f - m) + M <= Len(r)
         /\ (f - m) + M = Len(r) <=> f + M = Len(q)
    BY <1>1, <1>5, <2>1, <2>3, <2>4, <2>5
  <2>11. ASSUME f + M # Len(q)
         PROVE  /\ r[(f - m) + M + 1].i = 1 /\ r[(f - m) + M + 1].p.seq = r[i].p.seq + 1
    <3>1. (f - m) + M + 1 \in 1..(Len(q) - m) /\ m + ((f - m) + M + 1) = f + M + 1
      BY <1>1, <2>3, <2>4, <2>5, <2>6, <2>11
    <3>2. PICK k : k = (f - m) + M + 1
      OBVIOUS
    <3>3. r[k] = q[f + M + 1]
      BY <1>5, <3>1, <3>2
    <3> QED BY <2>4, <2>11, <3>2, <3>3
  <2>12. Belongs(r, i, f - m, M, n)
    BY <2>4, <2>7, <2>9, <2>10, <2>11 DEF Belongs
  <2>13. f - m \in 0 .. Len(r)
    BY <1>1, <1>4, <1>5, <2>4, <2>5, <2>7
  <2> QED BY <2>2, <2>12, <2>13
<1>11. Whole(r, n)
  <2>1. r # <<>> => r[1].i = 1
    BY <1>4, <1>6
  <2> QED BY <1>10, <2>1 DEF Whole
<1>12. ASSUME NEW i \in 1..Len(r) PROVE \E j \in 1..Len(q) : r[i] = q[j]
  <2>1. m + i \in 1..Len(q) /\ r[i] = q[m + i]
    BY <1>1, <1>2, <1>4, <1>5
  <2> QED BY <2>1
<1> QED BY <1>8, <1>9, <1>11, <1>12 DEF Takes

(* u is all of packet p, number n + 1, and r is q with u behind it. *)
WithLast(r, q, u, p, n) ==
    /\ u = Units(p) /\ r = q \o u /\ p.seq = n + 1

(* A stream of n packets is q before p is written behind it, and r after.  *)
Adds(q, n, p, r) ==
    /\ Whole(r, n + 1) /\ TakenOf(r, n + 1) = TakenOf(q, n)
    /\ \A i \in 1..Len(r) : r[i].p = p \/ \E j \in 1..Len(q) : r[i] = q[j]

(* The client writes the next packet behind the others.                    *)
LEMMA AddLast ==
    ASSUME NEW q \in Seq(Pieces), NEW n \in Nat, Whole(q, n),
           NEW p \in Packets, NEW u \in Seq(Pieces), NEW r, WithLast(r, q, u, p, n)
    PROVE  Adds(q, n, p, r)
<1>1. PICK l, m : l = Len(q) /\ m = Layout[p.type].total
  OBVIOUS
<1>2. l \in Nat /\ m \in Nat /\ m >= 1
  <2>1. p.type \in DOMAIN Layout
    BY DEF Packets
  <2>2. Layout[p.type].total \in Nat /\ Layout[p.type].total >= 1
    BY <2>1, EmbassyAssumption
  <2> QED BY <1>1, <2>2, LenProperties
<1>3. u = [j \in 1..m |-> [p |-> p, i |-> j]]
  BY <1>1 DEF WithLast, Units
<1>4. DOMAIN u = 1..m /\ \A j \in 1..m : u[j] = [p |-> p, i |-> j]
  BY <1>3
<1>5. Len(u) = m
  BY <1>2, <1>4, LenProperties
<1>6. /\ r \in Seq(Pieces) /\ Len(r) = l + m
      /\ \A i \in 1..(l + m) : r[i] = IF i <= l THEN q[i] ELSE u[i - l]
  <2>1. r = q \o u
    BY DEF WithLast
  <2>2. PICK v : v = q \o u
    OBVIOUS
  <2>3. /\ v \in Seq(Pieces) /\ Len(v) = Len(q) + Len(u)
        /\ \A i \in 1..(Len(q) + Len(u)) : v[i] = IF i <= Len(q) THEN q[i] ELSE u[i - Len(q)]
    BY <2>2, ConcatProperties
  <2>4. v = r
    BY <2>1, <2>2
  <2> QED BY <1>1, <1>5, <2>3, <2>4
<1>7. ASSUME NEW i \in 1..l PROVE i \in 1..(l + m) /\ r[i] = q[i]
  BY <1>2, <1>6
<1>8. ASSUME NEW j \in 1..m PROVE l + j \in 1..(l + m) /\ r[l + j] = [p |-> p, i |-> j]
  <2>1. l + j \in 1..(l + m) /\ ~(l + j <= l) /\ (l + j) - l = j
    BY <1>2
  <2> QED BY <1>4, <1>6, <2>1
<1>9. ASSUME NEW i \in 1..(l + m) PROVE i \in 1..l \/ \E j \in 1..m : i = l + j
  <2> SUFFICES ASSUME i \notin 1..l PROVE \E j \in 1..m : i = l + j
    OBVIOUS
  <2>1. i - l \in 1..m /\ i = l + (i - l)
    BY <1>2
  <2> QED BY <2>1
<1>10. /\ 1 \in 1..m /\ r[l + 1].i = 1 /\ r[l + 1].p = p /\ p.seq = n + 1
  <2>1. 1 \in 1..m
    BY <1>2
  <2>2. r[l + 1] = [p |-> p, i |-> 1]
    BY <1>8, <2>1
  <2> QED BY <2>1, <2>2 DEF WithLast
<1>11. ASSUME NEW i \in 1..l
       PROVE  \E f \in 0 .. Len(r) : Belongs(r, i, f, Size(r, i), n + 1)
  <2>1. PICK M : M = Size(q, i)
    OBVIOUS
  <2>2. r[i] = q[i] /\ M = Size(r, i)
    BY <1>7, <2>1 DEF Size
  <2>3. PICK f \in 0 .. l : Belongs(q, i, f, M, n)
    BY <1>1, <2>1 DEF Whole
  <2>4. M \in Nat
    <3>1. q[i] \in Pieces
      BY <1>1, ElementOfSeq
    <3>2. q[i].p \in Packets
      BY <3>1 DEF Pieces
    <3> QED BY <2>1, <3>2, EmbassyAssumption DEF Packets, Size
  <2>5. /\ r[i].i = i - f /\ r[i].i \in 1..M /\ f + M <= l
        /\ \A j \in 1 .. M : q[f + j] = [p |-> r[i].p, i |-> j]
        /\ f + M = l => r[i].p.seq = n
        /\ f + M # l => q[f + M + 1].i = 1 /\ q[f + M + 1].p.seq = r[i].p.seq + 1
    BY <1>1, <2>2, <2>3 DEF Belongs
  <2>6. ASSUME NEW j \in 1..M PROVE r[f + j] = [p |-> r[i].p, i |-> j]
    <3>1. f + j \in 1..l
      BY <1>2, <2>3, <2>4, <2>5
    <3> QED BY <1>7, <2>5, <3>1
  <2>7. f + M # Len(r) /\ f + M <= Len(r) /\ f \in 0 .. Len(r)
    BY <1>2, <1>6, <2>3, <2>4, <2>5
  <2>8. r[f + M + 1].i = 1 /\ r[f + M + 1].p.seq = r[i].p.seq + 1
    <3>1. CASE f + M = l
      BY <1>10, <2>5, <3>1
    <3>2. CASE f + M # l
      <4>1. f + M + 1 \in 1..l
        BY <1>2, <2>3, <2>4, <2>5, <3>2
      <4>2. PICK k : k = f + M + 1
        OBVIOUS
      <4>3. r[k] = q[k]
        BY <1>7, <4>1, <4>2
      <4> QED BY <2>5, <3>2, <4>2, <4>3
    <3> QED BY <3>1, <3>2
  <2>9. Belongs(r, i, f, M, n + 1)
    BY <2>5, <2>6, <2>7, <2>8 DEF Belongs
  <2> QED BY <2>2, <2>7, <2>9
<1>12. ASSUME NEW k \in 1..m
       PROVE  \E f \in 0 .. Len(r) : Belongs(r, l + k, f, Size(r, l + k), n + 1)
  <2>1. PICK i : i = l + k
    OBVIOUS
  <2>2. r[i] = [p |-> p, i |-> k]
    BY <1>8, <2>1
  <2>3. r[i].p = p /\ r[i].i = k
    BY <2>2
  <2>4. Size(r, i) = m
    BY <1>1, <2>3 DEF Size
  <2>5. k = i - l /\ l \in 0 .. Len(r) /\ l + m <= Len(r) /\ l + m = Len(r)
    BY <1>2, <1>6, <2>1
  <2>6. \A j \in 1..m : r[l + j] = [p |-> r[i].p, i |-> j]
    BY <1>8, <2>3
  <2>7. Belongs(r, i, l, m, n + 1)
    BY <1>10, <2>3, <2>5, <2>6 DEF Belongs
  <2> QED BY <2>1, <2>4, <2>5, <2>7
<1>13. (q = <<>> => l = 0) /\ (q # <<>> => l # 0 /\ 1 \in 1..l /\ r[1] = q[1])
  <2>1. ASSUME q # <<>> PROVE l # 0 /\ 1 \in 1..l /\ r[1] = q[1]
    <3>1. l \in Nat \ {0}
      BY <1>1, <2>1, EmptySeq
    <3>2. 1 \in 1..l
      BY <3>1
    <3> QED BY <1>7, <3>1, <3>2
  <2>2. Len(<<>>) = 0
    OBVIOUS
  <2>3. ASSUME q = <<>> PROVE l = 0
    BY <1>1, <2>2, <2>3, Zenon
  <2> QED BY <2>1, <2>3
<1>14. r # <<>> /\ r[1].i = 1 /\ TakenOf(r, n + 1) = TakenOf(q, n)
  <2>1. r # <<>>
    <3>1. Len(<<>>) = 0
      OBVIOUS
    <3>2. ASSUME r = <<>> PROVE Len(r) = 0
      BY <3>1, <3>2, Zenon
    <3> QED BY <1>2, <1>6, <3>2
  <2>2. CASE q = <<>>
    <3>1. r[1].i = 1 /\ r[1].p.seq = n + 1
      <4>1. l + 1 = 1
        BY <1>13, <2>2
      <4> QED BY <1>10, <4>1
    <3> QED BY <2>1, <2>2, <3>1 DEF TakenOf
  <2>3. CASE q # <<>>
    BY <1>13, <2>1, <2>3 DEF TakenOf, Whole
  <2> QED BY <2>1, <2>2, <2>3
<1>15. Whole(r, n + 1)
  <2>1. \A i \in 1 .. Len(r) : \E f \in 0 .. Len(r) : Belongs(r, i, f, Size(r, i), n + 1)
    BY <1>6, <1>9, <1>11, <1>12
  <2> QED BY <1>14, <2>1 DEF Whole
<1>16. ASSUME NEW i \in 1..Len(r) PROVE r[i].p = p \/ \E j \in 1..Len(q) : r[i] = q[j]
  <2>1. CASE i \in 1..l
    BY <1>1, <1>7, <2>1
  <2>2. ASSUME NEW j \in 1..m, i = l + j PROVE r[i].p = p
    <3>1. r[l + j] = [p |-> p, i |-> j]
      BY <1>8
    <3>2. r[i] = r[l + j] /\ [p |-> p, i |-> j].p = p
      BY <2>2
    <3> QED BY <3>1, <3>2
  <2> QED BY <1>6, <1>9, <2>1, <2>2
<1> QED BY <1>14, <1>15, <1>16 DEF Adds

-----------------------------------------------------------------------------
(* Units on their way from a client to its task. *)

(* A queue in two parts is whole again.                                    *)
LEMMA TwoParts ==
    ASSUME NEW M, NEW u \in Seq(M), NEW n \in 1..Len(u)
    PROVE  /\ SubSeq(u, 1, n) \in Seq(M) /\ SubSeq(u, n + 1, Len(u)) \in Seq(M)
           /\ SubSeq(u, 1, n) \o SubSeq(u, n + 1, Len(u)) = u
<1>1. Len(u) \in Nat /\ n \in Nat
  BY LenProperties
<1>2. /\ 1 \in 1..Len(u) + 1 /\ n \in (1 - 1)..Len(u) /\ Len(u) \in n..Len(u)
  BY <1>1
<1>3. SubSeq(u, 1, n) \o SubSeq(u, n + 1, Len(u)) = SubSeq(u, 1, Len(u))
  BY <1>2, ConcatAdjacentSubSeq
<1>4. SubSeq(u, 1, Len(u)) = u
  BY SubSeqFull
<1>5. \A i \in 1..Len(u) : u[i] \in M
  BY ElementOfSeq
<1>6. SubSeq(u, 1, n) \in Seq(M)
  BY <1>1, <1>5, SubSeqProperties
<1>7. SubSeq(u, n + 1, Len(u)) \in Seq(M)
  BY <1>1, <1>5, SubSeqProperties
<1> QED BY <1>3, <1>4, <1>6, <1>7

(* The stream before and after the units x, of x and y in the socket, have *)
(* moved to the buffer a; c is not yet in the socket.                      *)
ReadFrom(a, x, y, c) == a \o ((x \o y) \o c)
ReadTo(a, x, y, c) == (a \o x) \o (y \o c)

(* Units that move from the socket to the buffer keep their place.         *)
LEMMA ReadMoves ==
    ASSUME NEW M, NEW a \in Seq(M), NEW x \in Seq(M), NEW y \in Seq(M), NEW c \in Seq(M)
    PROVE  ReadTo(a, x, y, c) = ReadFrom(a, x, y, c)
<1>1. y \o c \in Seq(M)
  BY ConcatProperties
<1>2. (a \o x) \o (y \o c) = a \o (x \o (y \o c))
  BY <1>1, ConcatAssociative
<1>3. (x \o y) \o c = x \o (y \o c)
  BY ConcatAssociative
<1> QED BY <1>2, <1>3, Zenon DEF ReadFrom, ReadTo

(* The stream when x of a packet is written and y is to come, behind what  *)
(* is in the buffer, a, and in the socket, b; and the packet behind it.    *)
SentTo(a, b, x, y) == a \o ((b \o x) \o y)
SentBehind(a, b, x, y) == (a \o (b \o <<>>)) \o (x \o y)

(* A packet written in two parts is behind all the others.                 *)
LEMMA SendMoves ==
    ASSUME NEW M, NEW a \in Seq(M), NEW b \in Seq(M), NEW x \in Seq(M), NEW y \in Seq(M)
    PROVE  SentTo(a, b, x, y) = SentBehind(a, b, x, y)
<1>1. (b \o x) \o y = b \o (x \o y)
  BY ConcatAssociative
<1>2. b \o <<>> = b
  BY ConcatEmptySeq
<1>3. x \o y \in Seq(M)
  BY ConcatProperties
<1>4. (a \o b) \o (x \o y) = a \o (b \o (x \o y))
  BY <1>3, ConcatAssociative
<1> QED BY <1>1, <1>2, <1>4, Zenon DEF SentTo, SentBehind

(* The queue u in two parts, a and b, of which the first has n items. *)
Parts(u, a, b, n) ==
    /\ n \in 1..Len(u)
    /\ a = SubSeq(u, 1, n) /\ b = SubSeq(u, n + 1, Len(u))

(* What is taken from the front of the buffer is taken from the front of   *)
(* all that is on its way.                                                 *)
LEMMA TakeMoves ==
    ASSUME NEW M, NEW a \in Seq(M), NEW c \in Seq(M), NEW m \in Nat, m <= Len(a)
    PROVE  SubSeq(a, m + 1, Len(a)) \o c = SubSeq(a \o c, m + 1, Len(a \o c))
<1>1. PICK w, l, n : w = a \o c /\ l = Len(a) /\ n = Len(c)
  OBVIOUS
<1>2. /\ l \in Nat /\ n \in Nat /\ w \in Seq(M) /\ Len(w) = l + n /\ m <= l
      /\ \A i \in 1..(l + n) : w[i] = IF i <= l THEN a[i] ELSE c[i - l]
  BY <1>1, ConcatProperties, LenProperties
<1>3. PICK x : x = SubSeq(a, m + 1, l)
  OBVIOUS
<1>4. x \in Seq(M) /\ Len(x) = l - m /\ \A i \in 1..(l - m) : x[i] = a[m + i]
  <2>1. \A i \in (m + 1)..l : a[i] \in M
    BY <1>1, <1>2, ElementOfSeq
  <2>2. /\ x \in Seq(M) /\ Len(x) = IF m + 1 <= l THEN l - (m + 1) + 1 ELSE 0
        /\ \A i \in 1..(l - (m + 1) + 1) : x[i] = a[(m + 1) + i - 1]
    BY <1>2, <1>3, <2>1, SubSeqProperties
  <2>3. Len(x) = l - m /\ l - (m + 1) + 1 = l - m
    BY <1>2, <2>2
  <2>4. \A i \in 1..(l - m) : (m + 1) + i - 1 = m + i
    BY <1>2
  <2> QED BY <2>2, <2>3, <2>4
<1>5. PICK y : y = SubSeq(w, m + 1, l + n)
  OBVIOUS
<1>6. y \in Seq(M) /\ Len(y) = (l + n) - m /\ \A i \in 1..((l + n) - m) : y[i] = w[m + i]
  <2>1. \A i \in (m + 1)..(l + n) : w[i] \in M
    BY <1>2, ElementOfSeq
  <2>2. /\ y \in Seq(M) /\ Len(y) = IF m + 1 <= l + n THEN (l + n) - (m + 1) + 1 ELSE 0
        /\ \A i \in 1..((l + n) - (m + 1) + 1) : y[i] = w[(m + 1) + i - 1]
    BY <1>2, <1>5, <2>1, SubSeqProperties
  <2>3. Len(y) = (l + n) - m /\ (l + n) - (m + 1) + 1 = (l + n) - m
    BY <1>2, <2>2
  <2>4. \A i \in 1..((l + n) - m) : (m + 1) + i - 1 = m + i
    BY <1>2
  <2> QED BY <2>2, <2>3, <2>4
<1>7. PICK z : z = x \o c
  OBVIOUS
<1>8. /\ z \in Seq(M) /\ Len(z) = (l - m) + n
      /\ \A i \in 1..((l - m) + n) : z[i] = IF i <= l - m THEN x[i] ELSE c[i - (l - m)]
  <2>1. /\ x \o c \in Seq(M) /\ Len(x \o c) = Len(x) + Len(c)
        /\ \A i \in 1..(Len(x) + Len(c)) :
             (x \o c)[i] = IF i <= Len(x) THEN x[i] ELSE c[i - Len(x)]
    <3>1. x \in Seq(M)
      BY <1>4
    <3> QED BY <3>1, ConcatProperties
  <2>2. Len(x) = l - m /\ Len(c) = n
    BY <1>1, <1>4
  <2> QED BY <1>7, <2>1, <2>2
<1>9. ASSUME NEW i \in 1..Len(z) PROVE z[i] = y[i]
  <2>1. /\ i \in 1..((l + n) - m) /\ i \in 1..((l - m) + n) /\ m + i \in 1..(l + n)
        /\ i <= l - m => i \in 1..(l - m)
        /\ m + i <= l <=> i <= l - m
        /\ i - (l - m) = (m + i) - l
    BY <1>2, <1>8
  <2>2. y[i] = IF m + i <= l THEN a[m + i] ELSE c[(m + i) - l]
    BY <1>2, <1>6, <2>1
  <2>3. z[i] = IF i <= l - m THEN x[i] ELSE c[i - (l - m)]
    BY <1>8, <2>1
  <2> QED BY <1>4, <2>1, <2>2, <2>3
<1>10. Len(z) = Len(y)
  BY <1>2, <1>6, <1>8
<1>11. z = y
  BY <1>6, <1>8, <1>9, <1>10, SeqEqual
<1> QED BY <1>1, <1>2, <1>3, <1>5, <1>7, <1>11

(* Units a client has written, or begun to write, that are not decoded. *)
Stream(k) == rx_buffer[k] \o (socket[k] \o unsent[k])

(* How many packets of slot k's client have been decoded, and handled. *)
Taken(k) == TakenOf(Stream(k), sent[k])
Handled(k) == IF pc[k] = "process" THEN Taken(k) - 1 ELSE Taken(k)

Own(p, s) == p.from = s /\ p.type \in ClientKinds[s]

(* Of the packets of its client, numbered in order, a slot has the next    *)
(* one at work, and the others are on their way.                           *)
StreamOk(k) ==
    /\ Whole(Stream(k), sent[k])
    /\ \A i \in 1..Len(Stream(k)) : Own(Stream(k)[i].p, session[k])
    /\ pc[k] = "process" => Own(packet[k], session[k]) /\ packet[k].seq = Taken(k)

StreamInv == \A k \in Slots : session[k] # 0 => StreamOk(k)

(* No packet of slot k's session is counted as handled; or the session is  *)
(* new.                                                                    *)
Moves(k) ==
    \/ session'[k] = session[k] /\ Handled(k)' = Handled(k)
    \/ session'[k] = next_id

(* The types of what streams are made of.                                  *)
LEMMA StreamTyped ==
    ASSUME TypeInv, NEW k \in Slots
    PROVE  /\ rx_buffer[k] \in Seq(Pieces) /\ socket[k] \in Seq(Pieces)
           /\ unsent[k] \in Seq(Pieces) /\ socket[k] \o unsent[k] \in Seq(Pieces)
           /\ Stream(k) \in Seq(Pieces) /\ sent[k] \in Nat
<1>1. /\ rx_buffer[k] \in Seq(Pieces) /\ socket[k] \in Seq(Pieces)
      /\ unsent[k] \in Seq(Pieces) /\ sent[k] \in Nat
  BY DEF TypeInv
<1>2. socket[k] \o unsent[k] \in Seq(Pieces)
  BY <1>1, ConcatProperties
<1>3. rx_buffer[k] \o (socket[k] \o unsent[k]) \in Seq(Pieces)
  BY <1>1, <1>2, ConcatProperties
<1> QED BY <1>1, <1>2, <1>3 DEF Stream

(* Nothing about the stream of slot k changes.                             *)
LEMMA StreamStays ==
    ASSUME StreamInv, NEW k \in Slots, session'[k] # 0, session'[k] = session[k],
           Stream(k)' = Stream(k), sent'[k] = sent[k],
           pc'[k] = "process" <=> pc[k] = "process",
           pc'[k] = "process" => packet'[k] = packet[k]
    PROVE  StreamOk(k)' /\ Moves(k)
<1>1. StreamOk(k)
  BY DEF StreamInv
<1>2. Taken(k)' = Taken(k)
  BY DEF Taken
<1>3. Handled(k)' = Handled(k)
  BY <1>2 DEF Handled
<1> QED BY <1>1, <1>2, <1>3 DEF StreamOk, Moves

(* Units are read from the socket (io.rs).                                 *)
LEMMA ReadSocketStream ==
    ASSUME TypeInv, NEW k \in Slots, ReadSocket(k)
    PROVE  Stream(k)' = Stream(k)
<1>1. PICK n, a, b, c, x, y :
        /\ a = rx_buffer[k] /\ b = socket[k] /\ c = unsent[k] /\ Parts(b, x, y, n)
        /\ rx_buffer' = [rx_buffer EXCEPT ![k] = a \o x] /\ socket' = [socket EXCEPT ![k] = y]
  <2>1. PICK n \in 1 .. Room(k) :
          /\ n <= Len(socket[k])
          /\ rx_buffer' = [rx_buffer EXCEPT ![k] = @ \o SubSeq(socket[k], 1, n)]
          /\ socket' = [socket EXCEPT ![k] = SubSeq(@, n + 1, Len(@))]
    BY DEF ReadSocket
  <2>2. n \in 1..Len(socket[k])
    <3>1. Len(socket[k]) \in Nat /\ Len(rx_buffer[k]) \in Nat
      BY StreamTyped, LenProperties
    <3>2. Room(k) \in Int
      BY <3>1, EmbassyAssumption DEF Room
    <3> QED BY <2>1, <3>1, <3>2
  <2> QED BY <2>1, <2>2 DEF Parts
<1>2. a \in Seq(Pieces) /\ b \in Seq(Pieces) /\ c \in Seq(Pieces)
  BY <1>1, StreamTyped
<1>3. x \in Seq(Pieces) /\ y \in Seq(Pieces) /\ x \o y = b
  BY <1>1, <1>2, TwoParts DEF Parts
<1>4. ReadTo(a, x, y, c) = ReadFrom(a, x, y, c)
  <2>1. x \in Seq(Pieces) /\ y \in Seq(Pieces)
    BY <1>3
  <2> QED BY <1>2, <2>1, ReadMoves
<1>5. rx_buffer'[k] = a \o x /\ socket'[k] = y /\ unsent'[k] = c
  <2>1. k \in DOMAIN rx_buffer /\ k \in DOMAIN socket
    BY DEF TypeInv
  <2>2. unsent' = unsent
    BY DEF ReadSocket
  <2> QED BY <1>1, <2>1, <2>2
<1>6. Stream(k) = a \o (b \o c) /\ Stream(k)' = (a \o x) \o (y \o c)
  BY <1>1, <1>5, Zenon DEF Stream
<1> QED BY <1>3, <1>4, <1>6, Zenon DEF ReadTo, ReadFrom

(* A packet is taken out of the buffer (io.rs read_packet).                *)
LEMMA ReadPacketStream ==
    ASSUME TypeInv, StreamInv, NEW k \in Slots, session[k] # 0, ReadPacket(k)
    PROVE  StreamOk(k)' /\ Handled(k)' = Handled(k)
<1>1. /\ packet' = [packet EXCEPT ![k] = First(k)]
      /\ rx_buffer' = [rx_buffer EXCEPT ![k] = Decoded(k)]
      /\ pc' = [pc EXCEPT ![k] = "process"] /\ pc[k] = "read_packet"
      /\ socket' = socket /\ unsent' = unsent /\ sent' = sent /\ session' = session
      /\ Len(rx_buffer[k]) >= 2 /\ Complete(k)
  BY DEF ReadPacket, Set, Go, client
<1>2. PICK a, c, q, p, m, n :
        /\ a = rx_buffer[k] /\ c = socket[k] \o unsent[k] /\ q = Stream(k) /\ n = sent[k]
        /\ p = First(k) /\ m = Layout[p.type].total
  OBVIOUS
<1>3. /\ a \in Seq(Pieces) /\ c \in Seq(Pieces) /\ q \in Seq(Pieces) /\ n \in Nat
      /\ q = a \o c
  BY <1>2, StreamTyped DEF Stream
<1>4. p \in Packets
  BY <1>1, <1>2, DecodedTyped
<1>5. m \in Nat /\ m <= Len(a)
  <2>1. p.type \in DOMAIN Layout
    BY <1>4 DEF Packets
  <2>2. m \in Nat
    BY <1>2, <2>1, EmbassyAssumption
  <2> QED BY <1>1, <1>2, <2>2 DEF Complete
<1>6. PICK r : r = SubSeq(q, m + 1, Len(q))
  OBVIOUS
<1>7. Decoded(k) = SubSeq(a, m + 1, Len(a))
  BY <1>2 DEF Decoded
<1>8. SubSeq(a, m + 1, Len(a)) \o c = SubSeq(a \o c, m + 1, Len(a \o c))
  <2>1. a \in Seq(Pieces) /\ c \in Seq(Pieces)
    BY <1>3
  <2> QED BY <1>5, <2>1, TakeMoves
<1>9. Stream(k)' = r
  <2>1. k \in DOMAIN rx_buffer
    BY DEF TypeInv
  <2>2. rx_buffer'[k] = Decoded(k)
    BY <1>1, <2>1
  <2>3. Stream(k)' = Decoded(k) \o c
    BY <1>1, <1>2, <2>2, Zenon DEF Stream
  <2> QED BY <1>3, <1>6, <1>7, <1>8, <2>3, Zenon
<1>10. q # <<>> /\ q[1].p = p
  <2>1. Len(a) \in Nat /\ Len(a) >= 2 /\ Len(c) \in Nat
    BY <1>1, <1>2, <1>3, LenProperties
  <2>2. /\ Len(a \o c) = Len(a) + Len(c)
        /\ \A i \in 1..(Len(a) + Len(c)) : (a \o c)[i] = IF i <= Len(a) THEN a[i] ELSE c[i - Len(a)]
    BY <1>3, ConcatProperties
  <2>3. 1 \in 1..(Len(a) + Len(c)) /\ 1 <= Len(a)
    BY <2>1
  <2>4. q[1] = a[1]
    BY <1>3, <2>2, <2>3
  <2>5. Len(q) # 0 /\ Len(<<>>) = 0
    BY <1>3, <2>1, <2>2
  <2>6. q # <<>>
    BY <2>5, Zenon
  <2> QED BY <1>2, <2>4, <2>6 DEF First
<1>11. Whole(q, n) /\ \A i \in 1..Len(q) : Own(q[i].p, session[k])
  BY <1>2 DEF StreamInv, StreamOk
<1>12. AtFront(q, p, m, r)
  BY <1>2, <1>6, <1>10 DEF AtFront
<1>13. Takes(q, n, p, r)
  <2>1. /\ q \in Seq(Pieces) /\ n \in Nat /\ Whole(q, n) /\ q # <<>>
        /\ m \in Nat /\ AtFront(q, p, m, r)
    BY <1>3, <1>5, <1>10, <1>11, <1>12
  <2> QED BY <2>1, TakeFirst
<1>14. \A i \in 1..Len(r) : Own(r[i].p, session[k])
  BY <1>11, <1>13 DEF Takes
<1>15. Own(p, session[k])
  <2>1. Len(q) \in Nat \ {0}
    BY <1>3, <1>10, EmptySeq
  <2>2. 1 \in 1..Len(q)
    BY <2>1
  <2> QED BY <1>10, <1>11, <2>2
<1>16. packet'[k] = p /\ pc'[k] = "process"
  <2>1. k \in DOMAIN packet /\ k \in DOMAIN pc
    BY DEF TypeInv
  <2> QED BY <1>1, <1>2, <2>1
<1>17. Taken(k)' = p.seq /\ Taken(k) = p.seq - 1
  BY <1>1, <1>2, <1>9, <1>13 DEF Taken, Takes
<1>18. StreamOk(k)'
  BY <1>1, <1>2, <1>9, <1>13, <1>14, <1>15, <1>16, <1>17 DEF StreamOk, Takes
<1>19. Handled(k)' = Handled(k)
  BY <1>1, <1>16, <1>17 DEF Handled
<1> QED BY <1>18, <1>19

(* The client writes a packet, all of it or a first part.                  *)
LEMMA ClientSendsStream ==
    ASSUME TypeInv, StreamInv, NEW k \in Slots, ClientSends(k)
    PROVE  StreamOk(k)' /\ Handled(k)' = Handled(k)
<1>0. PICK p \in ClientPackets(k) : \E n \in 1 .. Layout[p.type].total :
        /\ socket' = [socket EXCEPT ![k] = @ \o SubSeq(Units(p), 1, n)]
        /\ unsent' = Set(unsent, k, SubSeq(Units(p), n + 1, Layout[p.type].total))
  BY DEF ClientSends
<1>1. PICK n \in 1 .. Layout[p.type].total :
        /\ socket' = [socket EXCEPT ![k] = @ \o SubSeq(Units(p), 1, n)]
        /\ unsent' = Set(unsent, k, SubSeq(Units(p), n + 1, Layout[p.type].total))
  BY <1>0
<1>2. /\ sent' = [sent EXCEPT ![k] = @ + 1] /\ session[k] # 0 /\ unsent[k] = <<>>
      /\ session' = session /\ rx_buffer' = rx_buffer /\ pc' = pc /\ packet' = packet
  BY DEF ClientSends, task
<1>3. /\ p \in Packets /\ p.from = session[k] /\ p.type \in ClientKinds[session[k]]
      /\ p.seq = sent[k] + 1
  <2>1. p \in Packets
    BY <1>2, UnitsTyped
  <2> QED BY <2>1 DEF ClientPackets
<1>4. PICK u, a, b, x, y, m, l :
        /\ u = Units(p) /\ a = rx_buffer[k] /\ b = socket[k] /\ Parts(u, x, y, n)
        /\ socket' = [socket EXCEPT ![k] = b \o x] /\ unsent' = [unsent EXCEPT ![k] = y]
        /\ u \in Seq(Pieces) /\ m = sent[k] /\ l = Stream(k)
  <2>1. /\ Units(p) \in Seq(Pieces) /\ Len(Units(p)) = Layout[p.type].total
    BY <1>2, UnitsTyped
  <2> QED BY <1>1, <2>1 DEF Parts, Set
<1>5. a \in Seq(Pieces) /\ b \in Seq(Pieces) /\ m \in Nat /\ l \in Seq(Pieces)
  BY <1>4, StreamTyped
<1>6. x \in Seq(Pieces) /\ y \in Seq(Pieces) /\ x \o y = u
  BY <1>4, TwoParts DEF Parts
<1>7. SentTo(a, b, x, y) = SentBehind(a, b, x, y)
  <2>1. x \in Seq(Pieces) /\ y \in Seq(Pieces)
    BY <1>6
  <2> QED BY <1>5, <2>1, SendMoves
<1>8. Stream(k)' = l \o u
  <2>1. k \in DOMAIN socket /\ k \in DOMAIN unsent
    BY DEF TypeInv
  <2>2. socket'[k] = b \o x /\ unsent'[k] = y /\ rx_buffer'[k] = a
    BY <1>2, <1>4, <2>1
  <2>3. Stream(k)' = a \o ((b \o x) \o y)
    BY <2>2, Zenon DEF Stream
  <2>4. l = a \o (b \o <<>>)
    BY <1>2, <1>4, Zenon DEF Stream
  <2> QED BY <1>6, <1>7, <2>3, <2>4, Zenon DEF SentTo, SentBehind
<1>9. PICK r : r = l \o u
  OBVIOUS
<1>10. /\ Whole(l, m) /\ \A i \in 1..Len(l) : Own(l[i].p, session[k])
       /\ pc[k] = "process" => Own(packet[k], session[k]) /\ packet[k].seq = Taken(k)
  BY <1>2, <1>4 DEF StreamInv, StreamOk
<1>11. WithLast(r, l, u, p, m)
  BY <1>3, <1>4, <1>9 DEF WithLast
<1>12. Adds(l, m, p, r)
  <2>1. l \in Seq(Pieces) /\ m \in Nat /\ Whole(l, m) /\ p \in Packets /\ u \in Seq(Pieces)
    BY <1>3, <1>4, <1>5, <1>10
  <2> QED BY <1>11, <2>1, AddLast
<1>13. \A i \in 1..Len(r) : Own(r[i].p, session[k])
  BY <1>3, <1>10, <1>12 DEF Adds, Own
<1>14. sent'[k] = m + 1
  BY <1>2, <1>4 DEF TypeInv
<1>15. Taken(k)' = Taken(k)
  BY <1>4, <1>8, <1>9, <1>12, <1>14 DEF Adds, Taken
<1>16. StreamOk(k)'
  BY <1>2, <1>8, <1>9, <1>10, <1>12, <1>13, <1>14, <1>15 DEF StreamOk, Adds
<1> QED BY <1>2, <1>15, <1>16 DEF Handled

(* The client writes the rest.                                             *)
LEMMA ClientContinuesStream ==
    ASSUME TypeInv, NEW k \in Slots, ClientContinues(k)
    PROVE  Stream(k)' = Stream(k)
<1>1. /\ socket' = [socket EXCEPT ![k] = @ \o unsent[k]]
      /\ unsent' = [unsent EXCEPT ![k] = <<>>] /\ rx_buffer' = rx_buffer
  BY DEF ClientContinues, Set, task
<1>2. PICK a, b : a = socket[k] \o unsent[k] /\ b = rx_buffer[k]
  OBVIOUS
<1>3. socket'[k] = a /\ unsent'[k] = <<>> /\ rx_buffer'[k] = b
  BY <1>1, <1>2 DEF TypeInv
<1>4. a \in Seq(Pieces)
  BY <1>2, StreamTyped
<1>5. a \o <<>> = a
  BY <1>4, ConcatEmptySeq
<1>6. Stream(k) = b \o a /\ Stream(k)' = b \o (a \o <<>>)
  BY <1>2, <1>3, Zenon DEF Stream
<1> QED BY <1>5, <1>6, Zenon

-----------------------------------------------------------------------------
(* One slot at a time. *)

(* What is under way to the client of a slot is nowhere else than where    *)
(* its task is at work with it.                                            *)
PlaceInv ==
    /\ received \in [Slots -> Seq(Replies(Packets))] /\ closed \in [Slots -> BOOLEAN]
    /\ \A k \in Slots :
         /\ tx_packets[k] # <<>> => pc[k] \in {"notify", "write"}
         /\ pc[k] \in {"register", "register_slot"} => received[k] = <<>>

(* What a task or its client does. *)
Acts(k) ==
    \/ TaskStep(k) \/ Accept(k) \/ Timeout(k)
    \/ ClientSends(k) \/ ClientContinues(k) \/ ClientCloses(k) \/ ClientStalls(k)

(* Nothing of slot j's task and client changes. *)
Untouched(j) ==
    /\ pc'[j] = pc[j] /\ session'[j] = session[j] /\ packet'[j] = packet[j]
    /\ rx_buffer'[j] = rx_buffer[j] /\ socket'[j] = socket[j] /\ unsent'[j] = unsent[j]
    /\ sent'[j] = sent[j] /\ received'[j] = received[j] /\ tx_packets'[j] = tx_packets[j]
    /\ closed'[j] = closed[j]

(* Tasks have their variables to themselves.                               *)
LEMMA OthersUntouched ==
    ASSUME TypeInv, PlaceInv, NEW k \in Slots, NEW j \in Slots, j # k, Acts(k)
    PROVE  Untouched(j)
<1>0. /\ pc \in [Slots -> Stages] /\ session \in [Slots -> 0 .. MaxAccepted]
      /\ DOMAIN packet = Slots /\ DOMAIN rx_buffer = Slots /\ DOMAIN socket = Slots
      /\ DOMAIN unsent = Slots /\ DOMAIN sent = Slots /\ DOMAIN received = Slots
      /\ DOMAIN tx_packets = Slots /\ DOMAIN closed = Slots /\ DOMAIN pc = Slots
      /\ DOMAIN session = Slots
  BY DEF TypeInv, PlaceInv
<1>1. CASE Accept(k)
  BY <1>0, <1>1 DEF Accept, Untouched, Set, Go
<1>2. CASE Register(k) \/ RegisterSession(k)
  BY <1>0, <1>2 DEF Register, RegisterSession, Untouched, Go, client
<1>3. CASE SelectRead(k) \/ ReadMore(k)
  <2>1. ReadSocket(k)
    BY <1>3 DEF SelectRead, ReadMore
  <2> QED BY <1>0, <2>1 DEF ReadSocket, Untouched, Go
<1>4. CASE ReadNothing(k) \/ ReadFails(k) \/ AllNotified(k) \/ AllWritten(k) \/ Leave(k)
           \/ Timeout(k)
  BY <1>0, <1>4 DEF ReadNothing, ReadFails, AllNotified, AllWritten, Leave, Timeout, Untouched,
                    Go, client
<1>5. CASE ReadPacket(k)
  BY <1>0, <1>5 DEF ReadPacket, Untouched, Go, Set, client
<1>6. CASE Process(k)
  <2>1. PICK b : b = Round(broker, session[k], packet[k])
    OBVIOUS
  <2>2. RoundWorked(k, b) \/ RoundFailed(k, b)
    BY <1>6, <2>1, ProcessCases
  <2>3. /\ packet' = [packet EXCEPT ![k] = NoPacket]
        /\ UNCHANGED <<session, rx_buffer, socket, unsent, sent, received, closed>>
    BY <1>6 DEF Process, Set, client
  <2>4. pc'[j] = pc[j] /\ tx_packets'[j] = tx_packets[j]
    <3>1. CASE RoundWorked(k, b)
      <4>1. /\ tx_packets' = [tx_packets EXCEPT ![k] = Collect(b.tx[session[k]])]
            /\ pc' = [pc EXCEPT ![k] = "notify"]
        BY <3>1 DEF RoundWorked, Set, Go
      <4> QED BY <1>0, <4>1
    <3>2. CASE RoundFailed(k, b)
      BY <1>0, <3>2 DEF RoundFailed, Go
    <3> QED BY <2>2, <3>1, <3>2
  <2> QED BY <1>0, <2>3, <2>4 DEF Untouched
<1>7. CASE NotifySession(k)
  BY <1>0, <1>7 DEF NotifySession, Untouched, client
<1>8. CASE WritePacket(k) \/ WriteError(k)
  BY <1>0, <1>8 DEF WritePacket, WriteError, Untouched, Set, client
<1>9. CASE ReceiveNotification(k)
  BY <1>0, <1>9 DEF ReceiveNotification, Untouched, Go, client
<1>10. CASE Flush(k)
  BY <1>0, <1>10 DEF Flush, Untouched, Set, Go, client
<1>11. CASE UnregisterSession(k) \/ RemoveBrokerSession(k)
  BY <1>0, <1>11 DEF UnregisterSession, RemoveBrokerSession, Untouched, Set, Go, client
<1>12. CASE ClientSends(k) \/ ClientContinues(k) \/ ClientCloses(k) \/ ClientStalls(k)
  BY <1>0, <1>12 DEF ClientSends, ClientContinues, ClientCloses, ClientStalls, Untouched, Set,
                     task
<1> QED BY <1>1, <1>2, <1>3, <1>4, <1>5, <1>6, <1>7, <1>8, <1>9, <1>10, <1>11, <1>12
        DEF Acts, TaskStep

(* The cleanup task, or nobody, does something.                            *)
LEMMA NobodyUntouched ==
    ASSUME UNCHANGED vars \/ \E e : CleanupScan(e)
    PROVE  /\ \A j \in Slots : Untouched(j)
           /\ UNCHANGED <<next_id, pc, session, received, tx_packets, closed, failed>>
  BY DEF vars, CleanupScan, task, client, Untouched

(* A task collects packets to write when it has none, and begins a session *)
(* whose client has got none.                                              *)
PlaceOk(k) ==
    /\ tx_packets[k] # <<>> => pc[k] \in {"notify", "write"}
    /\ pc[k] \in {"register", "register_slot"} => received[k] = <<>>

(* Every step keeps packets where they belong.                             *)
LEMMA PlaceStep ==
    ASSUME TypeInv, PlaceInv, [Next]_vars
    PROVE  PlaceInv'
<1>0. /\ pc \in [Slots -> Stages] /\ tx_packets \in [Slots -> Seq(Replies(Packets))]
      /\ received \in [Slots -> Seq(Replies(Packets))] /\ closed \in [Slots -> BOOLEAN]
      /\ \A k \in Slots : PlaceOk(k)
  BY DEF TypeInv, PlaceInv, PlaceOk
<1>1. SUFFICES /\ received' \in [Slots -> Seq(Replies(Packets))]
               /\ closed' \in [Slots -> BOOLEAN]
               /\ \A k \in Slots : PlaceOk(k)'
  BY DEF PlaceInv, PlaceOk
<1>2. CASE UNCHANGED vars \/ \E e : CleanupScan(e)
  BY <1>0, <1>2, NobodyUntouched DEF Untouched, PlaceOk
<1>3. ASSUME NEW k \in Slots, Acts(k)
      PROVE  /\ received' \in [Slots -> Seq(Replies(Packets))]
             /\ closed' \in [Slots -> BOOLEAN]
             /\ PlaceOk(k)'
  <2>1. CASE Accept(k)
    <3>1. <<>> \in Seq(Replies(Packets))
      OBVIOUS
    <3> QED BY <1>0, <2>1, <3>1 DEF Accept, PlaceOk, Set, Go
  <2>2. CASE Register(k) \/ RegisterSession(k)
    BY <1>0, <2>2 DEF Register, RegisterSession, PlaceOk, Go, client
  <2>3. CASE SelectRead(k) \/ ReadMore(k)
    <3>1. ReadSocket(k) /\ pc[k] \in {"select", "read_packet"}
      BY <2>3 DEF SelectRead, ReadMore
    <3> QED BY <1>0, <3>1 DEF ReadSocket, PlaceOk, Go
  <2>4. CASE ReadNothing(k) \/ ReadFails(k) \/ AllNotified(k) \/ AllWritten(k) \/ Leave(k)
             \/ Timeout(k)
    BY <1>0, <2>4 DEF ReadNothing, ReadFails, AllNotified, AllWritten, Leave, Timeout, PlaceOk,
                      Go, client
  <2>5. CASE ReadPacket(k)
    BY <1>0, <2>5 DEF ReadPacket, PlaceOk, Go, client
  <2>6. CASE Process(k)
    <3>1. PICK b : b = Round(broker, session[k], packet[k])
      OBVIOUS
    <3>2. RoundWorked(k, b) \/ RoundFailed(k, b)
      BY <2>6, <3>1, ProcessCases
    <3>3. pc[k] = "process" /\ received' = received /\ closed' = closed
      BY <2>6 DEF Process, client
    <3>4. pc'[k] = "notify" \/ (pc'[k] = "unregister" /\ tx_packets' = tx_packets)
      BY <1>0, <3>2 DEF RoundWorked, RoundFailed, Go
    <3> QED BY <1>0, <3>3, <3>4 DEF PlaceOk
  <2>7. CASE NotifySession(k)
    BY <1>0, <2>7 DEF NotifySession, PlaceOk, client
  <2>8. CASE WritePacket(k)
    <3>1. PICK t, m : t = Tail(tx_packets[k]) /\ m = Append(received[k], Head(tx_packets[k]))
      OBVIOUS
    <3>2. /\ received' = [received EXCEPT ![k] = m] /\ tx_packets' = [tx_packets EXCEPT ![k] = t]
          /\ tx_packets[k] # <<>> /\ pc' = pc /\ pc[k] = "write" /\ closed' = closed
      BY <2>8, <3>1 DEF WritePacket
    <3>3. Head(tx_packets[k]) \in Replies(Packets)
      BY <1>0, <3>2, TailElements
    <3>4. m \in Seq(Replies(Packets))
      BY <1>0, <3>1, <3>3, AppendProperties
    <3> QED BY <1>0, <3>2, <3>4 DEF PlaceOk
  <2>9. CASE WriteError(k)
    BY <1>0, <2>9 DEF WriteError, PlaceOk, Set, client
  <2>10. CASE ReceiveNotification(k)
    BY <1>0, <2>10 DEF ReceiveNotification, PlaceOk, Go, client
  <2>11. CASE Flush(k)
    BY <1>0, <2>11 DEF Flush, PlaceOk, Set, Go, client
  <2>12. CASE UnregisterSession(k) \/ RemoveBrokerSession(k)
    BY <1>0, <2>12 DEF UnregisterSession, RemoveBrokerSession, PlaceOk, Set, Go, client
  <2>13. CASE ClientSends(k) \/ ClientContinues(k) \/ ClientCloses(k) \/ ClientStalls(k)
    BY <1>0, <2>13 DEF ClientSends, ClientContinues, ClientCloses, ClientStalls, PlaceOk, Set,
                       task
  <2> QED BY <1>3, <2>1, <2>2, <2>3, <2>4, <2>5, <2>6, <2>7, <2>8, <2>9, <2>10, <2>11, <2>12,
             <2>13 DEF Acts, TaskStep
<1>4. ASSUME NEW k \in Slots, Acts(k), NEW j \in Slots, j # k PROVE PlaceOk(j)'
  <2>1. Untouched(j) /\ PlaceOk(j)
    BY <1>0, <1>4, OthersUntouched
  <2> QED BY <2>1 DEF Untouched, PlaceOk
<1> QED BY <1>2, <1>3, <1>4 DEF Next, Acts

(* Every step of a slot keeps its stream in order, and only Process counts *)
(* a packet as handled.                                                    *)
LEMMA OwnStream ==
    ASSUME TypeInv, TypeInv', StreamInv, NEW k \in Slots, Acts(k), session'[k] # 0
    PROVE  StreamOk(k)' /\ (Moves(k) \/ Process(k))
<1>0. /\ pc \in [Slots -> Stages] /\ session \in [Slots -> 0 .. MaxAccepted]
      /\ session' \in [Slots -> 0 .. MaxAccepted] /\ pc' \in [Slots -> Stages]
      /\ packet \in [Slots -> Packets \cup {NoPacket}]
  BY DEF TypeInv
<1>1. CASE Accept(k)
  <2>1. /\ session'[k] = next_id /\ rx_buffer'[k] = <<>> /\ socket'[k] = <<>>
        /\ unsent'[k] = <<>> /\ sent'[k] = 0 /\ pc'[k] = "register"
    BY <1>1 DEF Accept, Set, Go, TypeInv
  <2>2. <<>> \o (<<>> \o <<>>) = <<>> /\ Len(<<>>) = 0
    OBVIOUS
  <2>3. Stream(k)' = <<>>
    BY <2>1, <2>2, Zenon DEF Stream
  <2>4. Whole(<<>>, 0)
    BY <2>2 DEF Whole
  <2> QED BY <2>1, <2>2, <2>3, <2>4 DEF StreamOk, Moves
<1>2. CASE SelectRead(k) \/ ReadMore(k)
  <2>1. ReadSocket(k) /\ pc[k] # "process"
    BY <1>2 DEF SelectRead, ReadMore
  <2>2. /\ session'[k] = session[k] /\ sent'[k] = sent[k] /\ pc'[k] # "process"
    BY <1>0, <2>1 DEF ReadSocket, Go
  <2>3. Stream(k)' = Stream(k)
    BY <2>1, ReadSocketStream
  <2> QED BY <2>1, <2>2, <2>3, StreamStays
<1>3. CASE ReadPacket(k)
  <2>1. session'[k] = session[k]
    BY <1>3 DEF ReadPacket
  <2>2. StreamOk(k)' /\ Handled(k)' = Handled(k)
    BY <1>3, <2>1, ReadPacketStream
  <2> QED BY <2>1, <2>2 DEF Moves
<1>4. CASE Process(k)
  <2>1. PICK b : b = Round(broker, session[k], packet[k])
    OBVIOUS
  <2>2. RoundWorked(k, b) \/ RoundFailed(k, b)
    BY <1>4, <2>1, ProcessCases
  <2>3. pc'[k] # "process"
    BY <1>0, <2>2 DEF RoundWorked, RoundFailed, Go
  <2>4. /\ session'[k] = session[k] /\ rx_buffer' = rx_buffer /\ socket' = socket
        /\ unsent' = unsent /\ sent' = sent
    BY <1>4 DEF Process, client
  <2>5. Stream(k)' = Stream(k) /\ sent'[k] = sent[k]
    BY <2>4 DEF Stream
  <2>6. StreamOk(k)
    BY <2>4 DEF StreamInv
  <2>7. StreamOk(k)'
    BY <2>3, <2>4, <2>5, <2>6 DEF StreamOk
  <2> QED BY <1>4, <2>4, <2>7 DEF Moves
<1>5. CASE ClientSends(k)
  <2>1. session'[k] = session[k]
    BY <1>5 DEF ClientSends, task
  <2> QED BY <1>5, <2>1, ClientSendsStream DEF Moves
<1>6. CASE ClientContinues(k)
  <2>1. /\ session'[k] = session[k] /\ sent'[k] = sent[k] /\ pc'[k] = pc[k]
        /\ packet'[k] = packet[k]
    BY <1>6 DEF ClientContinues, task
  <2>2. Stream(k)' = Stream(k)
    BY <1>6, ClientContinuesStream
  <2> QED BY <2>1, <2>2, StreamStays
<1>7. ASSUME UNCHANGED <<rx_buffer, socket, unsent, sent, packet>>,
             session'[k] = session[k], pc'[k] = "process" <=> pc[k] = "process"
      PROVE  StreamOk(k)' /\ Moves(k)
  <2>1. Stream(k)' = Stream(k)
    BY <1>7 DEF Stream
  <2> QED BY <1>7, <2>1, StreamStays
<1>8. CASE RemoveBrokerSession(k)
  BY <1>0, <1>8 DEF RemoveBrokerSession, Set
<1>9. CASE Register(k) \/ RegisterSession(k)
  BY <1>0, <1>7, <1>9 DEF Register, RegisterSession, Go, client
<1>10. CASE ReadNothing(k) \/ ReadFails(k) \/ AllNotified(k) \/ AllWritten(k) \/ Leave(k)
            \/ Timeout(k)
  BY <1>0, <1>7, <1>10 DEF ReadNothing, ReadFails, AllNotified, AllWritten, Leave, Timeout, Go,
                           client
<1>11. CASE NotifySession(k)
  BY <1>0, <1>7, <1>11 DEF NotifySession, client
<1>12. CASE WritePacket(k) \/ WriteError(k)
  BY <1>0, <1>7, <1>12 DEF WritePacket, WriteError, client
<1>13. CASE ReceiveNotification(k) \/ Flush(k) \/ UnregisterSession(k)
  BY <1>0, <1>7, <1>13 DEF ReceiveNotification, Flush, UnregisterSession, Go, client
<1>14. CASE ClientCloses(k) \/ ClientStalls(k)
  BY <1>0, <1>7, <1>14 DEF ClientCloses, ClientStalls, task
<1> QED BY <1>1, <1>2, <1>3, <1>4, <1>5, <1>6, <1>8, <1>9, <1>10, <1>11, <1>12, <1>13, <1>14
        DEF Acts, TaskStep

(* The streams of the other slots stay as they are.                        *)
LEMMA UntouchedStream ==
    ASSUME StreamInv, NEW j \in Slots, Untouched(j), session'[j] # 0
    PROVE  StreamOk(j)' /\ session'[j] = session[j] /\ Handled(j)' = Handled(j)
<1>1. Stream(j)' = Stream(j)
  BY DEF Untouched, Stream
<1>2. /\ session'[j] = session[j] /\ sent'[j] = sent[j] /\ pc'[j] = pc[j]
      /\ packet'[j] = packet[j]
  BY DEF Untouched
<1>3. StreamOk(j)'
  BY <1>1, <1>2, StreamStays
<1>4. Taken(j)' = Taken(j)
  BY <1>1, <1>2 DEF Taken
<1> QED BY <1>2, <1>3, <1>4 DEF Handled

(* A step is one of a slot, or touches none.                               *)
LEMMA StepsBySlot ==
    ASSUME [Next]_vars
    PROVE  UNCHANGED vars \/ (\E e : CleanupScan(e)) \/ \E k \in Slots : Acts(k)
BY DEF Next, Acts

(* What is on its way stays in order.                                      *)
LEMMA StreamStep ==
    ASSUME TypeInv, TypeInv', PlaceInv, StreamInv, [Next]_vars
    PROVE  StreamInv'
<1>1. CASE UNCHANGED vars \/ \E e : CleanupScan(e)
  <2>1. \A j \in Slots : Untouched(j)
    BY <1>1, NobodyUntouched
  <2> QED BY <2>1, UntouchedStream DEF StreamInv
<1>2. ASSUME NEW k \in Slots, Acts(k), NEW j \in Slots, session'[j] # 0 PROVE StreamOk(j)'
  <2>1. CASE j # k
    <3>1. Untouched(j)
      BY <1>2, <2>1, OthersUntouched
    <3> QED BY <1>2, <3>1, UntouchedStream
  <2>2. CASE j = k
    BY <1>2, <2>2, OwnStream
  <2> QED BY <2>1, <2>2
<1> QED BY <1>1, <1>2, StepsBySlot DEF StreamInv

-----------------------------------------------------------------------------
(* What is under way to one client. *)

(* Messages of connections that are still to come, next and the following, *)
(* are not in q; the last of a publisher is the last that was handled, when*)
(* c is listed in S; and there is none at all unless c is also in U.       *)
FlowOk(q, c, next, S, U, counts) ==
    /\ \A s \in Sessions : Gapless(q, s)
    /\ \A s \in Sessions : s >= next => NoneFrom(q, s)
    /\ c \in S => \A h \in counts : LastFrom(q, h[1], h[2])
    /\ c \in S /\ c \notin U => \A s \in Sessions : NoneFrom(q, s)

(* Nothing is added to q; other publishers come, and none counts further.  *)
LEMMA FlowStays ==
    ASSUME NEW q, NEW c, NEW n1 \in Nat, NEW n2 \in Nat, NEW S1, NEW S2, NEW U1, NEW U2,
           NEW H1, NEW H2,
           FlowOk(q, c, n1, S1, U1, H1), n1 <= n2,
           c \in S2 => c \in S1, c \in S2 /\ c \notin U2 => c \notin U1,
           \A h \in H2 : h \in H1 \/ (h[1] \in Sessions /\ h[1] >= n1)
    PROVE  FlowOk(q, c, n2, S2, U2, H2)
<1>1. \A s \in Sessions : s \in Nat
  BY EmbassyAssumption DEF Sessions
<1>2. \A s \in Sessions : s >= n2 => NoneFrom(q, s)
  BY <1>1 DEF FlowOk
<1>3. ASSUME c \in S2, NEW h \in H2 PROVE LastFrom(q, h[1], h[2])
  <2>1. CASE h \in H1
    BY <1>3, <2>1 DEF FlowOk
  <2>2. CASE h[1] \in Sessions /\ h[1] >= n1
    <3>1. NoneFrom(q, h[1])
      BY <2>2 DEF FlowOk
    <3> QED BY <3>1, NoneGapless
  <2> QED BY <1>3, <2>1, <2>2
<1> QED BY <1>2, <1>3 DEF FlowOk

(* The end of the queue is dropped, of a session no longer listed.         *)
LEMMA FlowCut ==
    ASSUME NEW M, NEW p \in Seq(M), NEW q \in Seq(M), NEW c, NEW n \in Nat,
           NEW S1, NEW S2, NEW U1, NEW U2, NEW H1, NEW H2,
           FlowOk(p \o q, c, n, S1, U1, H1), c \notin S2
    PROVE  FlowOk(p, c, n, S2, U2, H2)
<1>1. \A s : /\ Gapless(p \o q, s) => Gapless(p, s)
             /\ NoneFrom(p \o q, s) => NoneFrom(p, s)
  BY PrefixGapless
<1>2. PICK r : r = p \o q
  OBVIOUS
<1>3. \A s : (Gapless(r, s) => Gapless(p, s)) /\ (NoneFrom(r, s) => NoneFrom(p, s))
  BY <1>1, <1>2, Zenon
<1>4. FlowOk(r, c, n, S1, U1, H1)
  BY <1>2
<1> QED BY <1>3, <1>4 DEF FlowOk

(* With nothing under way all is well.                                     *)
LEMMA FlowEmpty ==
    ASSUME NEW c, NEW n, NEW S, NEW U, NEW H
    PROVE  FlowOk(<<>>, c, n, S, U, H)
<1>1. PICK q : q = <<>>
  OBVIOUS
<1>2. DOMAIN q = {}
  BY <1>1
<1>3. \A s : NoneFrom(q, s)
  BY <1>2 DEF NoneFrom
<1>4. FlowOk(q, c, n, S, U, H)
  BY <1>3, NoneGapless DEF FlowOk
<1> QED BY <1>1, <1>4

(* p is handled: its own client's count, if it is a publisher's, goes on.  *)
Counted(H1, H2, p) ==
    /\ \A h \in H2 : h \in H1 \/ (p.type = "publish" /\ h[1] = p.from /\ h[2] = p.seq)
    /\ \A h \in H2 : p.type = "publish" /\ h[1] = p.from => h[2] = p.seq
    /\ p.type = "publish" => <<p.from, p.seq - 1>> \in H1

(* A message that is not delivered to c.                                   *)
LEMMA FlowPasses ==
    ASSUME NEW q, NEW c, NEW n, NEW S, NEW U1, NEW U2, U1 \subseteq U2, NEW H1, NEW H2,
           NEW p \in Packets, FlowOk(q, c, n, S, U1, H1), Counted(H1, H2, p),
           p.type = "publish" => c \notin U1
    PROVE  FlowOk(q, c, n, S, U2, H2)
<1>1. ASSUME c \in S, NEW h \in H2 PROVE LastFrom(q, h[1], h[2])
  <2>1. CASE h \in H1
    BY <1>1, <2>1 DEF FlowOk
  <2>2. CASE p.type = "publish" /\ h[1] = p.from
    <3>1. NoneFrom(q, h[1])
      BY <1>1, <2>2 DEF FlowOk, Packets
    <3> QED BY <3>1, NoneGapless
  <2> QED BY <1>1, <2>1, <2>2 DEF Counted
<1> QED BY <1>1 DEF FlowOk

(* A message for c, and for every subscriber, is the next of its publisher.*)
LEMMA FlowDelivers ==
    ASSUME NEW M, NEW q \in Seq(M), NEW c, NEW n \in Nat, NEW S, NEW U, NEW H1, NEW H2,
           NEW p \in Packets, p \in M, FlowOk(q, c, n, S, U, H1), Counted(H1, H2, p),
           p.type = "publish", c \in U, c \in S, p.from < n
    PROVE  FlowOk(Append(q, p), c, n, S, U, H2)
<1>1. PICK r, s : r = Append(q, p) /\ s = p.from
  OBVIOUS
<1>2. IsFrom(p, s) /\ s \in Sessions /\ p.seq \in Nat
  BY <1>1 DEF IsFrom, Packets
<1>3. Gapless(q, s) /\ LastFrom(q, s, p.seq - 1)
  <2>1. <<s, p.seq - 1>> \in H1
    BY <1>1 DEF Counted
  <2> QED BY <1>2, <2>1 DEF FlowOk
<1>4. Gapless(r, s) /\ LastFrom(r, s, p.seq)
  BY <1>1, <1>2, <1>3, AppendNext
<1>5. ASSUME NEW t, t # s
      PROVE  /\ NoneFrom(q, t) => NoneFrom(r, t)
             /\ Gapless(q, t) => Gapless(r, t)
             /\ \A i : LastFrom(q, t, i) => LastFrom(r, t, i)
  <2>1. ~IsFrom(p, t)
    BY <1>1, <1>5 DEF IsFrom
  <2> QED BY <1>1, <2>1, AppendOther
<1>6. \A t \in Sessions : Gapless(r, t)
  BY <1>4, <1>5 DEF FlowOk
<1>7. ASSUME NEW t \in Sessions, t >= n PROVE NoneFrom(r, t)
  <2>1. t # s
    BY <1>1, <1>2, <1>7, EmbassyAssumption DEF Sessions
  <2> QED BY <1>5, <1>7, <2>1 DEF FlowOk
<1>8. ASSUME NEW h \in H2 PROVE LastFrom(r, h[1], h[2])
  <2>1. CASE h[1] = s
    BY <1>1, <1>4, <2>1 DEF Counted
  <2>2. CASE h[1] # s
    <3>1. LastFrom(q, h[1], h[2])
      BY <1>1, <2>2 DEF Counted, FlowOk
    <3> QED BY <1>5, <2>2, <3>1
  <2> QED BY <2>1, <2>2
<1>9. FlowOk(r, c, n, S, U, H2)
  BY <1>6, <1>7, <1>8 DEF FlowOk
<1> QED BY <1>1, <1>9

(* An answer is no message.                                                *)
LEMMA FlowAnswers ==
    ASSUME NEW M, NEW q \in Seq(M), NEW c, NEW n, NEW S, NEW U1, NEW U2, U1 \subseteq U2,
           NEW H1, NEW H2, H2 \subseteq H1, NEW m \in M, m.type # "publish",
           FlowOk(q, c, n, S, U1, H1)
    PROVE  FlowOk(Append(q, m), c, n, S, U2, H2)
<1>1. PICK r : r = Append(q, m)
  OBVIOUS
<1>2. ASSUME NEW s
      PROVE  /\ NoneFrom(q, s) => NoneFrom(r, s)
             /\ Gapless(q, s) => Gapless(r, s)
             /\ \A i : LastFrom(q, s, i) => LastFrom(r, s, i)
  <2>1. ~IsFrom(m, s)
    BY DEF IsFrom
  <2> QED BY <1>1, <2>1, AppendOther
<1>3. FlowOk(r, c, n, S, U2, H2)
  BY <1>2 DEF FlowOk
<1> QED BY <1>1, <1>3

(* What a round adds to the queue of c, behind what its task has in hand.  *)
LEMMA FlowRound ==
    ASSUME NEW b, Sound(b, Sessions, Packets), NEW s, NEW p \in Packets,
           NEW r, Handles(b, r, s, p, Sessions, Packets),
           NEW a \in Seq(Replies(Packets)), NEW c \in Sessions, NEW n \in Nat, p.from < n,
           NEW H1, NEW H2, Counted(H1, H2, p),
           FlowOk(a \o b.tx[c], c, n, Range(b.sessions), Range(b.subscribers), H1)
    PROVE  FlowOk(a \o r.tx[c], c, n, Range(b.sessions), Range(r.subscribers), H2)
<1>1. PICK q, v, S, U, V :
        /\ v = b.tx[c] /\ q = a \o v /\ S = Range(b.sessions) /\ U = Range(b.subscribers)
        /\ V = Range(r.subscribers)
  OBVIOUS
<1>2. v \in Seq(Replies(Packets)) /\ U \subseteq S /\ U \subseteq V
  BY <1>1 DEF Sound, Brokers, Consistent, Handles
<1>3. q \in Seq(Replies(Packets))
  BY <1>1, <1>2, ConcatProperties
<1>4. FlowOk(q, c, n, S, U, H1)
  BY <1>1
<1>5. p \in Replies(Packets)
  BY DEF Replies
<1>6. ASSUME NEW m \in Replies(Packets) PROVE a \o Append(v, m) = Append(q, m)
  <2>1. Append(a \o v, m) = a \o Append(v, m)
    BY <1>2, AppendToConcat
  <2> QED BY <1>1, <2>1, Zenon
<1>7. CASE p.type = "publish" /\ c \in U
  <2>1. r.tx[c] = Append(v, p) /\ V = U
    BY <1>1, <1>7 DEF Handles
  <2>2. FlowOk(Append(q, p), c, n, S, U, H2)
    BY <1>2, <1>3, <1>4, <1>5, <1>7, FlowDelivers
  <2> QED BY <1>1, <1>5, <1>6, <2>1, <2>2
<1>8. CASE p.type = "publish" /\ c \notin U
  <2>1. r.tx[c] = v
    BY <1>1, <1>8 DEF Handles
  <2>2. FlowOk(q, c, n, S, V, H2)
    BY <1>2, <1>4, <1>8, FlowPasses
  <2> QED BY <1>1, <2>1, <2>2
<1>9. CASE p.type # "publish"
  <2>1. H2 \subseteq H1
    BY <1>9 DEF Counted
  <2>2. CASE r.tx[c] = v
    <3>1. FlowOk(q, c, n, S, V, H2)
      BY <1>2, <1>4, <1>9, FlowPasses
    <3> QED BY <1>1, <2>2, <3>1
  <2>3. ASSUME NEW m \in Replies(Packets), m.type # "publish", r.tx[c] = Append(v, m)
        PROVE  FlowOk(a \o r.tx[c], c, n, Range(b.sessions), Range(r.subscribers), H2)
    <3>1. FlowOk(Append(q, m), c, n, S, V, H2)
      BY <1>2, <1>3, <1>4, <2>1, <2>3, FlowAnswers
    <3> QED BY <1>1, <1>6, <2>3, <3>1
  <2> QED BY <1>1, <1>9, <2>2, <2>3 DEF Handles
<1> QED BY <1>7, <1>8, <1>9

-----------------------------------------------------------------------------
(* What is under way to every client. *)

(* The sessions that publish, with the number of packets handled of each. *)
Counts ==
    {<<session[j], Handled(j)>> :
        j \in {i \in Slots : session[i] # 0 /\ "publish" \in ClientKinds[session[i]]}}

Flows(k) ==
    FlowOk(UnderWay(k), session[k], next_id, Range(broker.sessions), Range(broker.subscribers),
           Counts)

(* The broker has handled all that was received. *)
AtRest(b) == \A s \in Sessions : b.rx[s] = <<>>

(* As long as no round has failed: every round has handled all there was,  *)
(* and what is under way to a client that is there flows.                  *)
RestInv == ~failed => AtRest(broker)

FlowInv == ~failed => \A k \in Slots : InLoop(k) /\ ~closed[k] => Flows(k)

(* Publishers come, and none has handled more.                             *)
CountsGrow == \A h \in Counts' : h \in Counts \/ (h[1] \in Sessions /\ h[1] >= next_id)

(* Only Process counts a packet.                                           *)
LEMMA CountsStep ==
    ASSUME TypeInv, TypeInv', PlaceInv, StreamInv,
           UNCHANGED vars \/ (\E e : CleanupScan(e)) \/ \E k \in Slots : Acts(k) /\ ~Process(k)
    PROVE  CountsGrow
<1>1. ASSUME NEW j \in Slots, session'[j] # 0 PROVE Moves(j)
  <2>1. CASE UNCHANGED vars \/ \E e : CleanupScan(e)
    <3>1. Untouched(j)
      BY <2>1, NobodyUntouched
    <3> QED BY <1>1, <3>1, UntouchedStream DEF Moves
  <2>2. ASSUME NEW k \in Slots, Acts(k), ~Process(k) PROVE Moves(j)
    <3>1. CASE j # k
      <4>1. Untouched(j)
        BY <2>2, <3>1, OthersUntouched
      <4> QED BY <1>1, <4>1, UntouchedStream DEF Moves
    <3>2. CASE j = k
      BY <1>1, <2>2, <3>2, OwnStream
    <3> QED BY <3>1, <3>2
  <2> QED BY <2>1, <2>2
<1>2. ASSUME NEW h \in Counts' PROVE h \in Counts \/ (h[1] \in Sessions /\ h[1] >= next_id)
  <2>1. PICK j \in Slots : /\ session'[j] # 0 /\ "publish" \in ClientKinds[session'[j]]
                           /\ h = <<session'[j], Handled(j)'>>
    BY <1>2 DEF Counts
  <2>2. Moves(j)
    BY <1>1, <2>1
  <2>3. CASE session'[j] = session[j] /\ Handled(j)' = Handled(j)
    <3>1. h = <<session[j], Handled(j)>>
      BY <2>1, <2>3, Zenon
    <3>2. session[j] # 0 /\ "publish" \in ClientKinds[session[j]]
      BY <2>1, <2>3
    <3> QED BY <3>1, <3>2 DEF Counts
  <2>4. CASE session'[j] = next_id
    <3>1. session'[j] \in 0 .. MaxAccepted /\ next_id \in Nat
      BY EmbassyAssumption DEF TypeInv
    <3>2. h[1] = session'[j]
      BY <2>1
    <3> QED BY <2>1, <2>4, <3>1, <3>2, EmbassyAssumption DEF Sessions
  <2> QED BY <2>2, <2>3, <2>4 DEF Moves
<1> QED BY <1>2 DEF CountsGrow

(* From b to r the broker keeps the queue of s, does not list it anew and  *)
(* still has it among the subscribers.                                     *)
Spares(b, r, s) ==
    /\ r.tx[s] = b.tx[s]
    /\ s \in Range(r.sessions) => s \in Range(b.sessions)
    /\ s \in Range(r.sessions) /\ s \notin Range(r.subscribers) => s \notin Range(b.subscribers)

Spared(s) == Spares(broker, broker', s)

(* Nothing comes and nothing goes; or the queue of a session that was      *)
(* removed from the broker has gone.                                       *)
Keeps(k) ==
    /\ session'[k] = session[k] /\ UnderWay(k)' = UnderWay(k)
    /\ session[k] \in Range(broker'.sessions) => session[k] \in Range(broker.sessions)
    /\ session[k] \in Range(broker'.sessions) /\ session[k] \notin Range(broker'.subscribers)
         => session[k] \notin Range(broker.subscribers)

Drops(k) ==
    /\ session'[k] = session[k] /\ next_id' = next_id
    /\ session[k] \notin Range(broker'.sessions)
    /\ \E p, q \in Seq(Replies(Packets)) : UnderWay(k) = p \o q /\ UnderWay(k)' = p

(* Clients to which nothing is sent.                                       *)
LEMMA FlowFrame ==
    ASSUME TypeInv, TypeInv', FlowInv, CountsGrow, failed' = failed, next_id <= next_id',
           \A k \in Slots : InLoop(k)' /\ ~closed'[k] =>
               \/ UnderWay(k)' = <<>>
               \/ InLoop(k) /\ ~closed[k] /\ (Keeps(k) \/ Drops(k))
    PROVE  FlowInv'
<1>1. next_id \in Nat /\ next_id' \in Nat
  BY EmbassyAssumption DEF TypeInv
<1>2. SUFFICES ASSUME ~failed', NEW k \in Slots, InLoop(k)', ~closed'[k] PROVE Flows(k)'
  BY DEF FlowInv
<1>3. PICK q1, q2, c1, c2, S1, S2, U1, U2, H1, H2, n1, n2 :
        /\ q1 = UnderWay(k) /\ q2 = UnderWay(k)' /\ c1 = session[k] /\ c2 = session'[k]
        /\ S1 = Range(broker.sessions) /\ S2 = Range(broker'.sessions)
        /\ U1 = Range(broker.subscribers) /\ U2 = Range(broker'.subscribers)
        /\ H1 = Counts /\ H2 = Counts' /\ n1 = next_id /\ n2 = next_id'
  OBVIOUS
<1>4. SUFFICES FlowOk(q2, c2, n2, S2, U2, H2)
  BY <1>3 DEF Flows
<1>5. CASE UnderWay(k)' = <<>>
  BY <1>3, <1>5, FlowEmpty
<1>6. ASSUME InLoop(k), ~closed[k] PROVE FlowOk(q1, c1, n1, S1, U1, H1)
  BY <1>2, <1>3, <1>6 DEF FlowInv, Flows
<1>7. CASE InLoop(k) /\ ~closed[k] /\ Keeps(k)
  <2>1. /\ c2 = c1 /\ q2 = q1
        /\ c1 \in S2 => c1 \in S1
        /\ c1 \in S2 /\ c1 \notin U2 => c1 \notin U1
    BY <1>3, <1>7 DEF Keeps
  <2>2. \A h \in H2 : h \in H1 \/ (h[1] \in Sessions /\ h[1] >= n1)
    BY <1>3 DEF CountsGrow
  <2>3. n1 \in Nat /\ n2 \in Nat /\ n1 <= n2
    BY <1>1, <1>3
  <2>4. FlowOk(q1, c1, n2, S2, U2, H2)
    BY <1>6, <1>7, <2>1, <2>2, <2>3, FlowStays
  <2> QED BY <2>1, <2>4
<1>8. CASE InLoop(k) /\ ~closed[k] /\ Drops(k)
  <2>1. PICK p \in Seq(Replies(Packets)), q \in Seq(Replies(Packets)) :
          UnderWay(k) = p \o q /\ UnderWay(k)' = p
    BY <1>8 DEF Drops
  <2>2. c2 = c1 /\ n2 = n1 /\ c1 \notin S2 /\ n1 \in Nat
    BY <1>1, <1>3, <1>8 DEF Drops
  <2>3. FlowOk(p \o q, c1, n1, S1, U1, H1)
    BY <1>3, <1>6, <1>8, <2>1
  <2>4. FlowOk(p, c1, n1, S2, U2, H2)
    BY <2>2, <2>3, FlowCut
  <2> QED BY <1>3, <2>1, <2>2, <2>4
<1> QED BY <1>2, <1>5, <1>7, <1>8

(* A slot that is left alone keeps what is under way to it.                *)
LEMMA UntouchedKeeps ==
    ASSUME TypeInv, NEW j \in Slots, Untouched(j), InLoop(j)', ~closed'[j], Spared(session[j])
    PROVE  InLoop(j) /\ ~closed[j] /\ Keeps(j)
<1>1. InLoop(j) /\ ~closed[j] /\ session'[j] = session[j]
  BY DEF Untouched, InLoop
<1>2. session[j] # 0
  BY <1>1 DEF TypeInv, InLoop
<1>3. UnderWay(j)' = UnderWay(j)
  <2>1. /\ received'[j] = received[j] /\ tx_packets'[j] = tx_packets[j]
        /\ broker'.tx[session[j]] = broker.tx[session[j]]
    BY DEF Untouched, Spared, Spares
  <2> QED BY <1>1, <2>1 DEF UnderWay
<1> QED BY <1>1, <1>3 DEF Keeps, Spared, Spares

(* The vector holds all of a queue of the broker.                          *)
LEMMA CollectAll ==
    ASSUME NEW M, NEW q \in Seq(M), Len(q) <= QUEUE_SIZE, QUEUE_SIZE <= TX_PACKETS
    PROVE  Collect(q) = q
<1>1. Len(q) \in Nat /\ QUEUE_SIZE \in Nat /\ TX_PACKETS \in Nat
  BY LenProperties, RoundAssumption, EmbassyAssumption
<1>2. (IF Len(q) < TX_PACKETS THEN Len(q) ELSE TX_PACKETS) = Len(q)
  BY <1>1
<1>3. SubSeq(q, 1, Len(q)) = q
  BY SubSeqFull
<1> QED BY <1>2, <1>3 DEF Collect

(* The first packet of those in hand is written: r has been, h is, and t   *)
(* and v are to come.                                                      *)
LEMMA WriteMoves ==
    ASSUME NEW M, NEW r \in Seq(M), NEW w \in Seq(M), w # <<>>, NEW v
    PROVE  (Append(r, Head(w)) \o Tail(w)) \o v = (r \o w) \o v
<1>1. PICK h, t : h = Head(w) /\ t = Tail(w)
  OBVIOUS
<1>2. h \in M /\ t \in Seq(M) /\ w = <<h>> \o t
  <2>1. Head(w) \in M /\ Tail(w) \in Seq(M)
    BY TailElements
  <2>2. w = <<Head(w)>> \o Tail(w)
    BY HeadThenTail
  <2> QED BY <1>1, <2>1, <2>2, Zenon
<1>3. <<h>> \in Seq(M) /\ Append(r, h) = r \o <<h>>
  BY <1>2, AppendIsConcat
<1>4. (r \o <<h>>) \o t = r \o (<<h>> \o t)
  BY <1>2, <1>3, ConcatAssociative
<1> QED BY <1>1, <1>2, <1>3, <1>4, Zenon

(* Dequeuing changes neither registry.                                     *)
LEMMA Dequeued ==
    ASSUME NEW b \in Brokers(Sessions, Packets), NEW s, NEW r, r = DequeueAll(b, s)
    PROVE  r.sessions = b.sessions /\ r.subscribers = b.subscribers
BY DEF DequeueAll, Brokers

(* All of a queue is taken in hand by a task that has nothing in hand.     *)
LEMMA TakeInHand ==
    ASSUME NEW M, NEW r \in Seq(M), NEW q \in Seq(M)
    PROVE  (r \o q) \o <<>> = (r \o <<>>) \o q
<1>1. r \o q \in Seq(M)
  BY ConcatProperties
<1>2. (r \o q) \o <<>> = r \o q
  BY <1>1, ConcatEmptySeq
<1>3. r \o <<>> = r
  BY ConcatEmptySeq
<1> QED BY <1>2, <1>3, Zenon

(* The task writes the first packet of those it has in hand.               *)
LEMMA WriteKeeps ==
    ASSUME TypeInv, PlaceInv, NEW k \in Slots, WritePacket(k)
    PROVE  UnderWay(k)' = UnderWay(k)
<1>1. PICK r, w, v, x, y :
        /\ r = received[k] /\ w = tx_packets[k] /\ x = Append(r, Head(w)) /\ y = Tail(w)
        /\ v = IF session[k] = 0 THEN <<>> ELSE broker.tx[session[k]]
  OBVIOUS
<1>2. /\ received' = [received EXCEPT ![k] = x] /\ tx_packets' = [tx_packets EXCEPT ![k] = y]
      /\ w # <<>> /\ session' = session /\ broker' = broker
  BY <1>1 DEF WritePacket
<1>3. r \in Seq(Replies(Packets)) /\ w \in Seq(Replies(Packets))
  BY <1>1 DEF TypeInv, PlaceInv
<1>4. received'[k] = x /\ tx_packets'[k] = y
  BY <1>2 DEF TypeInv, PlaceInv
<1>5. (Append(r, Head(w)) \o Tail(w)) \o v = (r \o w) \o v
  BY <1>2, <1>3, WriteMoves
<1>6. UnderWay(k) = (r \o w) \o v
  BY <1>1, Zenon DEF UnderWay
<1>7. UnderWay(k)' = (x \o y) \o v
  BY <1>1, <1>2, <1>4, Zenon DEF UnderWay
<1> QED BY <1>1, <1>5, <1>6, <1>7, Zenon

(* The task takes the packets of its queue in hand, all of them.           *)
LEMMA FlushKeeps ==
    ASSUME TypeInv, BrokerInv, PlaceInv, QUEUE_SIZE <= TX_PACKETS, NEW k \in Slots, Flush(k)
    PROVE  UnderWay(k)' = UnderWay(k)
<1>1. PICK r, q, s : r = received[k] /\ s = session[k] /\ q = broker.tx[s]
  OBVIOUS
<1>2. /\ tx_packets' = [tx_packets EXCEPT ![k] = Collect(q)] /\ broker' = DequeueAll(broker, s)
      /\ pc[k] = "flush" /\ session' = session /\ received' = received
  BY <1>1 DEF Flush, Set, client
<1>3. s \in Sessions /\ s # 0 /\ r \in Seq(Replies(Packets)) /\ tx_packets[k] = <<>>
  <2>1. s \in 0 .. MaxAccepted /\ s # 0
    BY <1>1, <1>2 DEF TypeInv
  <2> QED BY <1>1, <1>2, <2>1, EmbassyAssumption DEF PlaceInv, Sessions
<1>4. q \in Seq(Replies(Packets)) /\ Len(q) <= QUEUE_SIZE
  BY <1>1, <1>3 DEF BrokerInv, Sound, Brokers, Consistent
<1>5. Collect(q) = q
  BY <1>4, CollectAll
<1>6. broker'.tx[s] = <<>>
  BY <1>2, <1>3, DequeueAllSound DEF BrokerInv
<1>7. tx_packets'[k] = q
  BY <1>2, <1>5 DEF TypeInv
<1>8. (r \o q) \o <<>> = (r \o <<>>) \o q
  BY <1>3, <1>4, TakeInHand
<1>9. UnderWay(k) = (r \o <<>>) \o q
  BY <1>1, <1>3, Zenon DEF UnderWay
<1>10. UnderWay(k)' = (r \o q) \o <<>>
  BY <1>1, <1>2, <1>3, <1>6, <1>7, Zenon DEF UnderWay
<1> QED BY <1>8, <1>9, <1>10, Zenon

(* But for Process, a task and its client only move what is under way, or  *)
(* the task enters its loop with nothing.                                  *)
LEMMA OwnKeeps ==
    ASSUME TypeInv, BrokerInv, HoldsInv, PlaceInv, QUEUE_SIZE <= TX_PACKETS,
           NEW k \in Slots, Acts(k), ~Process(k), InLoop(k)', ~closed'[k]
    PROVE  \/ UnderWay(k)' = <<>>
           \/ InLoop(k) /\ ~closed[k] /\ Keeps(k)
<1>0. pc \in [Slots -> Stages] /\ closed \in [Slots -> BOOLEAN]
  BY DEF TypeInv, PlaceInv
<1>1. ASSUME Accept(k) \/ Register(k) \/ ReadFails(k) \/ Leave(k) \/ Timeout(k)
             \/ UnregisterSession(k) \/ RemoveBrokerSession(k)
      PROVE  FALSE
  <2>1. pc'[k] \notin {"select", "read_packet", "process", "notify", "write", "flush"}
    BY <1>0, <1>1 DEF Accept, Register, ReadFails, Leave, Timeout, UnregisterSession,
                      RemoveBrokerSession, Go
  <2> QED BY <2>1 DEF InLoop
<1>2. CASE RegisterSession(k)
  <2>1. /\ pc[k] = "register_slot" /\ received' = received /\ tx_packets' = tx_packets
        /\ session' = session /\ broker' = broker
    BY <1>2 DEF RegisterSession, client
  <2>2. received[k] = <<>> /\ tx_packets[k] = <<>> /\ Quiet(broker, session[k])
    BY <2>1 DEF PlaceInv, HoldsInv
  <2>3. broker.tx[session[k]] = <<>>
    BY <2>2 DEF Quiet
  <2>4. (<<>> \o <<>>) \o <<>> = <<>>
    OBVIOUS
  <2> QED BY <2>1, <2>2, <2>3, <2>4, Zenon DEF UnderWay
<1>3. ASSUME InLoop(k), ~closed[k], session' = session, broker' = broker,
             UnderWay(k)' = UnderWay(k)
      PROVE  InLoop(k) /\ ~closed[k] /\ Keeps(k)
  BY <1>3 DEF Keeps
<1>4. ASSUME InLoop(k), closed' = closed, session' = session, broker' = broker,
             received' = received, tx_packets' = tx_packets
      PROVE  InLoop(k) /\ ~closed[k] /\ Keeps(k)
  <2>1. UnderWay(k)' = UnderWay(k)
    BY <1>4 DEF UnderWay
  <2> QED BY <1>3, <1>4, <2>1
<1>5. CASE SelectRead(k) \/ ReadMore(k)
  <2>1. ReadSocket(k) /\ InLoop(k)
    BY <1>5 DEF SelectRead, ReadMore, InLoop
  <2> QED BY <1>4, <2>1 DEF ReadSocket
<1>6. CASE ReadNothing(k) \/ ReadPacket(k) \/ NotifySession(k) \/ AllNotified(k) \/ AllWritten(k)
           \/ ReceiveNotification(k)
  <2>1. InLoop(k)
    BY <1>6 DEF ReadNothing, ReadPacket, NotifySession, AllNotified, AllWritten,
                ReceiveNotification, InLoop
  <2> QED BY <1>4, <1>6, <2>1 DEF ReadNothing, ReadPacket, NotifySession, AllNotified,
                                  AllWritten, ReceiveNotification, client
<1>7. CASE ClientSends(k) \/ ClientContinues(k) \/ ClientStalls(k)
  <2>1. /\ UNCHANGED <<broker, task, closed, received>>
    BY <1>7 DEF ClientSends, ClientContinues, ClientStalls
  <2>2. InLoop(k)
    BY <2>1 DEF InLoop, task
  <2> QED BY <1>4, <2>1, <2>2 DEF task
<1>8. ASSUME ClientCloses(k) PROVE FALSE
  BY <1>0, <1>8 DEF ClientCloses, Set
<1>9. ASSUME WriteError(k) PROVE FALSE
  BY <1>9 DEF WriteError, client
<1>10. CASE WritePacket(k)
  <2>1. InLoop(k) /\ UNCHANGED <<closed, session, broker>>
    BY <1>10 DEF WritePacket, InLoop
  <2> QED BY <1>3, <1>10, <2>1, WriteKeeps
<1>11. CASE Flush(k)
  <2>1. InLoop(k) /\ UNCHANGED <<closed, session>> /\ broker' = DequeueAll(broker, session[k])
    BY <1>11 DEF Flush, InLoop, client
  <2>2. session[k] \in Sessions
    <3>1. session[k] \in 0 .. MaxAccepted /\ session[k] # 0
      BY <1>11 DEF Flush, TypeInv
    <3> QED BY <3>1, EmbassyAssumption DEF Sessions
  <2>3. broker'.sessions = broker.sessions /\ broker'.subscribers = broker.subscribers
    BY <2>1, Dequeued DEF BrokerInv, Sound
  <2>4. UnderWay(k)' = UnderWay(k)
    BY <1>11, FlushKeeps
  <2> QED BY <2>1, <2>3, <2>4 DEF Keeps
<1> QED BY <1>1, <1>2, <1>5, <1>6, <1>7, <1>8, <1>9, <1>10, <1>11 DEF Acts, TaskStep

(* What a call takes off the registries, for one session.                  *)
LEMMA LostAt ==
    ASSUME NEW b, NEW r, NEW gone, OnlyLost(b, r, gone), NEW q
    PROVE  /\ (q \in Range(r.sessions)) <=> (q \in Range(b.sessions) /\ q \notin gone)
           /\ (q \in Range(r.subscribers)) <=> (q \in Range(b.subscribers) /\ q \notin gone)
BY Zenon DEF OnlyLost

(* Calls for a session spare the others.                                   *)
LEMMA CallSpares ==
    ASSUME NEW b, Sound(b, Sessions, Packets), NEW s \in Sessions, NEW t \in Sessions, t # s,
           NEW r, \/ s \notin Range(b.sessions) /\ r = RegisterNewSession(b, s)
                  \/ r = DequeueAll(b, s) \/ r = RemoveSession(b, s)
    PROVE  Spares(b, r, t)
<1>1. CASE s \notin Range(b.sessions) /\ r = RegisterNewSession(b, s)
  <2>1. /\ r.tx = b.tx /\ r.subscribers = b.subscribers
        /\ r.result = "Ok" => Range(r.sessions) = Range(b.sessions) \cup {s}
        /\ r.result # "Ok" => r.sessions = b.sessions
    BY <1>1, RegisterSound
  <2>2. t \in Range(r.sessions) => t \in Range(b.sessions)
    BY <2>1
  <2> QED BY <2>1, <2>2 DEF Spares
<1>2. CASE r = DequeueAll(b, s)
  <2>1. r.sessions = b.sessions /\ r.subscribers = b.subscribers
    BY <1>2, Dequeued DEF Sound
  <2>2. r.tx[t] = b.tx[t]
    BY <1>2, DequeueAllSound
  <2> QED BY <2>1, <2>2 DEF Spares
<1>3. CASE r = RemoveSession(b, s)
  <2>1. OnlyLost(b, r, {s})
    BY <1>3, RemovedListed
  <2>2. r.tx[t] = b.tx[t]
    BY <1>3, RemoveSound
  <2>3. /\ t \in Range(r.sessions) <=> t \in Range(b.sessions) /\ t \notin {s}
        /\ t \in Range(r.subscribers) <=> t \in Range(b.subscribers) /\ t \notin {s}
    BY <2>1, LostAt, Zenon
  <2>4. t \notin {s}
    OBVIOUS
  <2> QED BY <2>2, <2>3, <2>4, Zenon DEF Spares
<1> QED BY <1>1, <1>2, <1>3

(* But for Process, a task's calls concern its own session only.           *)
LEMMA OthersSpared ==
    ASSUME TypeInv, BrokerInv, SlotInv, HoldsInv, NEW k \in Slots, Acts(k), ~Process(k),
           NEW j \in Slots, j # k, session[j] \in Sessions
    PROVE  Spared(session[j])
<1>1. session[j] # session[k]
  BY EmbassyAssumption DEF SlotInv, Sessions
<1>2. pc[k] # "accept" => session[k] \in Sessions
  BY EmbassyAssumption DEF TypeInv, Sessions
<1>3. PICK b, r, s, t : b = broker /\ r = broker' /\ s = session[k] /\ t = session[j]
  OBVIOUS
<1>4. Sound(b, Sessions, Packets) /\ t \in Sessions /\ t # s
  BY <1>1, <1>3 DEF BrokerInv
<1>5. CASE Register(k) \/ Flush(k) \/ RemoveBrokerSession(k)
  <2>1. s \in Sessions
    BY <1>2, <1>3, <1>5 DEF Register, Flush, RemoveBrokerSession
  <2>2. \/ s \notin Range(b.sessions) /\ r = RegisterNewSession(b, s)
        \/ r = DequeueAll(b, s) \/ r = RemoveSession(b, s)
    BY <1>3, <1>5, RegistersNew DEF Register, Flush, RemoveBrokerSession
  <2>3. Spares(b, r, t)
    BY <1>4, <2>1, <2>2, CallSpares
  <2> QED BY <1>3, <2>3 DEF Spared
<1>6. CASE broker' = broker
  BY <1>6 DEF Spared, Spares
<1>7. broker' = broker \/ Register(k) \/ Flush(k) \/ RemoveBrokerSession(k)
  BY DEF Acts, TaskStep, Accept, RegisterSession, SelectRead, ReadMore, ReadSocket,
         ReadNothing, ReadFails, ReadPacket, NotifySession, AllNotified, WritePacket, WriteError,
         AllWritten, ReceiveNotification, Leave, Timeout, UnregisterSession, ClientSends,
         ClientContinues, ClientCloses, ClientStalls
<1> QED BY <1>5, <1>6, <1>7

(* The queues of a session the cleanup task removes are gone.              *)
LEMMA GoneQueues ==
    ASSUME NEW b \in Brokers(Sessions, Packets), NEW gone, NEW r, r = RemoveSessions(b, gone),
           NEW s \in Sessions, s \in gone
    PROVE  r.tx[s] = <<>>
<1>0. b.tx \in [Sessions -> Seq(Replies(Packets))]
  BY DEF Brokers
<1>1. r.tx = [q \in Sessions |-> IF q \in gone THEN <<>> ELSE b.tx[q]]
  BY <1>0 DEF RemoveSessions, Brokers
<1> QED BY <1>1

(* Calls that give the broker nothing to handle.                           *)
LEMMA StaysAtRest ==
    ASSUME NEW b \in Brokers(Sessions, Packets), AtRest(b), NEW s \in Sessions, NEW r,
           r = RegisterNewSession(b, s) \/ r = DequeueAll(b, s) \/ r = RemoveSession(b, s)
    PROVE  AtRest(r)
<1>1. CASE r = RegisterNewSession(b, s)
  BY <1>1, RegisteredQueues DEF AtRest
<1>2. CASE r = DequeueAll(b, s)
  <2>1. r.rx = b.rx
    BY <1>2 DEF DequeueAll, Brokers
  <2> QED BY <2>1 DEF AtRest
<1>3. CASE r = RemoveSession(b, s)
  <2>1. r.rx = [b.rx EXCEPT ![s] = <<>>]
    BY <1>3 DEF RemoveSession, Brokers
  <2>2. b.rx \in [Sessions -> Seq(Packets)]
    BY DEF Brokers
  <2> QED BY <2>1, <2>2 DEF AtRest
<1> QED BY <1>1, <1>2, <1>3

(* The cleanup task removes what there was to handle.                      *)
LEMMA CleanedAtRest ==
    ASSUME NEW b \in Brokers(Sessions, Packets), AtRest(b), NEW gone, NEW r,
           r = RemoveSessions(b, gone)
    PROVE  AtRest(r)
<1>0. b.rx \in [Sessions -> Seq(Packets)]
  BY DEF Brokers
<1>1. r.rx = [q \in Sessions |-> IF q \in gone THEN <<>> ELSE b.rx[q]]
  BY <1>0 DEF RemoveSessions, Brokers
<1> QED BY <1>1 DEF AtRest

(* The cleanup task takes what is under way to sessions it removes, and no *)
(* other.                                                                  *)
LEMMA CleanupFlow ==
    ASSUME TypeInv, BrokerInv, PlaceInv, NEW e, CleanupScan(e),
           NEW j \in Slots, InLoop(j)', ~closed'[j]
    PROVE  InLoop(j) /\ ~closed[j] /\ (Keeps(j) \/ Drops(j))
<1>1. Untouched(j) /\ UNCHANGED <<next_id, pc, session, received, tx_packets, closed>>
  BY NobodyUntouched
<1>2. InLoop(j) /\ ~closed[j] /\ session'[j] = session[j] /\ next_id' = next_id
  BY <1>1 DEF Untouched, InLoop
<1>3. PICK gone : broker' = RemoveSessions(broker, gone)
  BY DEF CleanupScan
<1>4. PICK s, r, w, q : s = session[j] /\ r = received[j] /\ w = tx_packets[j] /\ q = broker.tx[s]
  OBVIOUS
<1>5. s \in Sessions /\ s # 0
  <2>1. s \in 0 .. MaxAccepted /\ s # 0
    BY <1>2, <1>4 DEF TypeInv, InLoop
  <2> QED BY <2>1, EmbassyAssumption DEF Sessions
<1>6. /\ s \in Range(broker'.sessions) <=> s \in Range(broker.sessions) /\ s \notin gone
      /\ s \in Range(broker'.subscribers) <=> s \in Range(broker.subscribers) /\ s \notin gone
      /\ s \notin gone => broker'.tx[s] = broker.tx[s]
  <2>1. PICK b, c : b = broker /\ c = broker'
    OBVIOUS
  <2>2. Sound(b, Sessions, Packets) /\ c = RemoveSessions(b, gone)
    BY <1>3, <2>1 DEF BrokerInv
  <2>3. OnlyLost(b, c, gone)
    BY <2>2, RemovedAllListed
  <2>4. s \notin gone => c.tx[s] = b.tx[s]
    BY <1>5, <2>2, RemoveAllSound
  <2>5. /\ s \in Range(c.sessions) <=> s \in Range(b.sessions) /\ s \notin gone
        /\ s \in Range(c.subscribers) <=> s \in Range(b.subscribers) /\ s \notin gone
    BY <2>3, LostAt, Zenon
  <2> QED BY <2>1, <2>4, <2>5, Zenon
<1>7. CASE s \notin gone
  <2>1. Spared(session[j])
    BY <1>4, <1>6, <1>7 DEF Spared, Spares
  <2> QED BY <1>1, <2>1, UntouchedKeeps
<1>8. CASE s \in gone
  <2>1. broker'.tx[s] = <<>>
    <3>1. PICK b, c : b = broker /\ c = broker'
      OBVIOUS
    <3>2. b \in Brokers(Sessions, Packets) /\ c = RemoveSessions(b, gone)
      BY <1>3, <3>1 DEF BrokerInv, Sound
    <3>3. c.tx[s] = <<>>
      BY <1>5, <1>8, <3>2, GoneQueues
    <3> QED BY <3>1, <3>3
  <2>2. /\ r \in Seq(Replies(Packets)) /\ w \in Seq(Replies(Packets))
        /\ q \in Seq(Replies(Packets))
    BY <1>4, <1>5 DEF TypeInv, PlaceInv, BrokerInv, Sound, Brokers
  <2>3. PICK a : a = r \o w
    OBVIOUS
  <2>4. a \in Seq(Replies(Packets))
    BY <2>2, <2>3, ConcatProperties
  <2>5. a \o <<>> = a
    BY <2>4, ConcatEmptySeq
  <2>6. UnderWay(j) = a \o q
    BY <1>4, <1>5, <2>3, Zenon DEF UnderWay
  <2>7. UnderWay(j)' = a \o <<>>
    BY <1>1, <1>4, <1>5, <2>1, <2>3, Zenon DEF UnderWay
  <2>8. Drops(j)
    BY <1>2, <1>4, <1>6, <1>8, <2>2, <2>4, <2>5, <2>6, <2>7 DEF Drops
  <2> QED BY <1>2, <2>8
<1> QED BY <1>7, <1>8

(* But for Process, no call gives the broker anything to handle.           *)
LEMMA RestStep ==
    ASSUME TypeInv, BrokerInv, SlotInv, HoldsInv, RestInv,
           UNCHANGED vars \/ (\E e : CleanupScan(e)) \/ \E k \in Slots : Acts(k) /\ ~Process(k)
    PROVE  RestInv' /\ failed' = failed
<1>0. /\ \A k \in Slots : pc[k] # "accept" => session[k] \in Sessions
      /\ broker \in Brokers(Sessions, Packets)
  BY EmbassyAssumption DEF TypeInv, Sessions, BrokerInv, Sound
<1>1. failed' = failed
  <2>1. ASSUME NEW k \in Slots, Acts(k), ~Process(k) PROVE failed' = failed
    BY <2>1 DEF Acts, TaskStep, Accept, Register, RegisterSession, SelectRead, ReadMore,
         ReadSocket, ReadNothing, ReadFails, ReadPacket, NotifySession, AllNotified,
         WritePacket, WriteError, AllWritten, ReceiveNotification, Flush, Leave, Timeout,
         UnregisterSession, RemoveBrokerSession, ClientSends, ClientContinues, ClientCloses,
         ClientStalls
  <2> QED BY <2>1, NobodyUntouched
<1>2. SUFFICES ASSUME AtRest(broker) PROVE AtRest(broker')
  BY <1>1 DEF RestInv
<1>3. PICK b, r : b = broker /\ r = broker'
  OBVIOUS
<1>4. b \in Brokers(Sessions, Packets) /\ AtRest(b)
  BY <1>0, <1>2, <1>3
<1>5. ASSUME NEW k \in Slots, Register(k) \/ Flush(k) \/ RemoveBrokerSession(k)
      PROVE  AtRest(r)
  <2>1. PICK s : s = session[k]
    OBVIOUS
  <2>2. /\ s \in Sessions
        /\ r = RegisterNewSession(b, s) \/ r = DequeueAll(b, s) \/ r = RemoveSession(b, s)
    BY <1>0, <1>3, <1>5, <2>1 DEF Register, Flush, RemoveBrokerSession
  <2> QED BY <1>4, <2>2, StaysAtRest
<1>6. ASSUME NEW e, CleanupScan(e) PROVE AtRest(r)
  <2>1. PICK gone : r = RemoveSessions(b, gone)
    BY <1>3, <1>6 DEF CleanupScan
  <2> QED BY <1>4, <2>1, CleanedAtRest
<1>7. CASE broker' = broker
  BY <1>3, <1>4, <1>7
<1>8. \/ broker' = broker \/ \E e : CleanupScan(e)
      \/ \E k \in Slots : Register(k) \/ Flush(k) \/ RemoveBrokerSession(k)
  <2>1. ASSUME NEW k \in Slots, Acts(k), ~Process(k)
        PROVE  broker' = broker \/ Register(k) \/ Flush(k) \/ RemoveBrokerSession(k)
    BY <2>1 DEF Acts, TaskStep, Accept, RegisterSession, SelectRead, ReadMore, ReadSocket,
         ReadNothing, ReadFails, ReadPacket, NotifySession, AllNotified, WritePacket, WriteError,
         AllWritten, ReceiveNotification, Leave, Timeout, UnregisterSession, ClientSends,
         ClientContinues, ClientCloses, ClientStalls
  <2> QED BY <2>1 DEF vars
<1> QED BY <1>3, <1>5, <1>6, <1>7, <1>8

(* A client that publishes sends nothing else, so that the numbers of its  *)
(* packets are those of its messages.                                      *)
PublishersOnlyPublish ==
    \A s \in Sessions : "publish" \in ClientKinds[s] => ClientKinds[s] = {"publish"}

(* A round counts the packet it handles, and no other.                     *)
LEMMA ProcessCounted ==
    ASSUME PublishersOnlyPublish, TypeInv, PlaceInv, StreamInv, SlotInv,
           NEW k \in Slots, Process(k)
    PROVE  Counted(Counts, Counts', packet[k])
<1>1. PICK p, s : p = packet[k] /\ s = session[k]
  OBVIOUS
<1>2. pc[k] = "process" /\ session' = session
  BY DEF Process, client
<1>3. p \in Packets /\ s \in Sessions /\ s # 0
  BY <1>1, <1>2, EmbassyAssumption DEF TypeInv, Sessions
<1>4. StreamOk(k)
  BY <1>1, <1>3 DEF StreamInv
<1>5. p.from = s /\ p.type \in ClientKinds[s] /\ p.seq = Taken(k)
  BY <1>1, <1>2, <1>4 DEF StreamOk, Own
<1>6. Handled(k) = p.seq - 1
  BY <1>2, <1>5 DEF Handled
<1>7. Handled(k)' = p.seq
  <2>1. PICK b : b = Round(broker, session[k], packet[k])
    OBVIOUS
  <2>2. RoundWorked(k, b) \/ RoundFailed(k, b)
    BY <2>1, ProcessCases
  <2>3. pc'[k] # "process"
    BY <2>2 DEF RoundWorked, RoundFailed, Go, TypeInv
  <2>4. UNCHANGED <<rx_buffer, socket, unsent, sent>>
    BY DEF Process, client
  <2>5. Taken(k)' = Taken(k)
    BY <2>4 DEF Taken, Stream
  <2> QED BY <1>5, <2>3, <2>5 DEF Handled
<1>8. ASSUME NEW h \in Counts'
      PROVE  \/ h \in Counts /\ h[1] # s
             \/ p.type = "publish" /\ h[1] = s /\ h[2] = p.seq
  <2>1. PICK j \in Slots : /\ session[j] # 0 /\ "publish" \in ClientKinds[session[j]]
                           /\ h = <<session[j], Handled(j)'>>
    BY <1>2, <1>8 DEF Counts
  <2>2. CASE j = k
    <3>1. p.type = "publish"
      BY <1>1, <1>3, <1>5, <2>1, <2>2 DEF PublishersOnlyPublish
    <3> QED BY <1>1, <1>7, <2>1, <2>2, <3>1
  <2>3. CASE j # k
    <3>1. Untouched(j)
      BY <2>3, OthersUntouched DEF Acts, TaskStep
    <3>2. Handled(j)' = Handled(j)
      BY <1>2, <2>1, <3>1, UntouchedStream
    <3>3. session[j] # s
      BY <1>1, <2>1, <2>3 DEF SlotInv
    <3>4. <<session[j], Handled(j)>> \in Counts
      BY <2>1 DEF Counts
    <3>5. h = <<session[j], Handled(j)>>
      BY <2>1, <3>2, Zenon
    <3> QED BY <3>3, <3>4, <3>5
  <2> QED BY <2>2, <2>3
<1>9. p.type = "publish" => <<s, p.seq - 1>> \in Counts
  <2>1. p.type = "publish" => <<session[k], Handled(k)>> \in Counts
    BY <1>1, <1>3, <1>5 DEF Counts
  <2> QED BY <1>1, <1>6, <2>1, Zenon
<1>10. Counted(Counts, Counts', p)
  BY <1>5, <1>8, <1>9 DEF Counted
<1> QED BY <1>1, <1>10

(* As long as no round fails, a round has gone well.                       *)
LEMMA ProcessWorked ==
    ASSUME NEW k, Process(k), NEW b, b = Round(broker, session[k], packet[k]), ~failed'
    PROVE  b.result = "Ok" /\ RoundWorked(k, b)
<1>1. CASE b.result = "Ok"
  <2>1. \E a \in {Round(broker, session[k], packet[k])} :
         IF a.result = "Ok"
         THEN /\ to_notify' = Set(to_notify, k, SessionsWithPending(a))
              /\ tx_packets' = Set(tx_packets, k, Collect(a.tx[session[k]]))
              /\ broker' = DequeueAll(a, session[k])
              /\ Go(k, "notify")
              /\ UNCHANGED failed
         ELSE /\ broker' = MarkSessionDisconnected(a, session[k])
              /\ failed' = TRUE
              /\ Go(k, "unregister")
              /\ UNCHANGED <<to_notify, tx_packets>>
    BY Zenon DEF Process
  <2>2. /\ to_notify' = Set(to_notify, k, SessionsWithPending(b))
        /\ tx_packets' = Set(tx_packets, k, Collect(b.tx[session[k]]))
        /\ broker' = DequeueAll(b, session[k])
        /\ Go(k, "notify")
        /\ UNCHANGED failed
    BY <1>1, <2>1, Zenon
  <2> QED BY <1>1, <2>2, Zenon DEF RoundWorked
<1>2. CASE b.result # "Ok"
  <2>1. \E a \in {Round(broker, session[k], packet[k])} :
         a.result # "Ok" => failed' = TRUE
    BY Zenon DEF Process
  <2>2. failed' = TRUE
    BY <1>2, <2>1, Zenon
  <2> QED BY <2>2
<1> QED BY <1>1, <1>2

(* A round that goes well leaves what is under way to every client gapless:*)
(* its own task takes its queue in hand, the others have theirs.           *)
LEMMA ProcessFlow ==
    ASSUME QUEUE_SIZE <= TX_PACKETS, PublishersOnlyPublish,
           TypeInv, BrokerInv, PlaceInv, StreamInv, SlotInv, RestInv, FlowInv,
           NEW k \in Slots, Process(k)
    PROVE  RestInv' /\ FlowInv'
<1>0. SUFFICES ASSUME ~failed'
               PROVE  /\ AtRest(broker')
                      /\ \A j \in Slots : InLoop(j)' /\ ~closed'[j] => Flows(j)'
  BY DEF RestInv, FlowInv
<1>1. PICK b, c, d, s, p :
        /\ b = broker /\ c = Round(broker, session[k], packet[k]) /\ d = broker'
        /\ s = session[k] /\ p = packet[k]
  OBVIOUS
<1>2. c.result = "Ok" /\ RoundWorked(k, c)
  BY <1>0, <1>1, ProcessWorked
<1>3. /\ pc[k] = "process" /\ session' = session /\ next_id' = next_id
      /\ received' = received /\ closed' = closed
  BY DEF Process, client
<1>4. p \in Packets /\ p.qos = 0 /\ s \in Sessions /\ s # 0
  BY <1>1, <1>3, EmbassyAssumption DEF TypeInv, Sessions, Packets
<1>5. ~failed
  BY <1>0, <1>2 DEF RoundWorked
<1>6. /\ Sound(b, Sessions, Packets) /\ \A q \in Sessions : b.rx[q] = <<>>
      /\ c = Round(b, s, p)
  BY <1>1, <1>5 DEF BrokerInv, RestInv, AtRest
<1>7. /\ \A q \in Sessions : c.rx[q] = <<>>
      /\ Handles(b, c, s, p, Sessions, Packets)
  BY <1>2, <1>4, <1>6, RoundOk
<1>8. Sound(c, Sessions, Packets) /\ c.sessions = b.sessions
  BY <1>1, <1>3, ProcessOk
<1>9. d = DequeueAll(c, s) /\ tx_packets' = [tx_packets EXCEPT ![k] = Collect(c.tx[s])]
  BY <1>1, <1>2 DEF RoundWorked, Set
<1>10. /\ d.sessions = b.sessions /\ d.subscribers = c.subscribers /\ d.tx[s] = <<>>
       /\ \A q \in Sessions : q # s => d.tx[q] = c.tx[q]
       /\ d.rx = c.rx
  <2>1. d.rx = c.rx
    BY <1>8, <1>9 DEF DequeueAll, Sound, Brokers
  <2>2. d.sessions = c.sessions /\ d.subscribers = c.subscribers
    BY <1>8, <1>9, Dequeued DEF Sound
  <2>3. d.tx[s] = <<>> /\ \A q \in Sessions : q # s => d.tx[q] = c.tx[q]
    BY <1>4, <1>8, <1>9, DequeueAllSound
  <2> QED BY <1>8, <2>1, <2>2, <2>3
<1>11. AtRest(broker')
  BY <1>1, <1>7, <1>10 DEF AtRest
<1>12. p.from < next_id /\ next_id \in Nat
  <2>1. p.from = s
    BY <1>1, <1>3, <1>4 DEF StreamInv, StreamOk, Own
  <2> QED BY <1>1, <2>1, EmbassyAssumption DEF SlotInv, TypeInv
<1>13. PICK H1, H2, n : H1 = Counts /\ H2 = Counts' /\ n = next_id
  OBVIOUS
<1>14. Counted(H1, H2, p)
  BY <1>1, <1>13, ProcessCounted
<1>15. ASSUME NEW j \in Slots, InLoop(j)', ~closed'[j] PROVE Flows(j)'
  <2>1. InLoop(j) /\ ~closed[j]
    <3>1. pc' = [pc EXCEPT ![k] = "notify"]
      BY <1>2 DEF RoundWorked, Go
    <3> QED BY <1>3, <1>15, <3>1 DEF InLoop, TypeInv
  <2>2. PICK t, r, w, v, x :
          /\ t = session[j] /\ r = received[j] /\ w = tx_packets[j] /\ v = b.tx[t] /\ x = c.tx[t]
    OBVIOUS
  <2>3. t \in Sessions /\ t # 0
    <3>1. pc[j] # "accept"
      BY <2>1 DEF InLoop
    <3>2. t \in 0 .. MaxAccepted /\ t # 0
      BY <2>2, <3>1 DEF TypeInv
    <3> QED BY <3>2, EmbassyAssumption DEF Sessions
  <2>4. /\ r \in Seq(Replies(Packets)) /\ w \in Seq(Replies(Packets))
        /\ v \in Seq(Replies(Packets)) /\ x \in Seq(Replies(Packets))
    BY <1>6, <1>8, <2>2, <2>3 DEF TypeInv, PlaceInv, Sound, Brokers
  <2>5. PICK a : a = r \o w
    OBVIOUS
  <2>6. a \in Seq(Replies(Packets))
    BY <2>4, <2>5, ConcatProperties
  <2>7. UnderWay(j) = a \o v
    BY <1>1, <2>2, <2>3, <2>5, Zenon DEF UnderWay
  <2>8. UnderWay(j)' = a \o x
    <3>1. CASE j # k
      <4>1. t # s
        BY <1>1, <2>2, <2>3, <3>1 DEF SlotInv
      <4>2. tx_packets'[j] = w
        BY <1>9, <2>2, <3>1 DEF TypeInv
      <4>3. d.tx[t] = x
        BY <1>10, <2>2, <2>3, <4>1
      <4>4. session'[j] = t /\ received'[j] = r
        BY <1>3, <2>2
      <4> QED BY <1>1, <2>3, <2>5, <4>2, <4>3, <4>4, Zenon DEF UnderWay
    <3>2. CASE j = k
      <4>1. t = s /\ w = <<>>
        BY <1>1, <1>3, <2>2, <3>2 DEF PlaceInv
      <4>2. tx_packets'[j] = x
        <5>1. Len(x) <= QUEUE_SIZE
          BY <1>8, <2>2, <2>3 DEF Sound, Consistent
        <5>2. Collect(x) = x
          BY <2>4, <5>1, CollectAll
        <5>3. tx_packets'[j] = Collect(x)
          BY <1>9, <2>2, <3>2, <4>1 DEF TypeInv
        <5> QED BY <5>2, <5>3
      <4>3. d.tx[t] = <<>>
        BY <1>10, <4>1
      <4>4. session'[j] = t /\ received'[j] = r
        BY <1>3, <2>2
      <4>5. UnderWay(j)' = (r \o x) \o <<>>
        BY <1>1, <2>3, <4>2, <4>3, <4>4, Zenon DEF UnderWay
      <4>6. (r \o x) \o <<>> = (r \o <<>>) \o x
        BY <2>4, TakeInHand
      <4> QED BY <2>5, <4>1, <4>5, <4>6, Zenon
    <3> QED BY <3>1, <3>2
  <2>9. FlowOk(a \o b.tx[t], t, n, Range(b.sessions), Range(b.subscribers), H1)
    <3>1. Flows(j)
      BY <1>5, <2>1 DEF FlowInv
    <3> QED BY <1>1, <1>13, <2>2, <2>7, <3>1, Zenon DEF Flows
  <2>10. FlowOk(a \o c.tx[t], t, n, Range(b.sessions), Range(c.subscribers), H2)
    <3>1. n \in Nat /\ p.from < n
      BY <1>12, <1>13
    <3> QED BY <1>4, <1>6, <1>7, <1>14, <2>3, <2>6, <2>9, <3>1, FlowRound
  <2>11. session'[j] = t /\ next_id' = n /\ broker' = d
    BY <1>1, <1>3, <1>13, <2>2
  <2> QED BY <1>10, <1>13, <2>2, <2>8, <2>10, <2>11, Zenon DEF Flows
<1> QED BY <1>11, <1>15

(* The ids only grow.                                                      *)
LEMMA IdsGrow ==
    ASSUME TypeInv, [Next]_vars
    PROVE  next_id <= next_id'
<1>0. next_id \in Nat
  BY EmbassyAssumption DEF TypeInv
<1>1. ASSUME NEW k \in Slots, Acts(k) PROVE next_id' = next_id \/ next_id' = next_id + 1
  BY <1>1 DEF Acts, TaskStep, Accept, Register, RegisterSession, SelectRead, ReadMore,
       ReadSocket, ReadNothing, ReadFails, ReadPacket, Process, NotifySession, AllNotified,
       WritePacket, WriteError, AllWritten, ReceiveNotification, Flush, Leave, Timeout,
       UnregisterSession, RemoveBrokerSession, ClientSends, ClientContinues, ClientCloses,
       ClientStalls
<1>2. next_id' = next_id \/ next_id' = next_id + 1
  BY <1>1, StepsBySlot, NobodyUntouched
<1> QED BY <1>0, <1>2

(* Every other step leaves what is under way as it is, for every client    *)
(* that is there and not new.                                              *)
LEMMA QuietFlow ==
    ASSUME QUEUE_SIZE <= TX_PACKETS, TypeInv, TypeInv', BrokerInv, SlotInv, HoldsInv, PlaceInv,
           StreamInv, RestInv, FlowInv, [Next]_vars,
           UNCHANGED vars \/ (\E e : CleanupScan(e)) \/ \E k \in Slots : Acts(k) /\ ~Process(k)
    PROVE  RestInv' /\ FlowInv'
<1>1. RestInv' /\ failed' = failed
  BY RestStep
<1>2. CountsGrow
  BY CountsStep
<1>3. next_id <= next_id'
  BY IdsGrow
<1>4. ASSUME NEW j \in Slots, InLoop(j)', ~closed'[j]
      PROVE  \/ UnderWay(j)' = <<>>
             \/ InLoop(j) /\ ~closed[j] /\ (Keeps(j) \/ Drops(j))
  <2>1. CASE UNCHANGED vars
    <3>1. Untouched(j) /\ broker' = broker
      BY <2>1, NobodyUntouched DEF vars
    <3>2. Spared(session[j])
      BY <3>1 DEF Spared, Spares
    <3> QED BY <1>4, <3>1, <3>2, UntouchedKeeps
  <2>2. ASSUME NEW e, CleanupScan(e)
        PROVE  InLoop(j) /\ ~closed[j] /\ (Keeps(j) \/ Drops(j))
    BY <1>4, <2>2, CleanupFlow
  <2>3. ASSUME NEW k \in Slots, Acts(k), ~Process(k), j # k
        PROVE  InLoop(j) /\ ~closed[j] /\ Keeps(j)
    <3>1. Untouched(j)
      BY <2>3, OthersUntouched
    <3>2. InLoop(j)
      BY <1>4, <3>1 DEF Untouched, InLoop
    <3>3. session[j] \in 0 .. MaxAccepted /\ session[j] # 0
      <4>1. pc[j] # "accept"
        BY <3>2 DEF InLoop
      <4> QED BY <4>1 DEF TypeInv
    <3>4. session[j] \in Sessions
      BY <3>3, EmbassyAssumption DEF Sessions
    <3>5. Spared(session[j])
      BY <2>3, <3>4, OthersSpared
    <3> QED BY <1>4, <3>1, <3>5, UntouchedKeeps
  <2>4. ASSUME NEW k \in Slots, Acts(k), ~Process(k), j = k
        PROVE  UnderWay(j)' = <<>> \/ (InLoop(j) /\ ~closed[j] /\ Keeps(j))
    <3>1. Acts(j) /\ ~Process(j)
      BY <2>4
    <3> QED BY <1>4, <3>1, OwnKeeps
  <2> QED BY <2>1, <2>2, <2>3, <2>4
<1> QED BY <1>1, <1>2, <1>3, <1>4, FlowFrame

(* What has to be true besides Inv for there to be no gaps.                *)
GapInv == PlaceInv /\ StreamInv /\ RestInv /\ FlowInv

(* The server starts with nothing under way.                               *)
LEMMA GapInit == Init => GapInv
<1> SUFFICES ASSUME Init PROVE GapInv
  OBVIOUS
<1>1. PlaceInv
  <2>1. <<>> \in Seq(Replies(Packets))
    OBVIOUS
  <2> QED BY <2>1 DEF Init, Each, PlaceInv
<1>2. StreamInv
  BY DEF Init, Each, StreamInv
<1>3. RestInv
  BY DEF Init, RestInv, AtRest, EmptyBroker
<1>4. FlowInv
  BY DEF Init, Each, FlowInv, InLoop
<1> QED BY <1>1, <1>2, <1>3, <1>4 DEF GapInv

(* It is inductive, with Inv.                                              *)
LEMMA GapStep ==
    ASSUME QUEUE_SIZE <= TX_PACKETS, PublishersOnlyPublish
    PROVE  Inv /\ Inv' /\ GapInv /\ [Next]_vars => GapInv'
<1> SUFFICES ASSUME Inv, Inv', GapInv, [Next]_vars PROVE GapInv'
  OBVIOUS
<1>1. /\ TypeInv /\ TypeInv' /\ BrokerInv /\ SlotInv /\ HoldsInv
      /\ PlaceInv /\ StreamInv /\ RestInv /\ FlowInv
  BY DEF Inv, GapInv
<1>2. PlaceInv'
  BY <1>1, PlaceStep
<1>3. StreamInv'
  BY <1>1, StreamStep
<1>4. RestInv' /\ FlowInv'
  <2>1. ASSUME NEW k \in Slots, Process(k) PROVE RestInv' /\ FlowInv'
    BY <1>1, <2>1, ProcessFlow
  <2>2. CASE \/ UNCHANGED vars \/ (\E e : CleanupScan(e))
             \/ \E k \in Slots : Acts(k) /\ ~Process(k)
    BY <1>1, <2>2, QuietFlow
  <2> QED BY <2>1, <2>2, StepsBySlot
<1> QED BY <1>2, <1>3, <1>4 DEF GapInv

(* If the vector for packets to write (8 in handler.rs) is no smaller than *)
(* the queues of the broker (5 in main.rs, 8 by default in server.rs),     *)
(* then, for any slots, layouts and clients: a client that is there gets   *)
(* the messages of each publisher in order, none left out and none twice,  *)
(* as long as no round has failed (handler.rs, the packets dequeued under  *)
(* the lock and in the flush). Publishers send nothing but messages, so    *)
(* that these are numbered without a gap when they are sent.               *)
THEOREM DeliveredWithoutGaps ==
    ASSUME QUEUE_SIZE <= TX_PACKETS, PublishersOnlyPublish
    PROVE  Spec => []NoGaps
<1>1. Init => GapInv
  BY GapInit
<1>2. Inv /\ Inv' /\ GapInv /\ [Next]_vars => GapInv'
  BY GapStep
<1>3. Inv /\ GapInv => NoGaps
  <2> SUFFICES ASSUME Inv, GapInv, NEW k \in Slots, NEW s \in Sessions,
                      ~failed, ~closed[k], InLoop(k)
               PROVE  Gapless(UnderWay(k), s)
    BY DEF NoGaps
  <2>1. Flows(k)
    BY DEF GapInv, FlowInv
  <2> QED BY <2>1 DEF Flows, FlowOk
<1> QED BY <1>1, <1>2, <1>3, AlwaysInv, PTL DEF Spec
=============================================================================
