---------------------------- MODULE BrokerProofs ----------------------------
(***************************************************************************)
(* Theorems about Broker, for every value of its constants: the registries *)
(* stay consistent, no vector outgrows its capacity, Ok means that every   *)
(* receive queue is empty, no subscriber is dropped, a PUBACK means        *)
(* delivery, and messages keep their order. The last part shows that, with *)
(* one filter that every topic matches, Broker implements the broker of    *)
(* BrokerRound, whose calls are single steps.                              *)
(***************************************************************************)
EXTENDS BrokerRefinement, VectorProofs

-----------------------------------------------------------------------------
(* Type correctness. It needs the vectors to be free of duplicates: that   *)
(* is what makes removing an element well defined.                         *)

(* A successful queue_tx_packet keeps tx well typed.                       *)
LEMMA QueueTxPacketType ==
    ASSUME TypeOK, NEW s \in SessionIds, NEW p \in ServerPackets, QueueTxPacket(s, p)
    PROVE  tx' \in [SessionIds -> Seq(ServerPackets)]
<1>1. Append(tx[s], p) \in Seq(ServerPackets)
  BY AppendElement DEF TypeOK
<1> QED BY <1>1 DEF QueueTxPacket, TypeOK

(* Returning resets the loop variables to well-typed values.               *)
LEMMA ReturnType ==
    ASSUME NEW r \in Errors \cup {"Ok"}, Return(r)
    PROVE  ControlTypeOK'
  BY DEF Return, ControlTypeOK

(* A failed queue_tx_packet returns one of the two queue errors.           *)
LEMMA QueueTxFailsType ==
    ASSUME TypeOK, NEW s, QueueTxFails(s)
    PROVE  tx' \in [SessionIds -> Seq(ServerPackets)] /\ ControlTypeOK'
<1>1. QueueResult(s, tx) \in Errors \cup {"Ok"}
  BY DEF QueueResult, Errors
<1> QED BY <1>1, ReturnType DEF QueueTxFails, TypeOK

(* Going on with the while-let loop keeps the control well typed.          *)
LEMMA ContinueType ==
    ASSUME TypeOK, Continue
    PROVE  ControlTypeOK'
  BY DEF Continue, TypeOK, ControlTypeOK

(* The packet taken from rx is a client packet of the type asked for.      *)
LEMMA TakingType ==
    ASSUME TypeOK, NEW type, Taking(type)
    PROVE  /\ Head(todo) \in SessionIds
           /\ Head(rx[Head(todo)]) \in ClientPackets
           /\ Head(rx[Head(todo)]).type = type
           /\ rx' \in [SessionIds -> Seq(ClientPackets)]
<1>1. Head(todo) \in SessionIds
  BY TailElements DEF TypeOK, ControlTypeOK, Taking
<1>2. rx[Head(todo)] \in Seq(ClientPackets) /\ rx[Head(todo)] # <<>>
  BY <1>1 DEF TypeOK, Taking
<1>3. /\ Head(rx[Head(todo)]) \in ClientPackets
      /\ Tail(rx[Head(todo)]) \in Seq(ClientPackets)
  BY <1>2, TailElements
<1> QED BY <1>1, <1>3 DEF TypeOK, Taking, dequeue_front

(* A new broker is well typed.                                             *)
LEMMA TypeInit == Init => TypeOK
  BY SetsAssumption, EmptySeq
     DEF Init, TypeOK, ControlTypeOK, SessionStates

(* The calls: register, remove, mark, queue, dequeue. *)
LEMMA TypeCall ==
    ASSUME TypeOK, RegistriesConsistent, NEW s \in SessionIds, Call(s)
    PROVE  TypeOK'
<1>1. ASSUME NEW ka \in KeepAlives, NEW t \in Times, RegisterNewSession(s, ka, t)
      PROVE  TypeOK'
  <2>1. Append(sessions, s) \in Seq(SessionIds)
    BY AppendElement DEF TypeOK
  <2> QED
    BY <1>1, <2>1, SetsAssumption, EmptySeq
       DEF RegisterNewSession, TypeOK, ControlTypeOK, SessionStates, topic_registry, control
<1>2. CASE RemoveSession(s)
  <2>1. \A f \in Filters : RemoveElement(subscribers[f], s) \in Seq(SessionIds)
    BY RemoveElementProperties DEF TypeOK, RegistriesConsistent
  <2>2. RemoveElement(sessions, s) \in Seq(SessionIds)
    BY RemoveElementProperties DEF TypeOK, RegistriesConsistent
  <2>3. topics' \in Seq(Filters)
    <3> DEFINE K == {f \in Range(topics) : subscribers'[f] # <<>>}
    <3>1. topics' = Kept(topics, K)
      BY <1>2 DEF RemoveSession, UnregisterAll
    <3> HIDE DEF K
    <3>2. topics \in Seq(Filters)
      BY DEF TypeOK
    <3> QED BY <3>1, <3>2, KeptProperties
  <2>4. subscribers' \in [Filters -> Seq(SessionIds)]
    BY <1>2, <2>1 DEF RemoveSession, UnregisterAll, remove_subscriber
  <2> QED
    BY <1>2, <2>2, <2>3, <2>4, EmptySeq
       DEF RemoveSession, UnregisterAll, TypeOK, ControlTypeOK, SessionStates, control
<1>3. CASE MarkSessionDisconnected(s)
  BY <1>3 DEF MarkSessionDisconnected, TypeOK, ControlTypeOK, SessionStates,
              topic_registry, control
<1>4. CASE DequeuePacketToSendToClient(s)
  <2>1. Tail(tx[s]) \in Seq(ServerPackets)
    BY <1>4, TailElements DEF DequeuePacketToSendToClient, TypeOK
  <2> QED
    BY <1>4, <2>1 DEF DequeuePacketToSendToClient, dequeue_front, TypeOK, ControlTypeOK,
                      registry, topic_registry, control
<1> QED BY <1>1, <1>2, <1>3, <1>4 DEF Call

(* What a client sends is a client packet.                                 *)
LEMMA ReceivedPacket ==
    ASSUME TypeOK, NEW s \in SessionIds, NEW t \in Times, Receive(s, t)
    PROVE  \E p \in ClientPackets : QueuePacketReceivedFromClient(s, p, t)
<1>1. \A ka \in KeepAlives : [type |-> "connect", keep_alive |-> ka] \in ClientPackets
  BY DEF ClientPackets
<1>2. \A f \in Filters : [type |-> "subscribe", filter |-> f] \in ClientPackets
  BY DEF ClientPackets
<1>3. \A n \in Topics, q \in QoSLevels :
         [type |-> "publish", topic |-> n, qos |-> q, from |-> s,
          seq |-> published[s] + 1] \in ClientPackets
  <2>1. published[s] + 1 \in Nat
    BY DEF TypeOK
  <2> QED BY <2>1 DEF ClientPackets, Publishes
<1>4. \A type \in {"pingreq", "disconnect", "ignored"} : [type |-> type] \in ClientPackets
  BY DEF ClientPackets
<1> QED BY <1>1, <1>2, <1>3, <1>4 DEF Receive

(* Receiving a packet keeps the types.                                     *)
LEMMA TypeReceive ==
    ASSUME TypeOK, NEW s \in SessionIds, NEW t \in Times, Receive(s, t)
    PROVE  TypeOK'
<1>1. PICK p \in ClientPackets : QueuePacketReceivedFromClient(s, p, t)
  BY ReceivedPacket
<1>2. Append(rx[s], p) \in Seq(ClientPackets)
  BY AppendElement DEF TypeOK
<1>3. published' \in [SessionIds -> Nat]
  BY <1>1 DEF QueuePacketReceivedFromClient, Sendable, TypeOK
<1>4. rx' \in [SessionIds -> Seq(ClientPackets)]
  BY <1>1, <1>2 DEF QueuePacketReceivedFromClient, TypeOK
<1> QED
  BY <1>1, <1>3, <1>4, SetsAssumption
     DEF QueuePacketReceivedFromClient, TypeOK, ControlTypeOK, topic_registry, control

(* The steps of process_all_session_packets. *)
LEMMA TypeProcess ==
    ASSUME TypeOK, Process
    PROVE  TypeOK'
<1> USE DEF registry, topic_registry
<1>1. CASE Done
  BY <1>1, ReturnType DEF Done, TypeOK
<1>2. CASE NextSession
  <2>1. CASE Head(todo) \in Registered
    <3>1. Tail(todo) \in Seq(SessionIds)
      BY <1>2, TailElements DEF NextSession, TypeOK, ControlTypeOK
    <3> QED BY <1>2, <2>1, <3>1 DEF NextSession, TypeOK, ControlTypeOK
  <2>2. CASE Head(todo) \notin Registered
    BY <1>2, <2>2, ReturnType DEF NextSession, TypeOK, Errors
  <2> QED BY <2>1, <2>2
<1>3. CASE HandleConnect
  <2> DEFINE s == Head(todo)
             p == Head(rx[s])
  <2>1. s \in SessionIds /\ p \in ClientPackets /\ p.type = "connect"
        /\ rx' \in [SessionIds -> Seq(ClientPackets)]
    BY <1>3, TakingType DEF HandleConnect
  <2>2. p.keep_alive \in Nat
    BY <2>1, SetsAssumption DEF ClientPackets, Publishes
  <2>3. [type |-> "connack"] \in ServerPackets
    BY DEF ServerPackets
  <2>4. tx' \in [SessionIds -> Seq(ServerPackets)] /\ ControlTypeOK'
    BY <1>3, <2>1, <2>3, QueueTxPacketType, QueueTxFailsType, ContinueType
       DEF HandleConnect
  <2> QED BY <1>3, <2>1, <2>2, <2>4 DEF HandleConnect, TypeOK, SessionStates
<1>4. CASE HandlePingreq
  <2>1. Head(todo) \in SessionIds /\ rx' \in [SessionIds -> Seq(ClientPackets)]
    BY <1>4, TakingType DEF HandlePingreq
  <2>2. [type |-> "pingresp"] \in ServerPackets
    BY DEF ServerPackets
  <2>3. tx' \in [SessionIds -> Seq(ServerPackets)] /\ ControlTypeOK'
    BY <1>4, <2>1, <2>2, QueueTxPacketType, QueueTxFailsType, ContinueType
       DEF HandlePingreq
  <2> QED BY <1>4, <2>1, <2>3 DEF HandlePingreq, TypeOK
<1>5. CASE HandleDisconnect
  <2>1. Head(todo) \in SessionIds /\ rx' \in [SessionIds -> Seq(ClientPackets)]
    BY <1>5, TakingType DEF HandleDisconnect
  <2> QED BY <1>5, <2>1, ContinueType DEF HandleDisconnect, TypeOK, SessionStates
<1>6. CASE HandleIgnored
  <2>1. rx' \in [SessionIds -> Seq(ClientPackets)]
    BY <1>6, TakingType DEF HandleIgnored
  <2> QED BY <1>6, <2>1, ContinueType DEF HandleIgnored, TypeOK
<1>7. CASE HandleSubscribe
  <2> DEFINE s == Head(todo)
             p == Head(rx[s])
             f == p.filter
  <2>1. s \in SessionIds /\ p \in ClientPackets /\ p.type = "subscribe"
        /\ rx' \in [SessionIds -> Seq(ClientPackets)]
    BY <1>7, TakingType DEF HandleSubscribe
  <2>2. f \in Filters
    BY <2>1 DEF ClientPackets, Publishes
  <2>3. CASE /\ SubscribeResult(s, f) = "Ok"
             /\ Subscribe(s, f)
             /\ (QueueTxPacket(s, [type |-> "suback"]) /\ Continue) \/ QueueTxFails(s)
    <3>1. [type |-> "suback"] \in ServerPackets
      BY DEF ServerPackets
    <3>2. tx' \in [SessionIds -> Seq(ServerPackets)] /\ ControlTypeOK'
      BY <2>1, <2>3, <3>1, QueueTxPacketType, QueueTxFailsType, ContinueType
    <3>3. /\ Append(topics, f) \in Seq(Filters)
          /\ Append(subscribers[f], s) \in Seq(SessionIds)
      BY <2>1, <2>2, AppendElement DEF TypeOK
    <3>4. topics' \in Seq(Filters) /\ subscribers' \in [Filters -> Seq(SessionIds)]
      BY <2>2, <2>3, <3>3 DEF Subscribe, add_subscriber, TypeOK
    <3> QED BY <1>7, <2>1, <3>2, <3>4 DEF HandleSubscribe, TypeOK
  <2>4. CASE /\ SubscribeResult(s, f) # "Ok"
             /\ Return(SubscribeResult(s, f))
             /\ UNCHANGED <<topic_registry, tx>>
    <3>1. SubscribeResult(s, f) \in Errors \cup {"Ok"}
      BY DEF SubscribeResult, Errors
    <3>2. ControlTypeOK'
      BY <2>4, <3>1, ReturnType
    <3> QED BY <1>7, <2>1, <2>4, <3>2 DEF HandleSubscribe, TypeOK
  <2> QED BY <1>7, <2>3, <2>4 DEF HandleSubscribe
<1>8. CASE HandlePublish
  <2>1. /\ Head(rx[Head(todo)]) \in ClientPackets
        /\ Head(rx[Head(todo)]).type = "publish"
        /\ rx' \in [SessionIds -> Seq(ClientPackets)]
    BY <1>8, TakingType DEF HandlePublish
  <2>2. Head(rx[Head(todo)]) \in Publishes
    BY <2>1 DEF ClientPackets
  <2>3. /\ pc' = "collect" /\ cur' \in Publishes /\ todo # <<>> /\ found' = <<>>
        /\ entry' = 1 /\ idx' = 1
        /\ UNCHANGED <<registry, tx, topic_registry, todo, result, published>>
    BY <1>8, <2>2 DEF HandlePublish, Taking
  <2>4. ControlTypeOK'
    BY <2>3, EmptySeq DEF TypeOK, ControlTypeOK
  <2> QED BY <2>1, <2>3, <2>4 DEF TypeOK, registry, topic_registry
<1>9. CASE CollectSubscriber
  <2>1. topics[entry] \in Filters
    BY <1>9 DEF CollectSubscriber, AtSubscriber, TypeOK, ControlTypeOK
  <2>2. /\ subscribers[topics[entry]] \in Seq(SessionIds)
        /\ idx \in 1..Len(subscribers[topics[entry]])
    <3>1. subscribers[topics[entry]] \in Seq(SessionIds)
      BY <2>1 DEF TypeOK
    <3>2. idx \in Nat \ {0} /\ idx <= Len(subscribers[topics[entry]])
      BY <1>9 DEF CollectSubscriber, AtSubscriber, TypeOK, ControlTypeOK
    <3> QED BY <3>1, <3>2
  <2>3. subscribers[topics[entry]][idx] \in SessionIds
    BY <2>2
  <2>4. found' \in Seq(SessionIds)
    BY <1>9, <2>3, AppendElement DEF CollectSubscriber, PushFound, TypeOK, ControlTypeOK
  <2>5. idx' \in Nat \ {0}
    BY <1>9, <2>2 DEF CollectSubscriber
  <2> QED BY <1>9, <2>4, <2>5 DEF CollectSubscriber, TypeOK, ControlTypeOK
<1>10. CASE CollectNextEntry
  <2>1. entry \in Nat /\ entry' = entry + 1 /\ idx' = 1
    BY <1>10 DEF CollectNextEntry, TypeOK, ControlTypeOK
  <2>2. entry' \in Nat \ {0} /\ idx' \in Nat \ {0}
    BY <2>1
  <2> QED BY <1>10, <2>2 DEF CollectNextEntry, TypeOK, ControlTypeOK
<1>11. CASE CollectDone
  BY <1>11 DEF CollectDone, TypeOK, ControlTypeOK
<1>12. CASE Deliver
  <2>1. found[idx] \in SessionIds /\ cur \in ServerPackets
    BY <1>12 DEF Deliver, TypeOK, ControlTypeOK, ServerPackets
  <2>2. tx' \in [SessionIds -> Seq(ServerPackets)]
    BY <1>12, <2>1, QueueTxPacketType, QueueTxFailsType DEF Deliver
  <2>3. ControlTypeOK'
    <3>1. CASE QueueTxFails(found[idx])
      BY <3>1, QueueTxFailsType
    <3>2. CASE ~QueueTxFails(found[idx])
      <4>1. idx \in Nat /\ idx' = idx + 1
        BY <1>12, <3>2 DEF Deliver, TypeOK, ControlTypeOK
      <4>2. idx' \in Nat \ {0}
        BY <4>1
      <4> QED BY <1>12, <3>2, <4>2 DEF Deliver, TypeOK, ControlTypeOK
    <3> QED BY <3>1, <3>2
  <2> QED BY <1>12, <2>2, <2>3 DEF Deliver, TypeOK
<1>13. CASE PublishDone
  <2>1. Head(todo) \in SessionIds /\ cur.seq \in Nat
    BY <1>13, TailElements DEF PublishDone, TypeOK, ControlTypeOK, Publishes
  <2>2. [type |-> "puback", seq |-> cur.seq] \in ServerPackets
    BY <2>1 DEF ServerPackets
  <2>3. tx' \in [SessionIds -> Seq(ServerPackets)]
    BY <1>13, <2>1, <2>2, QueueTxPacketType, QueueTxFailsType DEF PublishDone, TypeOK
  <2>4. ControlTypeOK'
    BY <1>13, ContinueType, QueueTxFailsType DEF PublishDone
  <2> QED BY <1>13, <2>3, <2>4 DEF PublishDone, TypeOK
<1> QED
  BY <1>1, <1>2, <1>3, <1>4, <1>5, <1>6, <1>7, <1>8, <1>9, <1>10, <1>11, <1>12, <1>13
     DEF Process

-----------------------------------------------------------------------------
(* The two registries. *)

(* No step of processing touches the session vector, and only SUBSCRIBE    *)
(* touches the topic registry.                                             *)
LEMMA ProcessFrame ==
    ASSUME Process
    PROVE  /\ UNCHANGED sessions
           /\ ~HandleSubscribe => UNCHANGED <<topics, subscribers>>
  BY DEF Process, Done, NextSession, HandleConnect, HandlePingreq, HandleDisconnect,
         HandleIgnored, HandleSubscribe, HandlePublish, CollectSubscriber,
         CollectNextEntry, CollectDone, Deliver, PublishDone, registry, topic_registry

(* What a SUBSCRIBE does to the topic registry: nothing when it is refused *)
LEMMA SubscribeEffect ==
    ASSUME TypeOK, HandleSubscribe
    PROVE  \E f \in Filters :
              /\ Head(todo) \in SessionIds
              /\ \/ Subscribe(Head(todo), f)
                 \/ UNCHANGED <<topics, subscribers>>
<1> DEFINE s == Head(todo)
           p == Head(rx[s])
<1>1. s \in SessionIds /\ p \in ClientPackets /\ p.type = "subscribe"
  BY TakingType DEF HandleSubscribe
<1>2. p.filter \in Filters
  BY <1>1 DEF ClientPackets, Publishes
<1>3. Subscribe(s, p.filter) \/ UNCHANGED <<topics, subscribers>>
  BY DEF HandleSubscribe, topic_registry
<1> QED BY <1>1, <1>2, <1>3

(* subscribe keeps the registries consistent.                              *)
LEMMA SubscribeKeepsRegistries ==
    ASSUME TypeOK, RegistriesConsistent, UNCHANGED sessions,
           NEW f \in Filters, NEW s \in SessionIds, Subscribe(s, f)
    PROVE  /\ RegistriesConsistent'
           /\ \A g \in Filters : Subscribers(g)' = IF g = f THEN Subscribers(g) \cup {s}
                                                  ELSE Subscribers(g)
<1>1. /\ topics \in Seq(Filters) /\ IsInjective(topics)
      /\ subscribers \in [Filters -> Seq(SessionIds)]
      /\ \A g \in Filters : IsInjective(subscribers[g])
      /\ \A g \in Filters : g \in Range(topics) <=> subscribers[g] # <<>>
  BY DEF TypeOK, RegistriesConsistent
<1>2. /\ IsInjective(topics')
      /\ Range(topics') = Range(topics) \cup {f}
  BY <1>1, AppendElement DEF Subscribe
<1>3. /\ IsInjective(add_subscriber(f, s))
      /\ Range(add_subscriber(f, s)) = Subscribers(f) \cup {s}
      /\ add_subscriber(f, s) # <<>>
  <2>1. CASE s \in Subscribers(f)
    BY <1>1, <2>1 DEF add_subscriber, Subscribers, Range
  <2>2. CASE s \notin Subscribers(f)
    <3>1. Append(subscribers[f], s) # <<>>
      BY <1>1, AppendProperties
    <3> QED BY <1>1, <2>2, <3>1, AppendElement DEF add_subscriber, Subscribers
  <2> QED BY <2>1, <2>2
<1>4. subscribers' = [subscribers EXCEPT ![f] = add_subscriber(f, s)]
  BY DEF Subscribe
<1>5. \A g \in Filters : subscribers'[g] = IF g = f THEN add_subscriber(f, s)
                                            ELSE subscribers[g]
  BY <1>1, <1>4
<1>6. \A g \in Filters : Subscribers(g)' = IF g = f THEN Subscribers(g) \cup {s}
                                            ELSE Subscribers(g)
  BY <1>3, <1>5 DEF Subscribers
<1>7. RegistriesConsistent'
  BY <1>1, <1>2, <1>3, <1>5 DEF RegistriesConsistent
<1> QED BY <1>6, <1>7

(* remove_session takes the id out of both registries.                     *)
LEMMA RemoveKeepsRegistries ==
    ASSUME TypeOK, RegistriesConsistent, NEW s \in SessionIds, RemoveSession(s)
    PROVE  /\ RegistriesConsistent'
           /\ Registered' = Registered \ {s}
           /\ \A f \in Filters : Subscribers(f)' = Subscribers(f) \ {s}
<1>1. /\ IsInjective(sessions')
      /\ Registered' = Registered \ {s}
  BY RemoveElementProperties DEF RemoveSession, UnregisterAll, TypeOK, RegistriesConsistent, Registered
<1>2. ASSUME NEW f \in Filters
      PROVE  /\ IsInjective(subscribers'[f])
             /\ Range(subscribers'[f]) = Range(subscribers[f]) \ {s}
             /\ subscribers'[f] # <<>> => subscribers[f] # <<>>
  <2>1. subscribers[f] \in Seq(SessionIds) /\ IsInjective(subscribers[f])
    BY DEF TypeOK, RegistriesConsistent
  <2>2. subscribers'[f] = RemoveElement(subscribers[f], s)
    BY DEF RemoveSession, UnregisterAll, remove_subscriber
  <2>3. subscribers[f] = <<>> => subscribers'[f] = <<>>
    BY <2>2 DEF RemoveElement, Range
  <2> QED BY <2>1, <2>2, <2>3, RemoveElementProperties
<1>3. \A f \in Filters : Subscribers(f)' = Subscribers(f) \ {s}
  BY <1>2 DEF Subscribers
<1>4. IsInjective(topics') /\ Range(topics') = {f \in Range(topics) : subscribers'[f] # <<>>}
  <2> DEFINE K == {f \in Range(topics) : subscribers'[f] # <<>>}
  <2>1. topics' = Kept(topics, K)
    BY DEF RemoveSession, UnregisterAll
  <2> HIDE DEF K
  <2>2. topics \in Seq(Filters) /\ IsInjective(topics)
    BY DEF TypeOK, RegistriesConsistent
  <2>3. IsInjective(topics') /\ Range(topics') = Range(topics) \cap K
    BY <2>1, <2>2, KeptProperties
  <2> QED BY <2>3 DEF K
<1>5. \A f \in Filters : f \in Range(topics') <=> subscribers'[f] # <<>>
  BY <1>2, <1>4 DEF RegistriesConsistent
<1>6. RegistriesConsistent'
  BY <1>1, <1>2, <1>4, <1>5 DEF RegistriesConsistent
<1> QED BY <1>1, <1>3, <1>6

-----------------------------------------------------------------------------
(* The ids process_all_session_packets works with stay valid while it      *)
(* runs: its snapshot of the sessions, and the subscribers it collected.   *)
NothingStale ==
    /\ Range(todo) \subseteq Registered
    /\ Range(found) \subseteq Registered
    /\ pc = "idle" => todo = <<>>

(* The inductive invariant for the agreement of the two registries.        *)
RegistryInv ==
    /\ TypeOK
    /\ RegistriesConsistent
    /\ SubscribersAreSessions
    /\ NothingStale
    /\ NeverSessionNotFound

(* A new broker satisfies the inductive invariant.                         *)
LEMMA RegistryInit == Init => RegistryInv
<1>1. Range(<<>>) = {} /\ IsInjective(<<>>)
  BY DEF Range, IsInjective
<1> QED
  BY <1>1, TypeInit
     DEF Init, RegistryInv, RegistriesConsistent, SubscribersAreSessions, NothingStale,
         NeverSessionNotFound, Registered, Subscribers

(* The calls outside processing preserve it.                               *)
LEMMA RegistryCall ==
    ASSUME RegistryInv, NEW s \in SessionIds, Call(s)
    PROVE  RegistryInv'
<1>1. TypeOK'
  BY TypeCall DEF RegistryInv
<1>2. ASSUME NEW ka \in KeepAlives, NEW t \in Times, RegisterNewSession(s, ka, t)
      PROVE  RegistryInv'
  <2>1. IsInjective(sessions') /\ Registered' = Registered \cup {s}
    BY <1>2, AppendElement
       DEF RegisterNewSession, RegistryInv, TypeOK, RegistriesConsistent, Registered
  <2>2. UNCHANGED <<topics, subscribers, pc, todo, found, result>>
    BY <1>2 DEF RegisterNewSession, topic_registry, control
  <2> QED
    BY <1>1, <2>1, <2>2
       DEF RegistryInv, RegistriesConsistent, SubscribersAreSessions, NothingStale,
           NeverSessionNotFound, Subscribers
<1>3. CASE RemoveSession(s)
  <2>1. /\ RegistriesConsistent'
        /\ Registered' = Registered \ {s}
        /\ \A f \in Filters : Subscribers(f)' = Subscribers(f) \ {s}
    BY <1>3, RemoveKeepsRegistries DEF RegistryInv
  <2>2. SubscribersAreSessions'
    BY <2>1 DEF RegistryInv, SubscribersAreSessions
  <2>3. pc = "idle" /\ UNCHANGED <<pc, todo, found, result>>
    BY <1>3 DEF RemoveSession, UnregisterAll, control
  <2>4. todo = <<>> /\ found = <<>>
    BY <2>3 DEF RegistryInv, NothingStale, TypeOK, ControlTypeOK
  <2>5. NothingStale' /\ NeverSessionNotFound'
    BY <2>3, <2>4 DEF RegistryInv, NothingStale, NeverSessionNotFound, Range
  <2> QED BY <1>1, <2>1, <2>2, <2>5 DEF RegistryInv
<1>4. CASE MarkSessionDisconnected(s) \/ DequeuePacketToSendToClient(s)
  <2>1. UNCHANGED <<sessions, topics, subscribers, pc, todo, found, result>>
    BY <1>4 DEF MarkSessionDisconnected, DequeuePacketToSendToClient, registry,
                topic_registry, control
  <2> QED
    BY <1>1, <2>1
       DEF RegistryInv, RegistriesConsistent, SubscribersAreSessions, NothingStale,
           NeverSessionNotFound, Subscribers, Registered
<1> QED BY <1>2, <1>3, <1>4 DEF Call

(* Receiving a packet preserves it.                                        *)
LEMMA RegistryReceive ==
    ASSUME RegistryInv, NEW s \in SessionIds, NEW t \in Times, Receive(s, t)
    PROVE  RegistryInv'
<1>1. TypeOK'
  BY TypeReceive DEF RegistryInv
<1>2. UNCHANGED <<sessions, topics, subscribers, pc, todo, found, result>>
  BY DEF Receive, QueuePacketReceivedFromClient, topic_registry, control
<1> QED
  BY <1>1, <1>2
     DEF RegistryInv, RegistriesConsistent, SubscribersAreSessions, NothingStale,
         NeverSessionNotFound, Subscribers, Registered

(* The snapshot of session ids is not stale when it is taken.              *)
LEMMA RegistryBegin ==
    ASSUME RegistryInv, Begin
    PROVE  RegistryInv'
<1>1. /\ UNCHANGED <<sessions, state, keep_alive, last_activity, rx, tx, topics,
                      subscribers, cur, found, entry, idx, result, published>>
      /\ pc = "idle" /\ pc' = "next" /\ todo' = sessions
  BY DEF Begin, registry, topic_registry
<1>2. TypeOK'
  BY <1>1 DEF RegistryInv, TypeOK, ControlTypeOK
<1> QED
  BY <1>1, <1>2
     DEF RegistryInv, RegistriesConsistent, SubscribersAreSessions, NothingStale,
         NeverSessionNotFound, Subscribers, Registered

(* Where control can go in one step of processing. *)
LEMMA ProcessControl ==
    ASSUME RegistryInv, Process
    PROVE  \/ Return(result')
           \/ pc' # "idle" /\ (todo' = todo \/ (todo # <<>> /\ todo' = Tail(todo)))
<1>1. CASE \E r : Return(r)
  BY <1>1 DEF Return
<1>2. CASE Continue
  BY <1>2 DEF Continue
<1>3. CASE CollectSubscriber \/ CollectNextEntry \/ CollectDone \/ HandlePublish
  BY <1>3 DEF CollectSubscriber, CollectNextEntry, CollectDone, HandlePublish
<1>4. CASE NextSession
  BY <1>1, <1>4 DEF NextSession
<1>5. CASE Deliver
  BY <1>1, <1>5 DEF Deliver, QueueTxFails
<1> QED
  BY <1>1, <1>2, <1>3, <1>4, <1>5
     DEF Process, Done, HandleConnect, HandlePingreq, HandleDisconnect, HandleIgnored,
         HandleSubscribe, PublishDone, QueueTxFails

(* queue_tx_packet of a registered session does not fail to find it. *)
LEMMA FailsNotMissing ==
    ASSUME NEW s \in Registered, QueueTxFails(s)
    PROVE  result' # "SessionNotFound"
  BY DEF QueueTxFails, QueueResult, Return

(* Each step of process_all_session_packets preserves it.                  *)
LEMMA RegistryProcess ==
    ASSUME RegistryInv, Process
    PROVE  RegistryInv'
<1> USE DEF RegistryInv
<1>1. TypeOK'
  BY TypeProcess
<1>2. UNCHANGED sessions /\ Registered' = Registered
  BY ProcessFrame DEF Registered
<1>3. todo # <<>> => Head(todo) \in Registered
  BY TailElements DEF NothingStale, TypeOK, ControlTypeOK
<1>4. RegistriesConsistent' /\ SubscribersAreSessions'
  <2>1. CASE UNCHANGED <<topics, subscribers>>
    BY <1>2, <2>1 DEF RegistriesConsistent, SubscribersAreSessions, Subscribers
  <2>2. CASE HandleSubscribe /\ ~UNCHANGED <<topics, subscribers>>
    <3>1. PICK f \in Filters : Head(todo) \in SessionIds /\ Subscribe(Head(todo), f)
      BY <2>2, SubscribeEffect
    <3>2. Head(todo) \in Registered
      BY <1>3, <2>2 DEF HandleSubscribe, Taking
    <3>3. /\ RegistriesConsistent'
          /\ \A g \in Filters : Subscribers(g)' = IF g = f THEN Subscribers(g) \cup {Head(todo)}
                                                 ELSE Subscribers(g)
      BY <1>2, <3>1, SubscribeKeepsRegistries
    <3> QED BY <1>2, <3>2, <3>3 DEF SubscribersAreSessions
  <2> QED BY <2>1, <2>2, ProcessFrame
<1>5. Range(todo') \subseteq Registered /\ (pc' = "idle" => todo' = <<>>)
  <2>1. CASE Return(result')
    BY <2>1 DEF Return, Range
  <2>2. CASE pc' # "idle" /\ (todo' = todo \/ (todo # <<>> /\ todo' = Tail(todo)))
    BY <2>2, TailElements DEF NothingStale, TypeOK, ControlTypeOK
  <2> QED BY <2>1, <2>2, ProcessControl
<1>6. Range(found') \subseteq Registered
  <2>1. CASE CollectSubscriber
    <3> DEFINE x == subscribers[topics[entry]][idx]
    <3>1. topics[entry] \in Filters
      BY <2>1 DEF CollectSubscriber, AtSubscriber, TypeOK, ControlTypeOK
    <3>2. subscribers[topics[entry]] \in Seq(SessionIds)
      BY <3>1 DEF TypeOK
    <3>3. idx \in Nat \ {0} /\ idx <= Len(subscribers[topics[entry]])
      BY <2>1 DEF CollectSubscriber, AtSubscriber, TypeOK, ControlTypeOK
    <3>4. x \in Subscribers(topics[entry])
      BY <3>2, <3>3 DEF Subscribers, Range
    <3>5. x \in Registered /\ x \in SessionIds
      BY <3>1, <3>2, <3>3, <3>4 DEF SubscribersAreSessions
    <3>6. found' = found \/ found' = Append(found, x)
      BY <2>1 DEF CollectSubscriber, PushFound
    <3>7. found \in Seq(SessionIds) /\ Range(found) \subseteq Registered
      BY DEF NothingStale, TypeOK, ControlTypeOK
    <3>8. Range(Append(found, x)) = Range(found) \cup {x}
      BY <3>5, <3>7, AppendElement
    <3> QED BY <3>5, <3>6, <3>7, <3>8
  <2>2. CASE ~CollectSubscriber
    <3>1. found' = found \/ found' = <<>>
      BY <2>2 DEF Process, Done, NextSession, HandleConnect, HandlePingreq,
                  HandleDisconnect, HandleIgnored, HandleSubscribe, HandlePublish,
                  CollectNextEntry, CollectDone, Deliver, PublishDone, QueueTxFails,
                  Return, Continue
    <3> QED BY <3>1 DEF NothingStale, Range
  <2> QED BY <2>1, <2>2
<1>7. result' # "SessionNotFound"
  <2>1. CASE Done
    BY <2>1 DEF Done, Return
  <2>2. CASE NextSession
    BY <1>3, <2>2 DEF NextSession, NeverSessionNotFound
  <2>3. CASE HandleConnect \/ HandlePingreq
    BY <1>3, <2>3, FailsNotMissing
       DEF HandleConnect, HandlePingreq, Taking, Continue, NeverSessionNotFound
  <2>4. CASE HandleSubscribe
    <3>1. Head(todo) \in Registered
      BY <1>3, <2>4 DEF HandleSubscribe, Taking
    <3> QED BY <2>4, <3>1, FailsNotMissing
            DEF HandleSubscribe, SubscribeResult, Return, Continue, NeverSessionNotFound
  <2>5. CASE \/ HandleDisconnect \/ HandleIgnored \/ HandlePublish
             \/ CollectSubscriber \/ CollectNextEntry \/ CollectDone
    BY <2>5 DEF HandleDisconnect, HandleIgnored, HandlePublish, CollectSubscriber,
                CollectNextEntry, CollectDone, Continue, NeverSessionNotFound
  <2>6. CASE Deliver
    <3>1. found[idx] \in Registered
      <4>1. found \in Seq(SessionIds) /\ idx \in Nat \ {0} /\ idx <= Len(found)
        BY <2>6 DEF Deliver, TypeOK, ControlTypeOK
      <4>2. found[idx] \in Range(found)
        BY <4>1 DEF Range
      <4> QED BY <4>2 DEF NothingStale
    <3> QED BY <2>6, <3>1, FailsNotMissing DEF Deliver, NeverSessionNotFound
  <2>7. CASE PublishDone
    BY <1>3, <2>7, FailsNotMissing
       DEF PublishDone, Continue, NeverSessionNotFound, TypeOK, ControlTypeOK
  <2> QED BY <2>1, <2>2, <2>3, <2>4, <2>5, <2>6, <2>7 DEF Process
<1> QED BY <1>1, <1>2, <1>4, <1>5, <1>6, <1>7 DEF NothingStale, NeverSessionNotFound

(* Every step preserves it.                                                *)
LEMMA RegistryNext == RegistryInv /\ [Next]_vars => RegistryInv'
<1> SUFFICES ASSUME RegistryInv, [Next]_vars PROVE RegistryInv'
  OBVIOUS
<1>1. CASE UNCHANGED vars
  BY <1>1 DEF vars, registry, topic_registry, control, RegistryInv, TypeOK, ControlTypeOK,
              RegistriesConsistent, SubscribersAreSessions, NothingStale,
              NeverSessionNotFound, Subscribers, Registered
<1> QED
  BY <1>1, RegistryCall, RegistryReceive, RegistryBegin, RegistryProcess DEF Next

(* The inductive invariant holds throughout.                               *)
LEMMA RegistryCorrect == Spec => []RegistryInv
  BY RegistryInit, RegistryNext, PTL DEF Spec

(* Every reachable state of the broker is well typed, whatever the limits, *)
(* the clients and the order of calls.                                     *)
THEOREM TypeCorrect == Spec => []TypeOK
<1>1. RegistryInv => TypeOK
  BY DEF RegistryInv
<1> QED BY <1>1, RegistryCorrect, PTL

(* The session registry and the topic registry never drift apart: every    *)
(* subscriber of every topic entry is a registered session.                *)
THEOREM SubscribersStayRegistered == Spec => []SubscribersAreSessions
<1>1. RegistryInv => SubscribersAreSessions
  BY DEF RegistryInv
<1> QED BY <1>1, RegistryCorrect, PTL

(* Sessions, filters and the subscribers of a filter are never duplicated, *)
(* and no empty topic entry is left behind.                                *)
THEOREM RegistriesStayConsistent == Spec => []RegistriesConsistent
<1>1. RegistryInv => RegistriesConsistent
  BY DEF RegistryInv
<1> QED BY <1>1, RegistryCorrect, PTL

(* process_all_session_packets never returns SessionNotFound.              *)
THEOREM ProcessingFindsSessions == Spec => []NeverSessionNotFound
<1>1. RegistryInv => NeverSessionNotFound
  BY DEF RegistryInv
<1> QED BY <1>1, RegistryCorrect, PTL
-----------------------------------------------------------------------------
(* What a step of processing does to the queues. *)

(* A receive queue changes only when the while-let loop takes a packet.    *)
LEMMA ReceiveQueueStep ==
    ASSUME Process
    PROVE  \/ UNCHANGED rx
           \/ \E type : Taking(type)
  BY DEF Process, Done, NextSession, HandleConnect, HandlePingreq, HandleDisconnect,
         HandleIgnored, HandleSubscribe, HandlePublish, CollectSubscriber,
         CollectNextEntry, CollectDone, Deliver, PublishDone

(* A transmit queue changes by one packet: a message in the delivery loop, *)
(* a PUBACK after it, or an answer of one of the other handlers.           *)
LEMMA TransmitQueueStep ==
    ASSUME RegistryInv, Process
    PROVE  \/ UNCHANGED tx
           \/ /\ Deliver /\ found[idx] \in SessionIds /\ cur \in ServerPackets
              /\ QueueTxPacket(found[idx], cur)
              /\ idx' = idx + 1 /\ UNCHANGED <<pc, todo, cur, found, rx, published>>
           \/ /\ PublishDone /\ Head(todo) \in SessionIds
              /\ [type |-> "puback", seq |-> cur.seq] \in ServerPackets
              /\ QueueTxPacket(Head(todo), [type |-> "puback", seq |-> cur.seq])
              /\ Continue
           \/ \E type \in {"connack", "pingresp", "suback"} :
                /\ pc = "next" /\ Head(todo) \in SessionIds
                /\ [type |-> type] \in ServerPackets
                /\ QueueTxPacket(Head(todo), [type |-> type])
                /\ Continue
<1>0. todo # <<>> => Head(todo) \in SessionIds
  BY TailElements DEF RegistryInv, TypeOK, ControlTypeOK
<1>1. CASE Deliver
  <2>1. found[idx] \in SessionIds /\ cur \in ServerPackets
    BY <1>1 DEF Deliver, RegistryInv, TypeOK, ControlTypeOK, ServerPackets
  <2> QED BY <1>1, <2>1 DEF Deliver, QueueTxFails
<1>2. CASE PublishDone
  <2>1. cur.seq \in Nat /\ todo # <<>>
    BY <1>2 DEF PublishDone, RegistryInv, TypeOK, ControlTypeOK, Publishes
  <2>2. [type |-> "puback", seq |-> cur.seq] \in ServerPackets
    BY <2>1 DEF ServerPackets
  <2> QED BY <1>0, <1>2, <2>1, <2>2 DEF PublishDone, QueueTxFails
<1>3. CASE HandleConnect \/ HandlePingreq \/ HandleSubscribe
  <2>1. \A type \in {"connack", "pingresp", "suback"} : [type |-> type] \in ServerPackets
    BY DEF ServerPackets
  <2>2. pc = "next" /\ Head(todo) \in SessionIds
    BY <1>0, <1>3 DEF HandleConnect, HandlePingreq, HandleSubscribe, Taking
  <2> QED BY <1>3, <2>1, <2>2
          DEF HandleConnect, HandlePingreq, HandleSubscribe, QueueTxFails
<1>4. CASE ~(Deliver \/ PublishDone \/ HandleConnect \/ HandlePingreq \/ HandleSubscribe)
  BY <1>4 DEF Process, Done, NextSession, HandleDisconnect, HandleIgnored, HandlePublish,
              CollectSubscriber, CollectNextEntry, CollectDone
<1> QED BY <1>1, <1>2, <1>3, <1>4

-----------------------------------------------------------------------------
(* Capacities. *)

(* No vector outgrows the capacity its const parameter gives it: needed *)
(* below for the list of subscribers that is collected.                    *)
WithinLimits ==
    /\ Len(sessions) <= MAX_SESSIONS
    /\ Len(topics) <= MAX_TOPICS
    /\ Len(found) <= MAX_SUBSCRIBERS_PER_TOPIC
    /\ \A f \in Filters : Len(subscribers[f]) <= MAX_SUBSCRIBERS_PER_TOPIC
    /\ \A s \in SessionIds : Len(rx[s]) <= QUEUE_SIZE /\ Len(tx[s]) <= QUEUE_SIZE

(* Registering, removing and dequeuing respect the capacities.             *)
LEMMA LimitsCall ==
    ASSUME RegistryInv, WithinLimits, NEW s \in SessionIds, Call(s)
    PROVE  WithinLimits'
<1> USE LimitsAssumption
<1>1. ASSUME NEW ka \in KeepAlives, NEW t \in Times, RegisterNewSession(s, ka, t)
      PROVE  WithinLimits'
  <2>1. Len(Append(sessions, s)) = Len(sessions) + 1 /\ Len(sessions) \in Nat
    BY AppendProperties, LenProperties DEF RegistryInv, TypeOK
  <2>2. Len(sessions') <= MAX_SESSIONS
    BY <1>1, <2>1 DEF RegisterNewSession
  <2>3. \A x \in SessionIds : Len(rx'[x]) <= QUEUE_SIZE /\ Len(tx'[x]) <= QUEUE_SIZE
    BY <1>1, EmptySeq DEF RegisterNewSession, RegistryInv, TypeOK, WithinLimits
  <2> QED BY <1>1, <2>2, <2>3 DEF RegisterNewSession, WithinLimits, topic_registry, control
<1>2. CASE RemoveSession(s)
  <2>1. Len(sessions') <= MAX_SESSIONS
    <3>1. Len(sessions') <= Len(sessions)
      BY <1>2, RemoveElementProperties
         DEF RemoveSession, RegistryInv, TypeOK, RegistriesConsistent
    <3>2. Len(sessions) \in Nat /\ Len(sessions') \in Nat
      BY <1>2, TypeCall, LenProperties DEF Call, RegistryInv, TypeOK
    <3> QED BY <3>1, <3>2 DEF WithinLimits
  <2>2. \A f \in Filters : Len(subscribers'[f]) <= MAX_SUBSCRIBERS_PER_TOPIC
    <3> SUFFICES ASSUME NEW f \in Filters
                 PROVE  Len(subscribers'[f]) <= MAX_SUBSCRIBERS_PER_TOPIC
      OBVIOUS
    <3>1. subscribers[f] \in Seq(SessionIds) /\ IsInjective(subscribers[f])
      BY DEF RegistryInv, TypeOK, RegistriesConsistent
    <3>2. subscribers'[f] = RemoveElement(subscribers[f], s)
      BY <1>2 DEF RemoveSession, UnregisterAll, remove_subscriber
    <3>3. Len(subscribers'[f]) <= Len(subscribers[f]) /\ subscribers'[f] \in Seq(SessionIds)
      BY <3>1, <3>2, RemoveElementProperties
    <3> QED BY <3>1, <3>3, LenProperties DEF WithinLimits
  <2>3. Len(topics') <= MAX_TOPICS
    <3> DEFINE K == {f \in Range(topics) : subscribers'[f] # <<>>}
    <3>1. topics' = Kept(topics, K)
      BY <1>2 DEF RemoveSession, UnregisterAll
    <3> HIDE DEF K
    <3>2. topics \in Seq(Filters)
      BY DEF RegistryInv, TypeOK
    <3>3. Len(topics') <= Len(topics) /\ topics' \in Seq(Filters)
      BY <3>1, <3>2, KeptProperties
    <3> QED BY <3>2, <3>3, LenProperties DEF WithinLimits
  <2>4. \A x \in SessionIds : Len(rx'[x]) <= QUEUE_SIZE /\ Len(tx'[x]) <= QUEUE_SIZE
    BY <1>2, EmptySeq DEF RemoveSession, RegistryInv, TypeOK, WithinLimits
  <2> QED BY <1>2, <2>1, <2>2, <2>3, <2>4 DEF RemoveSession, WithinLimits, control
<1>3. CASE MarkSessionDisconnected(s)
  BY <1>3 DEF MarkSessionDisconnected, WithinLimits, topic_registry, control
<1>4. CASE DequeuePacketToSendToClient(s)
  <2>1. Len(Tail(tx[s])) = Len(tx[s]) - 1 /\ Len(tx[s]) \in Nat
    BY <1>4, TailElements, LenProperties DEF DequeuePacketToSendToClient, RegistryInv, TypeOK
  <2>2. \A x \in SessionIds : Len(tx'[x]) <= QUEUE_SIZE
    BY <1>4, <2>1
       DEF DequeuePacketToSendToClient, dequeue_front, RegistryInv, TypeOK, WithinLimits
  <2> QED BY <1>4, <2>2 DEF DequeuePacketToSendToClient, WithinLimits, registry,
                            topic_registry, control
<1> QED BY <1>1, <1>2, <1>3, <1>4 DEF Call

(* A received packet goes into a queue that has room for it.               *)
LEMMA LimitsReceive ==
    ASSUME RegistryInv, WithinLimits, NEW s \in SessionIds, NEW t \in Times, Receive(s, t)
    PROVE  WithinLimits'
<1>1. PICK p : QueuePacketReceivedFromClient(s, p, t)
  BY DEF Receive
<1>2. \A x \in SessionIds : Len(rx'[x]) <= QUEUE_SIZE
  <2>1. CASE QueueResult(s, rx) # "Ok"
    BY <1>1, <2>1 DEF QueuePacketReceivedFromClient, WithinLimits
  <2>2. CASE QueueResult(s, rx) = "Ok"
    <3>1. rx[s] \in Seq(ClientPackets) /\ Len(rx[s]) \in Nat /\ Len(rx[s]) < QUEUE_SIZE
      BY <2>2, LimitsAssumption DEF QueueResult, RegistryInv, TypeOK
    <3>2. Len(Append(rx[s], p)) = Len(rx[s]) + 1
      BY <3>1, AppendProperties
    <3>3. Len(Append(rx[s], p)) <= QUEUE_SIZE
      BY <3>1, <3>2, LimitsAssumption
    <3>4. rx' = [rx EXCEPT ![s] = Append(rx[s], p)]
      BY <1>1, <2>2 DEF QueuePacketReceivedFromClient
    <3> QED BY <3>3, <3>4 DEF RegistryInv, TypeOK, WithinLimits
  <2> QED BY <2>1, <2>2
<1> QED BY <1>1, <1>2 DEF QueuePacketReceivedFromClient, WithinLimits, topic_registry, control

(* queue_tx_packet puts a packet only where there is room for it.          *)
LEMMA QueueTxPacketLimits ==
    ASSUME RegistryInv, WithinLimits, NEW s \in SessionIds, NEW p \in ServerPackets,
           QueueTxPacket(s, p)
    PROVE  \A x \in SessionIds : Len(tx'[x]) <= QUEUE_SIZE
<1>1. tx[s] \in Seq(ServerPackets) /\ Len(tx[s]) \in Nat /\ Len(tx[s]) < QUEUE_SIZE
  BY LimitsAssumption DEF QueueTxPacket, QueueResult, RegistryInv, TypeOK
<1>2. Len(Append(tx[s], p)) = Len(tx[s]) + 1
  BY <1>1, AppendProperties
<1>3. Len(Append(tx[s], p)) <= QUEUE_SIZE
  BY <1>1, <1>2, LimitsAssumption
<1> QED BY <1>3 DEF QueueTxPacket, RegistryInv, TypeOK, WithinLimits

(* subscribe respects both limits of the topic registry.                   *)
LEMMA SubscribeLimits ==
    ASSUME RegistryInv, WithinLimits, HandleSubscribe
    PROVE  /\ Len(topics') <= MAX_TOPICS
           /\ \A g \in Filters : Len(subscribers'[g]) <= MAX_SUBSCRIBERS_PER_TOPIC
<1> USE LimitsAssumption
<1> DEFINE s == Head(todo)
           f == Head(rx[s]).filter
<1>1. CASE UNCHANGED topic_registry
  BY <1>1 DEF WithinLimits, topic_registry
<1>2. CASE SubscribeResult(s, f) = "Ok" /\ Subscribe(s, f)
  <2>1. s \in SessionIds /\ f \in Filters
    <3>1. /\ s \in SessionIds /\ Head(rx[s]) \in ClientPackets
          /\ Head(rx[s]).type = "subscribe"
      BY TakingType DEF HandleSubscribe, RegistryInv
    <3> QED BY <3>1 DEF ClientPackets, Publishes
  <2> HIDE DEF s, f
  <2>2. /\ topics \in Seq(Filters) /\ Len(topics) \in Nat
        /\ subscribers[f] \in Seq(SessionIds) /\ Len(subscribers[f]) \in Nat
    BY <2>1 DEF RegistryInv, TypeOK
  <2>3. /\ Len(Append(topics, f)) = Len(topics) + 1
        /\ Len(Append(subscribers[f], s)) = Len(subscribers[f]) + 1
    BY <2>1, <2>2, AppendProperties
  <2>4. Len(topics') <= MAX_TOPICS
    BY <1>2, <2>2, <2>3 DEF Subscribe, SubscribeResult, WithinLimits
  <2>5. Len(add_subscriber(f, s)) <= MAX_SUBSCRIBERS_PER_TOPIC
    <3>1. f \notin Range(topics) => Len(subscribers[f]) = 0
      BY <2>1, EmptySeq DEF RegistryInv, RegistriesConsistent
    <3> QED BY <1>2, <2>1, <2>2, <2>3, <3>1
            DEF SubscribeResult, add_subscriber, WithinLimits
  <2>6. subscribers' = [subscribers EXCEPT ![f] = add_subscriber(f, s)]
    BY <1>2 DEF Subscribe
  <2> QED BY <2>1, <2>4, <2>5, <2>6 DEF RegistryInv, TypeOK, WithinLimits
<1> QED BY <1>1, <1>2 DEF HandleSubscribe

(* No step of processing takes a vector over its capacity.                 *)
LEMMA LimitsProcess ==
    ASSUME RegistryInv, WithinLimits, Process
    PROVE  WithinLimits'
<1> USE LimitsAssumption
<1>1. Len(sessions') <= MAX_SESSIONS
  BY ProcessFrame DEF WithinLimits
<1>2. /\ Len(topics') <= MAX_TOPICS
      /\ \A g \in Filters : Len(subscribers'[g]) <= MAX_SUBSCRIBERS_PER_TOPIC
  BY ProcessFrame, SubscribeLimits DEF WithinLimits
<1>3. \A x \in SessionIds : Len(rx'[x]) <= QUEUE_SIZE
  <2>1. ASSUME NEW type, Taking(type) PROVE \A x \in SessionIds : Len(rx'[x]) <= QUEUE_SIZE
    <3>1. Head(todo) \in SessionIds
      BY <2>1, TakingType DEF RegistryInv
    <3>2. rx[Head(todo)] \in Seq(ClientPackets) /\ rx[Head(todo)] # <<>>
      BY <2>1, <3>1 DEF Taking, RegistryInv, TypeOK
    <3>3. /\ Len(Tail(rx[Head(todo)])) = Len(rx[Head(todo)]) - 1
          /\ Len(rx[Head(todo)]) \in Nat
      BY <3>2, TailElements, LenProperties
    <3>4. Len(Tail(rx[Head(todo)])) <= QUEUE_SIZE
      BY <3>1, <3>3 DEF WithinLimits
    <3> QED BY <2>1, <3>4 DEF Taking, dequeue_front, RegistryInv, TypeOK, WithinLimits
  <2> QED BY <2>1, ReceiveQueueStep DEF WithinLimits
<1>4. \A x \in SessionIds : Len(tx'[x]) <= QUEUE_SIZE
  BY TransmitQueueStep, QueueTxPacketLimits DEF WithinLimits
<1>5. Len(found') <= MAX_SUBSCRIBERS_PER_TOPIC
  <2>1. CASE CollectSubscriber
    <3> DEFINE x == subscribers[topics[entry]][idx]
    <3>1. x \in SessionIds
      <4>1. topics[entry] \in Filters
        BY <2>1 DEF CollectSubscriber, AtSubscriber, RegistryInv, TypeOK, ControlTypeOK
      <4>2. subscribers[topics[entry]] \in Seq(SessionIds)
        BY <4>1 DEF RegistryInv, TypeOK
      <4>3. idx \in Nat \ {0} /\ idx <= Len(subscribers[topics[entry]])
        BY <2>1 DEF CollectSubscriber, AtSubscriber, RegistryInv, TypeOK, ControlTypeOK
      <4> QED BY <4>2, <4>3
    <3>2. found' = PushFound(x)
      BY <2>1 DEF CollectSubscriber
    <3> HIDE DEF x
    <3>3. found \in Seq(SessionIds) /\ Len(found) \in Nat
      BY DEF RegistryInv, TypeOK, ControlTypeOK
    <3>4. Len(Append(found, x)) = Len(found) + 1
      BY <3>1, <3>3, AppendProperties
    <3> QED BY <3>2, <3>3, <3>4 DEF PushFound, WithinLimits
  <2>2. CASE ~CollectSubscriber
    <3>1. found' = found \/ found' = <<>>
      BY <2>2 DEF Process, Done, NextSession, HandleConnect, HandlePingreq,
                  HandleDisconnect, HandleIgnored, HandleSubscribe, HandlePublish,
                  CollectNextEntry, CollectDone, Deliver, PublishDone, QueueTxFails,
                  Return, Continue
    <3> QED BY <3>1, EmptySeq DEF WithinLimits
  <2> QED BY <2>1, <2>2
<1> QED BY <1>1, <1>2, <1>3, <1>4, <1>5 DEF WithinLimits

(* The capacities are respected by every step.                             *)
LEMMA LimitsNext == RegistryInv /\ WithinLimits /\ [Next]_vars => WithinLimits'
<1> SUFFICES ASSUME RegistryInv, WithinLimits, [Next]_vars PROVE WithinLimits'
  OBVIOUS
<1>1. CASE Begin
  BY <1>1 DEF Begin, WithinLimits, registry, topic_registry
<1>2. CASE UNCHANGED vars
  BY <1>2 DEF vars, registry, topic_registry, control, WithinLimits
<1> QED BY <1>1, <1>2, LimitsCall, LimitsReceive, LimitsProcess DEF Next

(* No queue, registry or list of subscribers ever exceeds the capacity its *)
(* const parameter gives it, in whatever order the broker is called.       *)
LEMMA CapacitiesRespected == Spec => []WithinLimits
<1>1. Init => WithinLimits
  BY LimitsAssumption, EmptySeq DEF Init, WithinLimits
<1> QED BY <1>1, RegistryCorrect, LimitsNext, PTL DEF Spec

-----------------------------------------------------------------------------
(* Ok means drained. *)

(* While sessions are processed, a receive queue that is not empty belongs *)
(* to a session that is still to be processed; an absent session has none. *)
ReceiveQueuesDrain ==
    /\ \A s \in SessionIds : s \notin Registered => rx[s] = <<>>
    /\ pc # "idle" => \A s \in Registered : s \in Range(todo) \/ rx[s] = <<>>

(* Calls and received packets: none comes while sessions are processed.    *)
LEMMA DrainCall ==
    ASSUME RegistryInv, ReceiveQueuesDrain, NEW s \in SessionIds,
           Call(s) \/ \E t \in Times : Receive(s, t)
    PROVE  ReceiveQueuesDrain'
<1> USE DEF RegistryInv, ReceiveQueuesDrain
<1>1. CASE \E ka \in KeepAlives, t \in Times : RegisterNewSession(s, ka, t)
  <2>1. Registered' = Registered \cup {s}
    BY <1>1, AppendElement DEF RegisterNewSession, TypeOK, Registered
  <2> QED BY <1>1, <2>1 DEF RegisterNewSession, control, TypeOK
<1>2. CASE RemoveSession(s)
  <2>1. Registered' = Registered \ {s}
    BY <1>2, RemoveKeepsRegistries
  <2> QED BY <1>2, <2>1 DEF RemoveSession, control, TypeOK
<1>3. CASE MarkSessionDisconnected(s) \/ DequeuePacketToSendToClient(s)
  BY <1>3 DEF MarkSessionDisconnected, DequeuePacketToSendToClient, registry, control,
              Registered
<1>4. ASSUME NEW t \in Times, Receive(s, t)
      PROVE  ReceiveQueuesDrain'
  <2>1. PICK p : QueuePacketReceivedFromClient(s, p, t)
    BY <1>4 DEF Receive
  <2> QED BY <2>1 DEF QueuePacketReceivedFromClient, control, Registered, TypeOK
<1> QED BY <1>1, <1>2, <1>3, <1>4 DEF Call

(* A step of processing leaves a session behind only when its queue is     *)
(* empty, and only takes packets off queues.                               *)
LEMMA DrainProcess ==
    ASSUME RegistryInv, ReceiveQueuesDrain, Process
    PROVE  ReceiveQueuesDrain'
<1> USE DEF RegistryInv
<1>1. Registered' = Registered
  BY ProcessFrame DEF Registered
<1>2. \A s \in SessionIds : rx[s] = <<>> => rx'[s] = <<>>
  <2>1. ASSUME NEW type, Taking(type), NEW s \in SessionIds, rx[s] = <<>>
        PROVE  rx'[s] = <<>>
    BY <2>1 DEF Taking, TypeOK
  <2> QED BY <2>1, ReceiveQueueStep
<1>3. ASSUME pc' # "idle", NEW s \in Registered, rx'[s] # <<>>
      PROVE  s \in Range(todo')
  <2>1. pc # "idle"
    BY DEF Process, Done, NextSession, HandleConnect, HandlePingreq, HandleDisconnect,
           HandleIgnored, HandleSubscribe, HandlePublish, CollectSubscriber,
           CollectNextEntry, CollectDone, Deliver, PublishDone, Taking
  <2>2. s \in SessionIds
    BY DEF TypeOK, Registered, Range
  <2>3. s \in Range(todo)
    BY <1>2, <1>3, <2>1, <2>2 DEF ReceiveQueuesDrain
  <2>4. CASE NextSession
    <3>1. todo \in Seq(SessionIds) /\ todo # <<>> /\ rx[Head(todo)] = <<>> /\ UNCHANGED rx
      BY <2>4 DEF NextSession, TypeOK, ControlTypeOK
    <3>2. s # Head(todo) /\ todo' = Tail(todo)
      BY <1>3, <2>4, <3>1 DEF NextSession, Return
    <3>3. PICK k \in 1..Len(todo) : todo[k] = s
      BY <2>3, <3>1 DEF Range
    <3>4. k # 1 /\ k - 1 \in 1..Len(Tail(todo)) /\ Tail(todo)[k - 1] = s
      BY <3>1, <3>2, <3>3, HeadTailProperties
    <3>5. Tail(todo) \in Seq(SessionIds)
      BY <3>1, HeadTailProperties
    <3> QED BY <3>2, <3>4, <3>5 DEF Range
  <2>5. CASE ~NextSession
    <3>1. todo' = todo
      BY <1>3, <2>5
         DEF Process, Done, HandleConnect, HandlePingreq, HandleDisconnect,
             HandleIgnored, HandleSubscribe, HandlePublish, CollectSubscriber,
             CollectNextEntry, CollectDone, Deliver, PublishDone, QueueTxFails, Return,
             Continue
    <3> QED BY <2>3, <3>1
  <2> QED BY <2>4, <2>5
<1> QED BY <1>1, <1>2, <1>3 DEF ReceiveQueuesDrain

(* Every step preserves it.                                                *)
LEMMA DrainNext == RegistryInv /\ ReceiveQueuesDrain /\ [Next]_vars => ReceiveQueuesDrain'
<1> SUFFICES ASSUME RegistryInv, ReceiveQueuesDrain, [Next]_vars PROVE ReceiveQueuesDrain'
  OBVIOUS
<1>1. CASE Begin
  BY <1>1 DEF Begin, ReceiveQueuesDrain, Registered, registry
<1>2. CASE UNCHANGED vars
  BY <1>2 DEF vars, registry, control, ReceiveQueuesDrain, Registered
<1> QED BY <1>1, <1>2, DrainCall, DrainProcess DEF Next

(* Between two calls of process_all_session_packets nothing is half done.  *)
LEMMA CallKeepsControl ==
    ASSUME NEW s \in SessionIds, Call(s) \/ \E t \in Times : Receive(s, t)
    PROVE  pc = "idle" /\ UNCHANGED control
<1>1. CASE Call(s)
  BY <1>1 DEF Call, RegisterNewSession, RemoveSession, MarkSessionDisconnected,
              DequeuePacketToSendToClient
<1>2. CASE \E t \in Times : Receive(s, t)
  BY <1>2 DEF Receive, QueuePacketReceivedFromClient
<1> QED BY <1>1, <1>2

(* process_all_session_packets returns Ok only from its last step, when no *)
(* session is left; every early return returns an error.                   *)
LEMMA OkFromDone ==
    ASSUME RegistryInv, [Next]_vars, pc # "idle", pc' = "idle", result' = "Ok"
    PROVE  Done
<1>1. Process
  BY CallKeepsControl DEF Next, Begin, vars, control
<1>2. ASSUME NEW s, QueueTxFails(s) PROVE FALSE
  BY <1>2 DEF QueueTxFails, Return
<1>3. ~Continue
  BY DEF Continue
<1>4. ~NextSession
  BY DEF NextSession, Return
<1>5. ~(CollectSubscriber \/ CollectNextEntry \/ CollectDone \/ HandlePublish)
  BY DEF CollectSubscriber, CollectNextEntry, CollectDone, HandlePublish
<1>6. ~(HandleConnect \/ HandlePingreq \/ HandleDisconnect \/ HandleIgnored)
  BY <1>2, <1>3 DEF HandleConnect, HandlePingreq, HandleDisconnect, HandleIgnored
<1>7. ~HandleSubscribe
  BY <1>2, <1>3 DEF HandleSubscribe, Return
<1>8. ~(Deliver \/ PublishDone)
  BY <1>2, <1>3 DEF Deliver, PublishDone
<1> QED BY <1>1, <1>4, <1>5, <1>6, <1>7, <1>8 DEF Process

(* When process_all_session_packets returns Ok, every receive queue is     *)
(* empty, however many sessions and packets there were.                    *)
THEOREM OkDrainsEveryQueue == Spec => OkMeansDrained
<1>1. Init => ReceiveQueuesDrain
  BY DEF Init, ReceiveQueuesDrain
<1>2. ASSUME RegistryInv, ReceiveQueuesDrain, [Next]_vars
      PROVE  [pc # "idle" /\ pc' = "idle" /\ result' = "Ok" =>
                \A s \in SessionIds : rx'[s] = <<>>]_vars
  <2> SUFFICES ASSUME pc # "idle", pc' = "idle", result' = "Ok", NEW s \in SessionIds
               PROVE  rx'[s] = <<>>
    OBVIOUS
  <2>1. Done
    BY <1>2, OkFromDone
  <2>2. UNCHANGED rx /\ todo = <<>>
    BY <2>1 DEF Done
  <2>3. Range(todo) = {}
    BY <2>2 DEF Range
  <2> QED BY <1>2, <2>2, <2>3 DEF ReceiveQueuesDrain
<1> QED BY <1>1, <1>2, RegistryCorrect, DrainNext, PTL DEF Spec, OkMeansDrained

-----------------------------------------------------------------------------
(* get_subscribers finds every subscriber once. *)

(* Has the loop of get_subscribers been at subscriber k of entry e?        *)
Visited(e, k) == e < entry \/ (e = entry /\ k < idx)

(* The subscribers the loop has been at, of the entries that match.        *)
CollectedSoFar ==
    {s \in SessionIds : \E e \in DOMAIN topics :
        /\ TopicMatches(cur.topic, topics[e])
        /\ \E k \in DOMAIN subscribers[topics[e]] :
             Visited(e, k) /\ subscribers[topics[e]][k] = s}

(* With room for every session the list misses none of them: as long as    *)
(* the loop runs none it has been at, and then none at all.                *)
FoundIsComplete ==
    /\ IsInjective(found)
    /\ MAX_SESSIONS <= MAX_SUBSCRIBERS_PER_TOPIC =>
         /\ pc = "collect" => Range(found) = CollectedSoFar
         /\ pc = "deliver" => Range(found) = MatchingSubscribers(cur.topic)

(* The subscriber at the loop position is a registered session.            *)
LEMMA AtSubscriberRegistered ==
    ASSUME RegistryInv, CollectSubscriber
    PROVE  /\ entry \in DOMAIN topics /\ topics[entry] \in Filters
           /\ idx \in DOMAIN subscribers[topics[entry]]
           /\ subscribers[topics[entry]][idx] \in SessionIds
           /\ subscribers[topics[entry]][idx] \in Registered
<1>1. entry \in DOMAIN topics /\ topics[entry] \in Filters
  BY DEF CollectSubscriber, AtSubscriber, RegistryInv, TypeOK, ControlTypeOK
<1>2. subscribers[topics[entry]] \in Seq(SessionIds)
  BY <1>1 DEF RegistryInv, TypeOK
<1>3. idx \in Nat \ {0} /\ idx <= Len(subscribers[topics[entry]])
  BY DEF CollectSubscriber, AtSubscriber, RegistryInv, TypeOK, ControlTypeOK
<1>4. /\ idx \in DOMAIN subscribers[topics[entry]]
      /\ subscribers[topics[entry]][idx] \in SessionIds
  BY <1>2, <1>3
<1>5. subscribers[topics[entry]][idx] \in Subscribers(topics[entry])
  BY <1>4 DEF Subscribers, Range
<1> QED BY <1>1, <1>4, <1>5 DEF RegistryInv, SubscribersAreSessions

(* A list that misses a registered session has room for it.                *)
LEMMA RoomForSession ==
    ASSUME RegistryInv, WithinLimits, MAX_SESSIONS <= MAX_SUBSCRIBERS_PER_TOPIC,
           IsInjective(found), NEW s \in Registered, s \notin Range(found)
    PROVE  Len(found) < MAX_SUBSCRIBERS_PER_TOPIC
<1>1. /\ found \in Seq(SessionIds) /\ sessions \in Seq(SessionIds)
      /\ IsInjective(sessions) /\ Range(found) \subseteq Range(sessions)
      /\ s \in Range(sessions)
  BY DEF RegistryInv, TypeOK, ControlTypeOK, NothingStale, RegistriesConsistent, Registered
<1>2. Len(found) < Len(sessions)
  BY <1>1, InjectiveShorter
<1>3. Len(found) \in Nat /\ Len(sessions) \in Nat /\ Len(sessions) <= MAX_SESSIONS
  BY <1>1, LenProperties DEF WithinLimits
<1> QED BY <1>2, <1>3, LimitsAssumption

(* One iteration of the inner loop.                                        *)
LEMMA FoundCollectSubscriber ==
    ASSUME RegistryInv, WithinLimits, FoundIsComplete, CollectSubscriber
    PROVE  FoundIsComplete'
<1> DEFINE x == subscribers[topics[entry]][idx]
<1>1. /\ entry \in DOMAIN topics /\ topics[entry] \in Filters
      /\ idx \in DOMAIN subscribers[topics[entry]] /\ x \in SessionIds /\ x \in Registered
  BY AtSubscriberRegistered
<1>2. /\ pc = "collect" /\ pc' = "collect" /\ found' = PushFound(x) /\ idx' = idx + 1
      /\ TopicMatches(cur.topic, topics[entry])
      /\ UNCHANGED <<topics, subscribers, cur, entry>>
  BY DEF CollectSubscriber, AtSubscriber, topic_registry
<1>3. CollectedSoFar' = CollectedSoFar \cup {x}
  <2>0. idx \in Nat /\ topics \in Seq(Filters) /\ subscribers \in [Filters -> Seq(SessionIds)]
    BY DEF RegistryInv, TypeOK, ControlTypeOK
  <2>1. \A e \in DOMAIN topics : \A k \in DOMAIN subscribers[topics[e]] :
           Visited(e, k)' <=> Visited(e, k) \/ (e = entry /\ k = idx)
    <3> SUFFICES ASSUME NEW e \in DOMAIN topics, NEW k \in DOMAIN subscribers[topics[e]]
                 PROVE  Visited(e, k)' <=> Visited(e, k) \/ (e = entry /\ k = idx)
      OBVIOUS
    <3>1. subscribers[topics[e]] \in Seq(SessionIds)
      BY <2>0
    <3>2. k \in Nat
      BY <3>1
    <3>3. k < idx + 1 <=> k < idx \/ k = idx
      BY <2>0, <3>2
    <3> QED BY <1>2, <3>3 DEF Visited
  <2> QED BY <1>1, <1>2, <2>1 DEF CollectedSoFar
<1> HIDE DEF x
<1>4. found \in Seq(SessionIds) /\ IsInjective(found)
  BY DEF RegistryInv, TypeOK, ControlTypeOK, FoundIsComplete
<1>5. IsInjective(found')
  BY <1>1, <1>2, <1>4, AppendElement DEF PushFound
<1>6. ASSUME MAX_SESSIONS <= MAX_SUBSCRIBERS_PER_TOPIC
      PROVE  Range(found') = Range(found) \cup {x}
  <2>1. CASE x \in Range(found)
    BY <1>2, <2>1 DEF PushFound
  <2>2. CASE x \notin Range(found)
    <3>1. Len(found) < MAX_SUBSCRIBERS_PER_TOPIC /\ Len(found) \in Nat
      BY <1>1, <1>4, <1>6, <2>2, RoomForSession
    <3>2. found' = Append(found, x)
      BY <1>2, <2>2, <3>1, LimitsAssumption DEF PushFound
    <3> QED BY <1>1, <1>4, <3>2, AppendElement
  <2> QED BY <2>1, <2>2
<1> QED BY <1>2, <1>3, <1>5, <1>6 DEF FoundIsComplete

(* On to the next entry: nothing of this one is left over.                 *)
LEMMA FoundCollectNextEntry ==
    ASSUME RegistryInv, FoundIsComplete, CollectNextEntry
    PROVE  FoundIsComplete'
<1>1. /\ pc = "collect" /\ pc' = "collect" /\ UNCHANGED <<topics, subscribers, cur, found>>
      /\ entry' = entry + 1 /\ idx' = 1 /\ ~AtSubscriber /\ entry <= Len(topics)
  BY DEF CollectNextEntry, topic_registry
<1>2. /\ idx \in Nat /\ entry \in Nat
      /\ topics \in Seq(Filters) /\ subscribers \in [Filters -> Seq(SessionIds)]
  BY DEF RegistryInv, TypeOK, ControlTypeOK
<1>3. ASSUME NEW e \in DOMAIN topics, TopicMatches(cur.topic, topics[e]),
             NEW k \in DOMAIN subscribers[topics[e]]
      PROVE  Visited(e, k)' <=> Visited(e, k)
  <2>1. subscribers[topics[e]] \in Seq(SessionIds) /\ e \in Nat
    BY <1>2
  <2>2. k \in 1..Len(subscribers[topics[e]])
    BY <2>1
  <2>3. e = entry => k < idx
    BY <1>1, <1>2, <1>3, <2>1, <2>2 DEF AtSubscriber
  <2> QED BY <1>1, <1>2, <2>1, <2>2, <2>3 DEF Visited
<1>4. CollectedSoFar' = CollectedSoFar
  BY <1>1, <1>3 DEF CollectedSoFar
<1> QED BY <1>1, <1>4 DEF FoundIsComplete

(* After the last entry the list holds all matching subscribers: a filter  *)
(* with subscribers has an entry.                                          *)
LEMMA FoundCollectDone ==
    ASSUME RegistryInv, FoundIsComplete, CollectDone
    PROVE  FoundIsComplete'
<1>1. /\ pc = "collect" /\ pc' = "deliver" /\ UNCHANGED <<topics, subscribers, cur, found>>
      /\ entry > Len(topics)
  BY DEF CollectDone, topic_registry
<1>2. /\ entry \in Nat /\ topics \in Seq(Filters)
      /\ subscribers \in [Filters -> Seq(SessionIds)]
  BY DEF RegistryInv, TypeOK, ControlTypeOK
<1>3. \A e \in DOMAIN topics : e < entry
  BY <1>1, <1>2
<1>4. CollectedSoFar \subseteq MatchingSubscribers(cur.topic)
  <2> SUFFICES ASSUME NEW s \in CollectedSoFar PROVE s \in MatchingSubscribers(cur.topic)
    OBVIOUS
  <2>1. PICK e \in DOMAIN topics :
           /\ TopicMatches(cur.topic, topics[e])
           /\ \E k \in DOMAIN subscribers[topics[e]] : subscribers[topics[e]][k] = s
    BY DEF CollectedSoFar
  <2>2. topics[e] \in Filters /\ s \in Subscribers(topics[e]) /\ s \in SessionIds
    BY <1>2, <2>1 DEF Subscribers, Range, CollectedSoFar
  <2> QED BY <2>1, <2>2 DEF MatchingSubscribers
<1>5. MatchingSubscribers(cur.topic) \subseteq CollectedSoFar
  <2> SUFFICES ASSUME NEW s \in MatchingSubscribers(cur.topic) PROVE s \in CollectedSoFar
    OBVIOUS
  <2>1. PICK f \in Filters : TopicMatches(cur.topic, f) /\ s \in Subscribers(f)
    BY DEF MatchingSubscribers
  <2>2. subscribers[f] # <<>>
    BY <2>1 DEF Subscribers, Range
  <2>3. PICK e \in DOMAIN topics : topics[e] = f
    BY <2>2 DEF RegistryInv, RegistriesConsistent, Range
  <2>4. PICK k \in DOMAIN subscribers[f] : subscribers[f][k] = s
    BY <2>1 DEF Subscribers, Range
  <2> QED BY <1>3, <2>1, <2>3, <2>4 DEF CollectedSoFar, Visited, MatchingSubscribers
<1>6. UNCHANGED MatchingSubscribers(cur.topic)
  BY <1>1 DEF MatchingSubscribers, Subscribers
<1> QED BY <1>1, <1>4, <1>5, <1>6 DEF FoundIsComplete

(* Every step of processing preserves it.                                  *)
LEMMA FoundProcess ==
    ASSUME RegistryInv, WithinLimits, FoundIsComplete, Process
    PROVE  FoundIsComplete'
<1>0. IsInjective(<<>>) /\ Range(<<>>) = {}
  BY DEF IsInjective, Range
<1>1. CASE CollectSubscriber
  BY <1>1, FoundCollectSubscriber
<1>2. CASE CollectNextEntry
  BY <1>2, FoundCollectNextEntry
<1>3. CASE CollectDone
  BY <1>3, FoundCollectDone
<1>4. CASE HandlePublish
  <2>1. /\ pc' = "collect" /\ found' = <<>> /\ entry' = 1 /\ idx' = 1
        /\ UNCHANGED <<topics, subscribers>>
    BY <1>4 DEF HandlePublish, topic_registry
  <2>2. /\ topics \in Seq(Filters) /\ subscribers \in [Filters -> Seq(SessionIds)]
    BY DEF RegistryInv, TypeOK
  <2>3. ASSUME NEW e \in DOMAIN topics, NEW k \in DOMAIN subscribers[topics[e]]
        PROVE  ~Visited(e, k)'
    <3>1. e \in Nat \ {0} /\ subscribers[topics[e]] \in Seq(SessionIds)
      BY <2>2
    <3>2. k \in Nat \ {0}
      BY <3>1
    <3> QED BY <2>1, <3>1, <3>2 DEF Visited
  <2>4. CollectedSoFar' = {}
    BY <2>1, <2>3 DEF CollectedSoFar
  <2> QED BY <1>0, <2>1, <2>4 DEF FoundIsComplete
<1>5. CASE Deliver /\ pc' = "deliver"
  <2>1. UNCHANGED <<topics, subscribers, pc, cur, found>>
    BY <1>5 DEF Deliver, topic_registry, QueueTxFails, Return
  <2>2. UNCHANGED MatchingSubscribers(cur.topic)
    BY <2>1 DEF MatchingSubscribers, Subscribers
  <2> QED BY <1>5, <2>1, <2>2 DEF FoundIsComplete
<1>6. CASE pc' \in {"idle", "next"}
  <2>1. found' = <<>>
    BY <1>6, TypeProcess DEF RegistryInv, TypeOK, ControlTypeOK
  <2> QED BY <1>0, <1>6, <2>1 DEF FoundIsComplete
<1>7. ~(CollectSubscriber \/ CollectNextEntry \/ CollectDone \/ HandlePublish \/ Deliver)
        => pc' \in {"idle", "next"}
  BY DEF Process, Done, NextSession, HandleConnect, HandlePingreq, HandleDisconnect,
         HandleIgnored, HandleSubscribe, PublishDone, QueueTxFails, Return, Continue
<1>8. Deliver => pc' \in {"deliver", "idle"}
  BY DEF Deliver, QueueTxFails, Return
<1> QED BY <1>1, <1>2, <1>3, <1>4, <1>5, <1>6, <1>7, <1>8

(* Every step preserves it.                                                *)
LEMMA FoundNext ==
    RegistryInv /\ WithinLimits /\ FoundIsComplete /\ [Next]_vars => FoundIsComplete'
<1> SUFFICES ASSUME RegistryInv, WithinLimits, FoundIsComplete, [Next]_vars
             PROVE  FoundIsComplete'
  OBVIOUS
<1>1. ASSUME NEW s \in SessionIds, Call(s) \/ \E t \in Times : Receive(s, t)
      PROVE  FoundIsComplete'
  BY <1>1, CallKeepsControl DEF FoundIsComplete, control
<1>2. CASE Begin
  BY <1>2 DEF Begin, FoundIsComplete
<1>3. CASE UNCHANGED vars
  BY <1>3 DEF vars, topic_registry, control, FoundIsComplete, CollectedSoFar,
              MatchingSubscribers, Subscribers, Visited
<1> QED BY <1>1, <1>2, <1>3, FoundProcess DEF Next

(* The list of subscribers is complete throughout.                         *)
LEMMA FoundCorrect == Spec => []FoundIsComplete
<1>1. Init => FoundIsComplete
  BY DEF Init, FoundIsComplete, IsInjective
<1> QED BY <1>1, RegistryCorrect, CapacitiesRespected, FoundNext, PTL DEF Spec

(* Where an entry has room for all sessions, get_subscribers returns every *)
(* session with a matching filter, and each of them once.                  *)
THEOREM EverySubscriberFound == Spec => []NoSubscriberDropped
<1>1. FoundIsComplete => NoSubscriberDropped
  BY DEF FoundIsComplete, NoSubscriberDropped
<1> QED BY <1>1, FoundCorrect, PTL

-----------------------------------------------------------------------------
(* A PUBACK means delivery. *)

(* A message in a receive queue was sent by the client of that queue, and  *)
(* the message in handle_publish by the client that is being processed.    *)
PublisherKnown ==
    /\ \A s \in SessionIds : \A i \in DOMAIN rx[s] :
         rx[s][i].type = "publish" => rx[s][i].from = s
    /\ pc \in {"collect", "deliver"} => cur.from = Head(todo)

(* The subscribers the delivery loop has been at have the message queued.  *)
DeliveredSoFar ==
    pc = "deliver" => \A j \in DOMAIN found : j < idx =>
        \E i \in DOMAIN tx[found[j]] : tx[found[j]][i] = cur

(* What taking a packet off a receive queue leaves of it.                  *)
LEMMA TakingEffect ==
    ASSUME TypeOK, NEW type, Taking(type)
    PROVE  /\ Head(todo) \in SessionIds
           /\ 1 \in DOMAIN rx[Head(todo)] /\ Head(rx[Head(todo)]) = rx[Head(todo)][1]
           /\ \A s \in SessionIds : \A i \in DOMAIN rx'[s] :
                \/ s # Head(todo) /\ i \in DOMAIN rx[s] /\ rx'[s][i] = rx[s][i]
                \/ s = Head(todo) /\ i \in Nat \ {0}
                   /\ i + 1 \in DOMAIN rx[s] /\ rx'[s][i] = rx[s][i + 1]
<1> DEFINE h == Head(todo)
<1>1. h \in SessionIds
  BY TakingType
<1>2. rx[h] \in Seq(ClientPackets) /\ rx[h] # <<>>
  BY <1>1 DEF TypeOK, Taking
<1>3. /\ Tail(rx[h]) \in Seq(ClientPackets) /\ Len(Tail(rx[h])) = Len(rx[h]) - 1
      /\ \A i \in 1..Len(Tail(rx[h])) : Tail(rx[h])[i] = rx[h][i + 1]
  BY <1>2, HeadTailProperties
<1>4. 1 \in DOMAIN rx[h] /\ Head(rx[h]) = rx[h][1]
  BY <1>2, EmptySeq
<1>5. rx' = [rx EXCEPT ![h] = Tail(rx[h])]
  BY DEF Taking, dequeue_front
<1>6. \A i \in DOMAIN Tail(rx[h]) : i \in Nat \ {0} /\ i + 1 \in DOMAIN rx[h]
                                   /\ Tail(rx[h])[i] = rx[h][i + 1]
  BY <1>2, <1>3
<1>7. \A s \in SessionIds : rx'[s] = IF s = h THEN Tail(rx[h]) ELSE rx[s]
  BY <1>5 DEF TypeOK
<1> HIDE DEF h
<1> QED BY <1>1, <1>4, <1>6, <1>7 DEF h

(* What queueing a received packet adds to the receive queues.             *)
LEMMA ReceiveEffect ==
    ASSUME TypeOK, NEW s \in SessionIds, NEW t \in Times, Receive(s, t)
    PROVE  \E p \in ClientPackets :
             /\ p.type = "publish" => p.from = s /\ p.seq = published[s] + 1
             /\ \A x \in SessionIds :
                  published'[x] = IF x = s /\ p.type = "publish" THEN published[s] + 1
                                  ELSE published[x]
             /\ \A x \in SessionIds : \A i \in DOMAIN rx'[x] :
                  \/ i \in DOMAIN rx[x] /\ rx'[x][i] = rx[x][i]
                  \/ /\ x = s /\ rx'[x][i] = p
                     /\ i = Len(rx[x]) + 1
             /\ UNCHANGED <<tx, control>>
<1>1. PICK p \in ClientPackets : QueuePacketReceivedFromClient(s, p, t)
  BY ReceivedPacket
<1>2. p.type = "publish" => p.from = s /\ p.seq = published[s] + 1
  BY <1>1 DEF QueuePacketReceivedFromClient, Sendable
<1>3. \A x \in SessionIds :
        published'[x] = IF x = s /\ p.type = "publish" THEN published[s] + 1
                        ELSE published[x]
  BY <1>1, <1>2 DEF QueuePacketReceivedFromClient, TypeOK
<1>4. \A x \in SessionIds : \A i \in DOMAIN rx'[x] :
         \/ i \in DOMAIN rx[x] /\ rx'[x][i] = rx[x][i]
         \/ /\ x = s /\ rx'[x][i] = p
            /\ i = Len(rx[x]) + 1
  <2>1. CASE UNCHANGED rx
    BY <2>1
  <2>2. CASE rx' = [rx EXCEPT ![s] = Append(rx[s], p)]
    <3> DEFINE q == Append(rx[s], p)
    <3>1. rx[s] \in Seq(ClientPackets)
      BY DEF TypeOK
    <3>2. /\ q \in Seq(ClientPackets) /\ Len(q) = Len(rx[s]) + 1 /\ q[Len(rx[s]) + 1] = p
          /\ \A i \in 1..Len(rx[s]) : q[i] = rx[s][i]
      BY <3>1, AppendProperties
    <3> HIDE DEF q
    <3>3. ASSUME NEW i \in DOMAIN q
          PROVE  \/ i \in DOMAIN rx[s] /\ q[i] = rx[s][i]
                 \/ q[i] = p /\ i = Len(rx[s]) + 1
      BY <3>1, <3>2
    <3>4. \A x \in SessionIds : rx'[x] = IF x = s THEN q ELSE rx[x]
      BY <2>2 DEF q, TypeOK
    <3> QED BY <3>3, <3>4
  <2> QED BY <1>1, <2>1, <2>2 DEF QueuePacketReceivedFromClient
<1>5. UNCHANGED <<tx, control>>
  BY <1>1 DEF QueuePacketReceivedFromClient
<1> QED BY <1>2, <1>3, <1>4, <1>5

(* A successful queue_tx_packet adds the packet at the end of one queue.   *)
LEMMA QueueTxEffect ==
    ASSUME TypeOK, NEW s \in SessionIds, NEW p \in ServerPackets, QueueTxPacket(s, p)
    PROVE  /\ \A x \in SessionIds : x # s => tx'[x] = tx[x]
           /\ tx[s] \in Seq(ServerPackets) /\ tx'[s] \in Seq(ServerPackets)
           /\ Len(tx'[s]) = Len(tx[s]) + 1 /\ tx'[s][Len(tx[s]) + 1] = p
           /\ \A i \in 1..Len(tx[s]) : tx'[s][i] = tx[s][i]
<1>1. tx[s] \in Seq(ServerPackets)
  BY DEF TypeOK
<1>2. tx'[s] = Append(tx[s], p) /\ \A x \in SessionIds : x # s => tx'[x] = tx[x]
  BY DEF QueueTxPacket, TypeOK
<1> QED BY <1>1, <1>2, AppendProperties

(* Every step keeps track of who published.                                *)
LEMMA PublisherNext == RegistryInv /\ PublisherKnown /\ [Next]_vars => PublisherKnown'
<1> SUFFICES ASSUME RegistryInv, PublisherKnown, [Next]_vars PROVE PublisherKnown'
  OBVIOUS
<1> USE DEF RegistryInv
<1>1. ASSUME NEW s \in SessionIds, Call(s) PROVE PublisherKnown'
  <2>1. UNCHANGED rx \/ rx' = [rx EXCEPT ![s] = <<>>]
    BY <1>1 DEF Call, RegisterNewSession, RemoveSession, MarkSessionDisconnected,
                DequeuePacketToSendToClient
  <2>2. \A x \in SessionIds : rx'[x] = rx[x] \/ rx'[x] = <<>>
    BY <2>1 DEF TypeOK
  <2> QED BY <1>1, <2>2, CallKeepsControl DEF PublisherKnown, control
<1>2. ASSUME NEW s \in SessionIds, NEW t \in Times, Receive(s, t) PROVE PublisherKnown'
  BY <1>2, ReceiveEffect, CallKeepsControl DEF PublisherKnown, control
<1>3. CASE Process
  <2>1. \A s \in SessionIds : \A i \in DOMAIN rx'[s] :
           rx'[s][i].type = "publish" => rx'[s][i].from = s
    <3>1. ASSUME NEW type, Taking(type), NEW s \in SessionIds, NEW i \in DOMAIN rx'[s]
          PROVE  \E k \in DOMAIN rx[s] : rx'[s][i] = rx[s][k]
      BY <3>1, TakingEffect
    <3> QED BY <1>3, <3>1, ReceiveQueueStep DEF PublisherKnown
  <2>2. CASE HandlePublish
    <3>1. /\ Head(todo) \in SessionIds /\ 1 \in DOMAIN rx[Head(todo)]
          /\ Head(rx[Head(todo)]) = rx[Head(todo)][1] /\ rx[Head(todo)][1].type = "publish"
      BY <2>2, TakingEffect, TakingType DEF HandlePublish
    <3>2. UNCHANGED todo /\ cur' = rx[Head(todo)][1]
      BY <2>2, <3>1 DEF HandlePublish
    <3> QED BY <2>1, <3>1, <3>2 DEF PublisherKnown
  <2>3. CASE ~HandlePublish
    <3>1. pc' \in {"collect", "deliver"} =>
             pc \in {"collect", "deliver"} /\ UNCHANGED <<cur, todo>>
      BY <1>3, <2>3
         DEF Process, Done, NextSession, HandleConnect, HandlePingreq, HandleDisconnect,
             HandleIgnored, HandleSubscribe, CollectSubscriber, CollectNextEntry,
             CollectDone, Deliver, PublishDone, QueueTxFails, Return, Continue
    <3> QED BY <2>1, <3>1 DEF PublisherKnown
  <2> QED BY <2>2, <2>3
<1>4. CASE Begin \/ UNCHANGED vars
  BY <1>4 DEF Begin, vars, control, PublisherKnown
<1> QED BY <1>1, <1>2, <1>3, <1>4 DEF Next

(* Every step preserves it: a message, once queued, is not taken back in   *)
(* the loop.                                                               *)
LEMMA DeliveredNext == RegistryInv /\ DeliveredSoFar /\ [Next]_vars => DeliveredSoFar'
<1> SUFFICES ASSUME RegistryInv, DeliveredSoFar, [Next]_vars, pc' = "deliver"
             PROVE  \A j \in DOMAIN found' : j < idx' =>
                       \E i \in DOMAIN tx'[found'[j]] : tx'[found'[j]][i] = cur'
  BY DEF DeliveredSoFar
<1> USE DEF RegistryInv
<1>1. CASE CollectDone
  <2>1. found \in Seq(SessionIds) /\ idx' = 1 /\ UNCHANGED found
    BY <1>1 DEF CollectDone, TypeOK, ControlTypeOK
  <2> QED BY <2>1
<1>2. CASE Deliver
  <2>1. /\ pc = "deliver" /\ found[idx] \in SessionIds /\ cur \in ServerPackets
        /\ QueueTxPacket(found[idx], cur)
        /\ idx' = idx + 1 /\ UNCHANGED <<cur, found>>
    <3>1. found[idx] \in SessionIds /\ cur \in ServerPackets
      BY <1>2 DEF Deliver, TypeOK, ControlTypeOK, ServerPackets
    <3> QED BY <1>2, <3>1 DEF Deliver, QueueTxFails, Return
  <2> DEFINE d == found[idx]
  <2>2. /\ \A x \in SessionIds : x # d => tx'[x] = tx[x]
        /\ tx[d] \in Seq(ServerPackets) /\ tx'[d] \in Seq(ServerPackets)
        /\ Len(tx'[d]) = Len(tx[d]) + 1 /\ tx'[d][Len(tx[d]) + 1] = cur
        /\ \A i \in 1..Len(tx[d]) : tx'[d][i] = tx[d][i]
    BY <2>1, QueueTxEffect
  <2>3. \E i \in DOMAIN tx'[d] : tx'[d][i] = cur
    <3>1. Len(tx[d]) + 1 \in DOMAIN tx'[d]
      BY <2>2
    <3> QED BY <2>2, <3>1
  <2>4. ASSUME NEW x \in SessionIds, NEW i \in DOMAIN tx[x]
        PROVE  i \in DOMAIN tx'[x] /\ tx'[x][i] = tx[x][i]
    BY <2>2, <2>4
  <2>5. ASSUME NEW j \in DOMAIN found, j < idx + 1
        PROVE  \E i \in DOMAIN tx'[found[j]] : tx'[found[j]][i] = cur
    <3>1. found \in Seq(SessionIds) /\ idx \in Nat
      BY DEF TypeOK, ControlTypeOK
    <3>2. found[j] \in SessionIds /\ (j < idx \/ j = idx)
      BY <2>5, <3>1
    <3>3. CASE j < idx
      <4>1. PICK i \in DOMAIN tx[found[j]] : tx[found[j]][i] = cur
        BY <2>1, <3>3 DEF DeliveredSoFar
      <4> QED BY <2>4, <3>2, <4>1
    <3> QED BY <2>3, <3>2, <3>3
  <2> QED BY <2>1, <2>5
<1>3. CASE UNCHANGED vars
  BY <1>3 DEF vars, control, DeliveredSoFar
<1>4. ~(Process /\ ~CollectDone /\ ~Deliver)
  BY DEF Process, Done, NextSession, HandleConnect, HandlePingreq, HandleDisconnect,
         HandleIgnored, HandleSubscribe, HandlePublish, CollectSubscriber,
         CollectNextEntry, PublishDone, QueueTxFails, Return, Continue
<1>5. ~Begin /\ \A s \in SessionIds : ~(Call(s) \/ \E t \in Times : Receive(s, t))
  BY CallKeepsControl DEF Begin, control
<1> QED BY <1>1, <1>2, <1>3, <1>4, <1>5 DEF Next

(* A PUBACK appears in a queue only when handle_publish is through its     *)
(* delivery loop, for the client whose message it is.                      *)
LEMMA PubackStep ==
    ASSUME RegistryInv, PublisherKnown, [Next]_vars, NEW a \in SessionIds,
           Len(tx'[a]) > Len(tx[a]), Last(tx'[a]).type = "puback"
    PROVE  /\ pc = "deliver" /\ idx > Len(found)
           /\ cur.from = a /\ Last(tx'[a]).seq = cur.seq
<1> USE DEF RegistryInv
<1>0. tx[a] \in Seq(ServerPackets) /\ Len(tx[a]) \in Nat
  BY DEF TypeOK
<1>1. ~\E s \in SessionIds : Call(s)
  <2> SUFFICES ASSUME NEW s \in SessionIds, Call(s) PROVE FALSE
    OBVIOUS
  <2>1. UNCHANGED tx \/ tx' = [tx EXCEPT ![s] = <<>>]
        \/ (tx[s] # <<>> /\ tx' = [tx EXCEPT ![s] = Tail(tx[s])])
    BY DEF Call, RegisterNewSession, RemoveSession, MarkSessionDisconnected,
           DequeuePacketToSendToClient, dequeue_front
  <2>2. tx'[a] = tx[a] \/ tx'[a] = <<>> \/ (tx[a] # <<>> /\ tx'[a] = Tail(tx[a]))
    BY <2>1 DEF TypeOK
  <2>3. tx[a] # <<>> => Len(Tail(tx[a])) = Len(tx[a]) - 1
    BY <1>0, HeadTailProperties
  <2>4. Len(<<>>) = 0
    OBVIOUS
  <2>5. Len(tx'[a]) <= Len(tx[a])
    <3>1. CASE tx'[a] = tx[a]
      BY <1>0, <3>1
    <3>2. CASE tx'[a] = <<>>
      BY <1>0, <2>4, <3>2
    <3>3. CASE tx[a] # <<>> /\ tx'[a] = Tail(tx[a])
      BY <1>0, <2>3, <3>3
    <3> QED BY <2>2, <3>1, <3>2, <3>3
  <2> QED BY <1>0, <2>5, TypeCall, LenProperties DEF TypeOK
<1>2. ~(Begin \/ UNCHANGED vars \/ \E s \in SessionIds, t \in Times : Receive(s, t))
  <2>1. Begin \/ UNCHANGED vars => UNCHANGED tx
    BY DEF Begin, vars
  <2>2. ASSUME NEW s \in SessionIds, NEW t \in Times, Receive(s, t) PROVE UNCHANGED tx
    BY <2>2, ReceivedPacket DEF QueuePacketReceivedFromClient
  <2> QED BY <1>0, <2>1, <2>2
<1>3. Process
  BY <1>1, <1>2 DEF Next
<1>4. ASSUME NEW s \in SessionIds, NEW p \in ServerPackets, QueueTxPacket(s, p)
      PROVE  s = a /\ p = Last(tx'[a])
  <2>1. s = a
    BY <1>0, <1>4, QueueTxEffect
  <2>2. Last(tx'[a]) = tx'[a][Len(tx[a]) + 1] /\ tx'[a][Len(tx[a]) + 1] = p
    BY <1>4, <2>1, QueueTxEffect DEF Last
  <2> QED BY <2>1, <2>2
<1>5. ~UNCHANGED tx
  BY <1>0
<1>6. ASSUME Deliver, found[idx] \in SessionIds, cur \in ServerPackets,
             QueueTxPacket(found[idx], cur)
      PROVE  FALSE
  BY <1>4, <1>6 DEF Deliver, TypeOK, ControlTypeOK, Publishes
<1>7. ASSUME NEW type \in {"connack", "pingresp", "suback"}, Head(todo) \in SessionIds,
             [type |-> type] \in ServerPackets, QueueTxPacket(Head(todo), [type |-> type])
      PROVE  FALSE
  BY <1>4, <1>7
<1>8. /\ PublishDone /\ Head(todo) \in SessionIds
      /\ [type |-> "puback", seq |-> cur.seq] \in ServerPackets
      /\ QueueTxPacket(Head(todo), [type |-> "puback", seq |-> cur.seq])
  BY <1>3, <1>5, <1>6, <1>7, TransmitQueueStep
<1>9. Head(todo) = a /\ Last(tx'[a]) = [type |-> "puback", seq |-> cur.seq]
  BY <1>4, <1>8
<1> QED BY <1>8, <1>9 DEF PublishDone, PublisherKnown

(* Where an entry has room for all sessions, a PUBACK is queued only when  *)
(* every session subscribed to the topic has the message in its queue.     *)
THEOREM AcknowledgedIsDelivered ==
    ASSUME MAX_SESSIONS <= MAX_SUBSCRIBERS_PER_TOPIC
    PROVE  Spec => PubackMeansDelivered
<1>1. Init => PublisherKnown /\ DeliveredSoFar
  BY DEF Init, PublisherKnown, DeliveredSoFar
<1>2. ASSUME RegistryInv, FoundIsComplete, PublisherKnown, DeliveredSoFar, [Next]_vars,
             NEW a \in SessionIds, tx'[a] # <<>>, Len(tx'[a]) > Len(tx[a]),
             Last(tx'[a]).type = "puback", NEW s \in MatchingSubscribers(cur.topic)
      PROVE  \E i \in DOMAIN tx[s] : /\ tx[s][i].type = "publish"
                                     /\ tx[s][i].from = a
                                     /\ tx[s][i].seq = Last(tx'[a]).seq
  <2>1. pc = "deliver" /\ idx > Len(found) /\ cur.from = a /\ Last(tx'[a]).seq = cur.seq
    BY <1>2, PubackStep
  <2>2. s \in Range(found)
    BY <1>2, <2>1 DEF FoundIsComplete
  <2>3. PICK j \in DOMAIN found : found[j] = s
    BY <2>2 DEF Range
  <2>4. j < idx
    BY <1>2, <2>1 DEF RegistryInv, TypeOK, ControlTypeOK
  <2>5. PICK i \in DOMAIN tx[s] : tx[s][i] = cur
    BY <1>2, <2>1, <2>3, <2>4 DEF DeliveredSoFar
  <2>6. cur.type = "publish"
    BY <1>2, <2>1 DEF RegistryInv, TypeOK, ControlTypeOK, Publishes
  <2> QED BY <2>1, <2>5, <2>6
<1>3. RegistryInv /\ FoundIsComplete /\ PublisherKnown /\ DeliveredSoFar /\ [Next]_vars =>
        [\A a \in SessionIds :
           /\ tx'[a] # <<>> /\ Len(tx'[a]) > Len(tx[a])
           /\ Last(tx'[a]).type = "puback"
           => \A s \in MatchingSubscribers(cur.topic) :
                \E i \in DOMAIN tx[s] : /\ tx[s][i].type = "publish"
                                        /\ tx[s][i].from = a
                                        /\ tx[s][i].seq = Last(tx'[a]).seq]_vars
  BY <1>2
<1> QED BY <1>1, <1>3, RegistryCorrect, FoundCorrect, PublisherNext, DeliveredNext, PTL
        DEF Spec, PubackMeansDelivered

-----------------------------------------------------------------------------
(* Messages keep their order. *)

(* A client's messages wait in the order in which they were sent.          *)
ReceivedInOrder ==
    \A p \in SessionIds : \A i \in DOMAIN rx[p] : rx[p][i].type = "publish" =>
        /\ rx[p][i].seq <= published[p]
        /\ \A j \in DOMAIN rx[p] :
             i < j /\ rx[p][j].type = "publish" => rx[p][i].seq < rx[p][j].seq

(* The message in handle_publish is older than those still waiting.        *)
InHandIsOldest ==
    pc \in {"collect", "deliver"} =>
        /\ cur.seq <= published[cur.from]
        /\ \A i \in DOMAIN rx[cur.from] :
             rx[cur.from][i].type = "publish" => cur.seq < rx[cur.from][i].seq

(* The delivery loop has still to come to s, if it comes to s at all.      *)
StillToDeliver(s) == pc = "collect" \/ \E j \in DOMAIN found : idx <= j /\ found[j] = s

(* A delivered message is older than those of its publisher that wait, and *)
(* than the one in handle_publish unless it is that one; which is in no    *)
(* queue the loop has still to come to.                                    *)
QueuedIsOlder ==
    \A s \in SessionIds : \A i \in DOMAIN tx[s] :
        LET m == tx[s][i] IN
        m.type = "publish" =>
          /\ m.seq <= published[m.from]
          /\ \A k \in DOMAIN rx[m.from] :
               rx[m.from][k].type = "publish" => m.seq < rx[m.from][k].seq
          /\ pc \in {"collect", "deliver"} /\ cur.from = m.from =>
               /\ m.seq <= cur.seq
               /\ StillToDeliver(s) => m.seq < cur.seq

(* The inductive invariant for the order of messages.                      *)
OrderInv == ReceivedInOrder /\ InHandIsOldest /\ QueuedIsOlder /\ InOrderOnce

(* The queue r is q, or q without its front, or empty.                     *)
LeftOf(r, q) ==
    \E d \in {0, 1} : \A i \in DOMAIN r :
        i \in Nat /\ i + d \in DOMAIN q /\ r[i] = q[i + d]

(* A queue is left of itself, its tail and the empty queue of every queue. *)
LEMMA LeftOfQueue ==
    ASSUME NEW S, NEW q \in Seq(S)
    PROVE  /\ LeftOf(q, q) /\ LeftOf(<<>>, q)
           /\ q # <<>> => LeftOf(Tail(q), q)
<1>1. LeftOf(q, q) /\ LeftOf(<<>>, q)
  <2>1. \A i \in DOMAIN q : i \in Nat /\ i + 0 \in DOMAIN q /\ q[i] = q[i + 0]
    BY LenProperties
  <2>2. \A i \in DOMAIN <<>> : i \in Nat /\ i + 0 \in DOMAIN q /\ <<>>[i] = q[i + 0]
    OBVIOUS
  <2> QED BY <2>1, <2>2 DEF LeftOf
<1>2. ASSUME q # <<>> PROVE LeftOf(Tail(q), q)
  <2>1. /\ Tail(q) \in Seq(S) /\ Len(Tail(q)) = Len(q) - 1
        /\ \A i \in 1..Len(Tail(q)) : Tail(q)[i] = q[i + 1]
    BY <1>2, HeadTailProperties
  <2>2. \A i \in DOMAIN Tail(q) : i \in Nat /\ i + 1 \in DOMAIN q /\ Tail(q)[i] = q[i + 1]
    BY <2>1
  <2> QED BY <2>2 DEF LeftOf
<1> QED BY <1>1, <1>2

(* A message in a queue has a number and a publisher.                      *)
LEMMA MessageType ==
    ASSUME NEW m \in ClientPackets \cup ServerPackets, m.type = "publish"
    PROVE  m.seq \in Nat /\ m.from \in SessionIds
  BY DEF ClientPackets, ServerPackets, Publishes

(* Numbers and publishers of all messages in queues.                       *)
LEMMA QueuedMessageType ==
    ASSUME TypeOK
    PROVE  /\ \A p \in SessionIds : \A i \in DOMAIN rx[p] :
                i \in Nat /\ (rx[p][i].type = "publish" => rx[p][i].seq \in Nat)
           /\ \A s \in SessionIds : \A i \in DOMAIN tx[s] :
                i \in Nat /\ (tx[s][i].type = "publish" =>
                                tx[s][i].seq \in Nat /\ tx[s][i].from \in SessionIds)
<1>1. ASSUME NEW p \in SessionIds, NEW i \in DOMAIN rx[p]
      PROVE  i \in Nat /\ rx[p][i] \in ClientPackets
  <2>1. rx[p] \in Seq(ClientPackets)
    BY DEF TypeOK
  <2> QED BY <2>1
<1>2. ASSUME NEW s \in SessionIds, NEW i \in DOMAIN tx[s]
      PROVE  i \in Nat /\ tx[s][i] \in ServerPackets
  <2>1. tx[s] \in Seq(ServerPackets)
    BY DEF TypeOK
  <2> QED BY <2>1
<1> QED BY <1>1, <1>2, MessageType

(* Queues that only lose their front, while no message is in hand or the   *)
(* same one at the same place, stay in order.                              *)
LEMMA OrderWhenShrinking ==
    ASSUME RegistryInv, OrderInv, UNCHANGED published,
           \A x \in SessionIds : LeftOf(rx'[x], rx[x]),
           \A x \in SessionIds : \E d \in {0, 1} : \A i \in DOMAIN tx'[x] :
               tx'[x][i].type = "publish" =>
                 i \in Nat /\ i + d \in DOMAIN tx[x] /\ tx'[x][i] = tx[x][i + d],
           \/ pc' \in {"idle", "next"}
           \/ /\ pc \in {"collect", "deliver"} /\ UNCHANGED cur
              /\ \A s \in SessionIds : StillToDeliver(s)' => StillToDeliver(s)
    PROVE  OrderInv'
<1> USE DEF RegistryInv
<1>0. /\ \A p \in SessionIds : \A i \in DOMAIN rx[p] :
           i \in Nat /\ (rx[p][i].type = "publish" => rx[p][i].seq \in Nat)
      /\ \A s \in SessionIds : \A i \in DOMAIN tx[s] :
           i \in Nat /\ (tx[s][i].type = "publish" =>
                           tx[s][i].seq \in Nat /\ tx[s][i].from \in SessionIds)
  BY QueuedMessageType
<1>1. ReceivedInOrder'
  <2> SUFFICES ASSUME NEW p \in SessionIds, NEW i \in DOMAIN rx'[p],
                      rx'[p][i].type = "publish"
               PROVE  /\ rx'[p][i].seq <= published[p]
                      /\ \A j \in DOMAIN rx'[p] : i < j /\ rx'[p][j].type = "publish" =>
                           rx'[p][i].seq < rx'[p][j].seq
    BY DEF ReceivedInOrder
  <2>1. PICK d \in {0, 1} : \A j \in DOMAIN rx'[p] :
          j \in Nat /\ j + d \in DOMAIN rx[p] /\ rx'[p][j] = rx[p][j + d]
    BY DEF LeftOf
  <2>2. \A j \in DOMAIN rx'[p] : i < j => i + d < j + d
    BY <2>1
  <2> QED BY <2>1, <2>2 DEF OrderInv, ReceivedInOrder
<1>2. InHandIsOldest'
  <2> SUFFICES ASSUME pc' \in {"collect", "deliver"}
               PROVE  /\ cur.seq <= published[cur.from]
                      /\ \A i \in DOMAIN rx'[cur.from] :
                           rx'[cur.from][i].type = "publish" =>
                             cur.seq < rx'[cur.from][i].seq
    BY DEF InHandIsOldest
  <2>1. pc \in {"collect", "deliver"} /\ cur.from \in SessionIds
    BY DEF TypeOK, ControlTypeOK, Publishes
  <2> QED BY <2>1 DEF OrderInv, InHandIsOldest, LeftOf
<1>3. QueuedIsOlder'
  <2> SUFFICES ASSUME NEW s \in SessionIds, NEW i \in DOMAIN tx'[s],
                      tx'[s][i].type = "publish"
               PROVE  LET m == tx'[s][i] IN
                      /\ m.seq <= published[m.from]
                      /\ \A k \in DOMAIN rx'[m.from] :
                           rx'[m.from][k].type = "publish" => m.seq < rx'[m.from][k].seq
                      /\ pc' \in {"collect", "deliver"} /\ cur'.from = m.from =>
                           /\ m.seq <= cur'.seq
                           /\ StillToDeliver(s)' => m.seq < cur'.seq
    BY DEF QueuedIsOlder
  <2>1. PICK k \in DOMAIN tx[s] : tx'[s][i] = tx[s][k]
    OBVIOUS
  <2> DEFINE m == tx[s][k]
  <2>2. m.from \in SessionIds /\ m.type = "publish"
    BY <1>0, <2>1
  <2>3. /\ m.seq <= published[m.from]
        /\ \A n \in DOMAIN rx[m.from] :
             rx[m.from][n].type = "publish" => m.seq < rx[m.from][n].seq
        /\ pc \in {"collect", "deliver"} /\ cur.from = m.from =>
             /\ m.seq <= cur.seq
             /\ StillToDeliver(s) => m.seq < cur.seq
    BY <2>2 DEF OrderInv, QueuedIsOlder
  <2>4. \A n \in DOMAIN rx'[m.from] :
           rx'[m.from][n].type = "publish" => m.seq < rx'[m.from][n].seq
    BY <2>2, <2>3 DEF LeftOf
  <2> HIDE DEF m
  <2> QED BY <2>1, <2>3, <2>4 DEF m
<1>4. InOrderOnce'
  <2> SUFFICES ASSUME NEW s \in SessionIds, NEW i \in DOMAIN tx'[s], NEW j \in DOMAIN tx'[s],
                      i < j, tx'[s][i].type = "publish", tx'[s][j].type = "publish",
                      tx'[s][i].from = tx'[s][j].from
               PROVE  tx'[s][i].seq < tx'[s][j].seq
    BY DEF InOrderOnce
  <2>1. PICK d \in {0, 1} : \A k \in DOMAIN tx'[s] : tx'[s][k].type = "publish" =>
          k \in Nat /\ k + d \in DOMAIN tx[s] /\ tx'[s][k] = tx[s][k + d]
    OBVIOUS
  <2>2. i + d < j + d
    BY <2>1
  <2> QED BY <2>1, <2>2 DEF OrderInv, InOrderOnce
<1> QED BY <1>1, <1>2, <1>3, <1>4 DEF OrderInv

(* The calls drop queues or dequeue from their front.                      *)
LEMMA OrderCall ==
    ASSUME RegistryInv, OrderInv, NEW s \in SessionIds, Call(s)
    PROVE  OrderInv'
<1>1. pc' = "idle" /\ UNCHANGED published
  BY CallKeepsControl
     DEF control, Call, RegisterNewSession, RemoveSession, MarkSessionDisconnected,
         DequeuePacketToSendToClient
<1>2. UNCHANGED rx \/ rx' = [rx EXCEPT ![s] = <<>>]
  BY DEF Call, RegisterNewSession, RemoveSession, MarkSessionDisconnected,
         DequeuePacketToSendToClient
<1>3. UNCHANGED tx \/ tx' = [tx EXCEPT ![s] = <<>>]
      \/ (tx[s] # <<>> /\ tx' = [tx EXCEPT ![s] = Tail(tx[s])])
  BY DEF Call, RegisterNewSession, RemoveSession, MarkSessionDisconnected,
         DequeuePacketToSendToClient, dequeue_front
<1>4. \A x \in SessionIds : LeftOf(rx'[x], rx[x])
  <2>1. \A x \in SessionIds : /\ rx[x] \in Seq(ClientPackets)
                              /\ rx'[x] = rx[x] \/ rx'[x] = <<>>
    BY <1>2 DEF RegistryInv, TypeOK
  <2> QED BY <2>1, LeftOfQueue
<1>5. \A x \in SessionIds : LeftOf(tx'[x], tx[x])
  <2>1. \A x \in SessionIds :
          /\ tx[x] \in Seq(ServerPackets)
          /\ tx'[x] = tx[x] \/ tx'[x] = <<>> \/ (tx[x] # <<>> /\ tx'[x] = Tail(tx[x]))
    BY <1>3 DEF RegistryInv, TypeOK
  <2> QED BY <2>1, LeftOfQueue
<1>6. \A x \in SessionIds : \E d \in {0, 1} : \A i \in DOMAIN tx'[x] :
        tx'[x][i].type = "publish" =>
          i \in Nat /\ i + d \in DOMAIN tx[x] /\ tx'[x][i] = tx[x][i + d]
  BY <1>5 DEF LeftOf
<1> QED BY <1>1, <1>4, <1>6, OrderWhenShrinking

(* A client's next message has a number higher than all before it.         *)
LEMMA OrderReceive ==
    ASSUME RegistryInv, OrderInv, NEW s \in SessionIds, NEW t \in Times, Receive(s, t)
    PROVE  OrderInv'
<1> USE DEF RegistryInv
<1>1. PICK p \in ClientPackets :
        /\ p.type = "publish" => p.from = s /\ p.seq = published[s] + 1
        /\ \A x \in SessionIds :
             published'[x] = IF x = s /\ p.type = "publish" THEN published[s] + 1
                             ELSE published[x]
        /\ \A x \in SessionIds : \A i \in DOMAIN rx'[x] :
             \/ i \in DOMAIN rx[x] /\ rx'[x][i] = rx[x][i]
             \/ /\ x = s /\ rx'[x][i] = p
                /\ i = Len(rx[x]) + 1
        /\ UNCHANGED <<tx, control>>
  BY ReceiveEffect
<1>2. pc = "idle" /\ pc' = "idle"
  BY CallKeepsControl DEF control
<1>3. \A x \in SessionIds : published[x] \in Nat
  BY DEF TypeOK
<1>4. /\ \A q \in SessionIds : \A i \in DOMAIN rx[q] :
           i \in Nat /\ (rx[q][i].type = "publish" => rx[q][i].seq \in Nat)
      /\ \A x \in SessionIds : \A i \in DOMAIN tx[x] :
           i \in Nat /\ (tx[x][i].type = "publish" =>
                           tx[x][i].seq \in Nat /\ tx[x][i].from \in SessionIds)
  BY QueuedMessageType
<1>5. ReceivedInOrder'
  <2> SUFFICES ASSUME NEW q \in SessionIds, NEW i \in DOMAIN rx'[q],
                      rx'[q][i].type = "publish"
               PROVE  /\ rx'[q][i].seq <= published'[q]
                      /\ \A j \in DOMAIN rx'[q] : i < j /\ rx'[q][j].type = "publish" =>
                           rx'[q][i].seq < rx'[q][j].seq
    BY DEF ReceivedInOrder
  <2>1. CASE i \in DOMAIN rx[q] /\ rx'[q][i] = rx[q][i]
    <3>1. rx[q][i].seq <= published[q] /\ rx[q][i].seq \in Nat
      BY <1>4, <2>1 DEF OrderInv, ReceivedInOrder
    <3>2. rx'[q][i].seq <= published'[q]
      BY <1>1, <1>3, <2>1, <3>1
    <3>3. ASSUME NEW j \in DOMAIN rx'[q], i < j, rx'[q][j].type = "publish"
          PROVE  rx'[q][i].seq < rx'[q][j].seq
      <4>1. CASE j \in DOMAIN rx[q] /\ rx'[q][j] = rx[q][j]
        BY <2>1, <3>3, <4>1 DEF OrderInv, ReceivedInOrder
      <4>2. CASE q = s /\ rx'[q][j] = p
        BY <1>1, <1>3, <2>1, <3>1, <3>3, <4>2
      <4> QED BY <1>1, <4>1, <4>2
    <3> QED BY <3>2, <3>3
  <2>2. CASE /\ q = s /\ rx'[q][i] = p
             /\ i = Len(rx[q]) + 1
    <3>1. rx'[q][i].seq <= published'[q]
      BY <1>1, <1>3, <2>2
    <3>2. \A j \in DOMAIN rx'[q] : ~(i < j)
      <4>1. rx[q] \in Seq(ClientPackets)
        BY DEF TypeOK
      <4>2. \A j \in DOMAIN rx'[q] : j \in 1..Len(rx[q]) \/ j = i
        BY <1>1, <2>2, <4>1
      <4> QED BY <2>2, <4>1, <4>2
    <3> QED BY <3>1, <3>2
  <2> QED BY <1>1, <2>1, <2>2
<1>6. InHandIsOldest'
  BY <1>2 DEF InHandIsOldest
<1>7. QueuedIsOlder'
  <2> SUFFICES ASSUME NEW x \in SessionIds, NEW i \in DOMAIN tx[x], tx[x][i].type = "publish"
               PROVE  LET m == tx[x][i] IN
                      /\ m.seq <= published'[m.from]
                      /\ \A k \in DOMAIN rx'[m.from] :
                           rx'[m.from][k].type = "publish" => m.seq < rx'[m.from][k].seq
    BY <1>1, <1>2 DEF QueuedIsOlder
  <2> DEFINE m == tx[x][i]
  <2>1. /\ m.from \in SessionIds /\ m.seq \in Nat /\ m.seq <= published[m.from]
        /\ \A k \in DOMAIN rx[m.from] :
             rx[m.from][k].type = "publish" => m.seq < rx[m.from][k].seq
    BY <1>4 DEF OrderInv, QueuedIsOlder
  <2> HIDE DEF m
  <2>2. m.seq <= published'[m.from]
    BY <1>1, <1>3, <2>1
  <2>3. ASSUME NEW k \in DOMAIN rx'[m.from], rx'[m.from][k].type = "publish"
        PROVE  m.seq < rx'[m.from][k].seq
    <3>1. CASE k \in DOMAIN rx[m.from] /\ rx'[m.from][k] = rx[m.from][k]
      BY <2>1, <2>3, <3>1
    <3>2. CASE m.from = s /\ rx'[m.from][k] = p
      BY <1>1, <1>3, <2>1, <2>3, <3>2
    <3> QED BY <1>1, <2>1, <3>1, <3>2
  <2> QED BY <2>2, <2>3 DEF m
<1>8. InOrderOnce'
  BY <1>1 DEF OrderInv, InOrderOnce
<1> QED BY <1>5, <1>6, <1>7, <1>8 DEF OrderInv

(* The messages in transmit queues are the same, but for the one Deliver   *)
(* appends: the other answers are not messages.                            *)
LEMMA MessagesStay ==
    ASSUME RegistryInv, Process,
           ~(Deliver /\ QueueTxPacket(found[idx], cur) /\ found[idx] \in SessionIds),
           NEW x \in SessionIds
    PROVE  \A i \in DOMAIN tx'[x] : tx'[x][i].type = "publish" =>
             i \in Nat /\ i \in DOMAIN tx[x] /\ tx'[x][i] = tx[x][i]
<1> USE DEF RegistryInv
<1>1. CASE UNCHANGED tx
  BY <1>1, QueuedMessageType
<1>2. ASSUME NEW s \in SessionIds, NEW p \in ServerPackets, p.type # "publish",
             QueueTxPacket(s, p), NEW i \in DOMAIN tx'[x], tx'[x][i].type = "publish"
      PROVE  i \in Nat /\ i \in DOMAIN tx[x] /\ tx'[x][i] = tx[x][i]
  <2>1. CASE x # s
    BY <1>2, <2>1, QueueTxEffect, QueuedMessageType
  <2>2. CASE x = s
    <3>1. /\ tx[x] \in Seq(ServerPackets) /\ tx'[x] \in Seq(ServerPackets)
          /\ Len(tx'[x]) = Len(tx[x]) + 1 /\ tx'[x][Len(tx[x]) + 1] = p
          /\ \A k \in 1..Len(tx[x]) : tx'[x][k] = tx[x][k]
      BY <1>2, <2>2, QueueTxEffect
    <3>2. i # Len(tx[x]) + 1
      BY <1>2, <3>1
    <3> QED BY <3>1, <3>2
  <2> QED BY <2>1, <2>2
<1> QED BY <1>1, <1>2, TransmitQueueStep

(* handle_publish takes the oldest message of its publisher in hand.       *)
LEMMA OrderHandlePublish ==
    ASSUME RegistryInv, PublisherKnown, OrderInv, HandlePublish
    PROVE  OrderInv'
<1> USE DEF RegistryInv
<1> DEFINE h == Head(todo)
<1>1. /\ Taking("publish") /\ pc' = "collect" /\ cur' = Head(rx[h])
      /\ UNCHANGED <<tx, published>>
  BY DEF HandlePublish
<1>2. /\ h \in SessionIds /\ 1 \in DOMAIN rx[h] /\ cur' = rx[h][1]
      /\ rx[h][1].type = "publish" /\ rx[h][1].from = h
  BY <1>1, TakingEffect, TakingType DEF PublisherKnown
<1>3. \A s \in SessionIds : \A i \in DOMAIN rx'[s] :
        \/ s # h /\ i \in DOMAIN rx[s] /\ rx'[s][i] = rx[s][i]
        \/ s = h /\ i \in Nat \ {0} /\ i + 1 \in DOMAIN rx[s] /\ rx'[s][i] = rx[s][i + 1]
  BY <1>1, TakingEffect
<1> HIDE DEF h
<1>4. /\ \A p \in SessionIds : \A i \in DOMAIN rx[p] :
           i \in Nat /\ (rx[p][i].type = "publish" => rx[p][i].seq \in Nat)
      /\ \A s \in SessionIds : \A i \in DOMAIN tx[s] :
           i \in Nat /\ (tx[s][i].type = "publish" =>
                           tx[s][i].seq \in Nat /\ tx[s][i].from \in SessionIds)
  BY QueuedMessageType
<1>5. ReceivedInOrder'
  <2> SUFFICES ASSUME NEW p \in SessionIds, NEW i \in DOMAIN rx'[p],
                      rx'[p][i].type = "publish"
               PROVE  /\ rx'[p][i].seq <= published[p]
                      /\ \A j \in DOMAIN rx'[p] : i < j /\ rx'[p][j].type = "publish" =>
                           rx'[p][i].seq < rx'[p][j].seq
    BY <1>1 DEF ReceivedInOrder
  <2>1. CASE p # h
    BY <1>3, <2>1 DEF OrderInv, ReceivedInOrder
  <2>2. CASE p = h
    <3>1. \A j \in DOMAIN rx'[p] : j \in Nat /\ j + 1 \in DOMAIN rx[p]
                                   /\ rx'[p][j] = rx[p][j + 1]
      BY <1>3, <2>2
    <3>2. \A j \in DOMAIN rx'[p] : i < j => i + 1 < j + 1
      BY <3>1
    <3> QED BY <3>1, <3>2 DEF OrderInv, ReceivedInOrder
  <2> QED BY <2>1, <2>2
<1>6. InHandIsOldest'
  <2>1. rx[h][1].seq <= published[h]
    BY <1>2 DEF OrderInv, ReceivedInOrder
  <2>2. ASSUME NEW i \in DOMAIN rx'[h], rx'[h][i].type = "publish"
        PROVE  rx[h][1].seq < rx'[h][i].seq
    <3>1. i \in Nat \ {0} /\ i + 1 \in DOMAIN rx[h] /\ rx'[h][i] = rx[h][i + 1]
      BY <1>2, <1>3
    <3>2. 1 < i + 1
      BY <3>1
    <3> QED BY <1>2, <2>2, <3>1, <3>2 DEF OrderInv, ReceivedInOrder
  <2> QED BY <1>1, <1>2, <2>1, <2>2 DEF InHandIsOldest
<1>7. QueuedIsOlder'
  <2> SUFFICES ASSUME NEW s \in SessionIds, NEW i \in DOMAIN tx[s], tx[s][i].type = "publish"
               PROVE  LET m == tx[s][i] IN
                      /\ m.seq <= published[m.from]
                      /\ \A k \in DOMAIN rx'[m.from] :
                           rx'[m.from][k].type = "publish" => m.seq < rx'[m.from][k].seq
                      /\ cur'.from = m.from => m.seq <= cur'.seq /\ m.seq < cur'.seq
    BY <1>1 DEF QueuedIsOlder
  <2> DEFINE m == tx[s][i]
  <2>1. /\ m.from \in SessionIds /\ m.seq \in Nat /\ m.seq <= published[m.from]
        /\ \A k \in DOMAIN rx[m.from] :
             rx[m.from][k].type = "publish" => m.seq < rx[m.from][k].seq
    BY <1>4 DEF OrderInv, QueuedIsOlder
  <2> HIDE DEF m
  <2>2. \A k \in DOMAIN rx'[m.from] :
           rx'[m.from][k].type = "publish" => m.seq < rx'[m.from][k].seq
    BY <1>3, <2>1
  <2>3. cur'.from = m.from => m.seq < cur'.seq
    BY <1>2, <2>1
  <2>4. cur'.seq \in Nat
    BY <1>2, <1>4
  <2> QED BY <2>1, <2>2, <2>3, <2>4 DEF m
<1>8. InOrderOnce'
  BY <1>1 DEF OrderInv, InOrderOnce
<1> QED BY <1>5, <1>6, <1>7, <1>8 DEF OrderInv

(* The delivery loop appends the message behind older ones, once: the list *)
(* of subscribers has no duplicates.                                       *)
LEMMA OrderDeliver ==
    ASSUME RegistryInv, OrderInv, IsInjective(found), Deliver, found[idx] \in SessionIds,
           QueueTxPacket(found[idx], cur), idx' = idx + 1,
           UNCHANGED <<pc, cur, found, rx, published>>
    PROVE  OrderInv'
<1> USE DEF RegistryInv
<1>0. PICK d \in SessionIds : d = found[idx]
  OBVIOUS
<1>1. pc = "deliver" /\ cur \in Publishes /\ cur \in ServerPackets /\ idx \in DOMAIN found
      /\ idx \in Nat /\ found \in Seq(SessionIds)
  BY DEF Deliver, TypeOK, ControlTypeOK, ServerPackets
<1>2. cur.seq \in Nat /\ cur.from \in SessionIds /\ cur.type = "publish"
  BY <1>1 DEF Publishes
<1>3. /\ \A x \in SessionIds : x # d => tx'[x] = tx[x]
      /\ tx[d] \in Seq(ServerPackets) /\ tx'[d] \in Seq(ServerPackets)
      /\ Len(tx'[d]) = Len(tx[d]) + 1 /\ tx'[d][Len(tx[d]) + 1] = cur
      /\ \A i \in 1..Len(tx[d]) : tx'[d][i] = tx[d][i]
  BY <1>0, <1>1, QueueTxEffect
<1>4. StillToDeliver(d) /\ ~StillToDeliver(d)'
  <2>1. StillToDeliver(d)
    BY <1>0, <1>1 DEF StillToDeliver
  <2>2. ASSUME NEW j \in DOMAIN found, idx + 1 <= j, found[j] = d PROVE FALSE
    <3>1. j = idx
      BY <1>0, <1>1, <2>2 DEF IsInjective
    <3> QED BY <1>1, <2>2, <3>1
  <2>3. ~StillToDeliver(d)'
    BY <1>1, <2>2 DEF StillToDeliver
  <2> QED BY <2>1, <2>3
<1>5. \A s \in SessionIds : StillToDeliver(s)' => StillToDeliver(s)
  <2>1. \A j \in DOMAIN found : idx + 1 <= j => idx <= j
    BY <1>1
  <2> QED BY <1>1, <2>1 DEF StillToDeliver
<1>6. ASSUME NEW s \in SessionIds, NEW i \in DOMAIN tx'[s]
      PROVE  \/ i \in DOMAIN tx[s] /\ tx'[s][i] = tx[s][i]
             \/ s = d /\ i = Len(tx[s]) + 1 /\ tx'[s][i] = cur
  <2>1. CASE s # d
    BY <1>3, <2>1
  <2>2. CASE s = d
    <3>1. i \in 1..(Len(tx[d]) + 1) /\ Len(tx[d]) \in Nat /\ DOMAIN tx[d] = 1..Len(tx[d])
      BY <1>3, <2>2
    <3>2. i \in 1..Len(tx[d]) \/ i = Len(tx[d]) + 1
      BY <3>1
    <3> QED BY <1>3, <2>2, <3>1, <3>2
  <2> QED BY <2>1, <2>2
<1>7. ReceivedInOrder'
  BY DEF OrderInv, ReceivedInOrder
<1>8. InHandIsOldest'
  BY <1>1 DEF OrderInv, InHandIsOldest
<1>9. QueuedIsOlder'
  <2> SUFFICES ASSUME NEW s \in SessionIds, NEW i \in DOMAIN tx'[s],
                      tx'[s][i].type = "publish"
               PROVE  LET m == tx'[s][i] IN
                      /\ m.seq <= published[m.from]
                      /\ \A k \in DOMAIN rx[m.from] :
                           rx[m.from][k].type = "publish" => m.seq < rx[m.from][k].seq
                      /\ cur.from = m.from =>
                           /\ m.seq <= cur.seq
                           /\ StillToDeliver(s)' => m.seq < cur.seq
    BY DEF QueuedIsOlder
  <2>1. CASE i \in DOMAIN tx[s] /\ tx'[s][i] = tx[s][i]
    BY <1>1, <1>5, <2>1 DEF OrderInv, QueuedIsOlder
  <2>2. CASE s = d /\ tx'[s][i] = cur
    BY <1>1, <1>2, <1>4, <2>2 DEF OrderInv, InHandIsOldest
  <2> QED BY <1>6, <2>1, <2>2
<1>10. InOrderOnce'
  <2> SUFFICES ASSUME NEW s \in SessionIds, NEW i \in DOMAIN tx'[s], NEW j \in DOMAIN tx'[s],
                      i < j, tx'[s][i].type = "publish", tx'[s][j].type = "publish",
                      tx'[s][i].from = tx'[s][j].from
               PROVE  tx'[s][i].seq < tx'[s][j].seq
    BY DEF InOrderOnce
  <2>1. CASE j \in DOMAIN tx[s] /\ tx'[s][j] = tx[s][j]
    <3>1. tx[s] \in Seq(ServerPackets)
      BY DEF TypeOK
    <3>2. i \in DOMAIN tx[s] /\ tx'[s][i] = tx[s][i]
      BY <1>6, <2>1, <3>1
    <3> QED BY <2>1, <3>2 DEF OrderInv, InOrderOnce
  <2>2. CASE s = d /\ j = Len(tx[s]) + 1 /\ tx'[s][j] = cur
    <3>1. i \in DOMAIN tx[s] /\ tx'[s][i] = tx[s][i]
      BY <1>3, <1>6, <2>2
    <3> QED BY <1>1, <1>4, <2>2, <3>1 DEF OrderInv, QueuedIsOlder
  <2> QED BY <1>6, <2>1, <2>2
<1> QED BY <1>7, <1>8, <1>9, <1>10 DEF OrderInv

(* Every step of processing keeps the order.                               *)
LEMMA OrderProcess ==
    ASSUME RegistryInv, FoundIsComplete, PublisherKnown, OrderInv, Process
    PROVE  OrderInv'
<1> USE DEF RegistryInv
<1>1. CASE HandlePublish
  BY <1>1, OrderHandlePublish
<1>2. CASE Deliver /\ QueueTxPacket(found[idx], cur) /\ found[idx] \in SessionIds
  <2>1. idx' = idx + 1 /\ UNCHANGED <<pc, cur, found, rx, published>>
    BY <1>2 DEF Deliver, QueueTxPacket, QueueTxFails
  <2> QED BY <1>2, <2>1, OrderDeliver DEF FoundIsComplete
<1>3. CASE /\ ~HandlePublish
           /\ ~(Deliver /\ QueueTxPacket(found[idx], cur) /\ found[idx] \in SessionIds)
  <2>1. \A x \in SessionIds : \E d \in {0, 1} : \A i \in DOMAIN tx'[x] :
          tx'[x][i].type = "publish" =>
            i \in Nat /\ i + d \in DOMAIN tx[x] /\ tx'[x][i] = tx[x][i + d]
    <3>1. \A i \in Nat : i + 0 = i
      OBVIOUS
    <3>2. ASSUME NEW x \in SessionIds
          PROVE  \A i \in DOMAIN tx'[x] : tx'[x][i].type = "publish" =>
                   i \in Nat /\ i + 0 \in DOMAIN tx[x] /\ tx'[x][i] = tx[x][i + 0]
      BY <1>3, <3>1, MessagesStay
    <3> QED BY <3>2
  <2>2. \A x \in SessionIds : LeftOf(rx'[x], rx[x])
    <3> SUFFICES ASSUME NEW x \in SessionIds PROVE LeftOf(rx'[x], rx[x])
      OBVIOUS
    <3>1. rx[x] \in Seq(ClientPackets)
      BY DEF TypeOK
    <3>2. rx'[x] = rx[x] \/ (rx[x] # <<>> /\ rx'[x] = Tail(rx[x]))
      <4>1. ASSUME NEW type, Taking(type)
            PROVE  rx'[x] = rx[x] \/ (rx[x] # <<>> /\ rx'[x] = Tail(rx[x]))
        BY <4>1 DEF Taking, dequeue_front, TypeOK
      <4> QED BY <4>1, ReceiveQueueStep
    <3> QED BY <3>1, <3>2, LeftOfQueue
  <2>3. UNCHANGED published
    BY DEF Process, Done, NextSession, HandleConnect, HandlePingreq, HandleDisconnect,
           HandleIgnored, HandleSubscribe, HandlePublish, CollectSubscriber,
           CollectNextEntry, CollectDone, Deliver, PublishDone
  <2>4. CASE CollectSubscriber \/ CollectNextEntry \/ CollectDone
    <3>1. pc = "collect" /\ UNCHANGED cur
      BY <2>4 DEF CollectSubscriber, CollectNextEntry, CollectDone
    <3>2. \A s \in SessionIds : StillToDeliver(s)
      BY <3>1 DEF StillToDeliver
    <3> QED BY <2>1, <2>2, <2>3, <3>1, <3>2, OrderWhenShrinking
  <2>5. CASE ~(CollectSubscriber \/ CollectNextEntry \/ CollectDone)
    <3>1. ~Deliver \/ pc' = "idle"
      <4>1. Deliver => found[idx] \in SessionIds
        BY DEF Deliver, TypeOK, ControlTypeOK
      <4> QED BY <1>3, <4>1 DEF Deliver, QueueTxFails, Return
    <3>2. pc' \in {"idle", "next"}
      BY <1>3, <2>5, <3>1
         DEF Process, Done, NextSession, HandleConnect, HandlePingreq, HandleDisconnect,
             HandleIgnored, HandleSubscribe, PublishDone, QueueTxFails, Return, Continue
    <3> QED BY <2>1, <2>2, <2>3, <3>2, OrderWhenShrinking
  <2> QED BY <2>4, <2>5
<1> QED BY <1>1, <1>2, <1>3

(* Every step keeps the order.                                             *)
LEMMA OrderNext ==
    RegistryInv /\ FoundIsComplete /\ PublisherKnown /\ OrderInv /\ [Next]_vars => OrderInv'
<1> SUFFICES ASSUME RegistryInv, FoundIsComplete, PublisherKnown, OrderInv, [Next]_vars
             PROVE  OrderInv'
  OBVIOUS
<1> USE DEF OrderInv, ReceivedInOrder, InHandIsOldest, QueuedIsOlder, InOrderOnce,
            StillToDeliver
<1>1. CASE Begin
  <2>1. pc' = "next" /\ UNCHANGED <<rx, tx, published>>
    BY <1>1 DEF Begin
  <2> QED BY <2>1
<1>2. CASE UNCHANGED vars
  <2>1. UNCHANGED <<rx, tx, published, pc, cur, found, idx>>
    BY <1>2 DEF vars, control
  <2> QED BY <2>1
<1> HIDE DEF OrderInv
<1> QED BY <1>1, <1>2, OrderCall, OrderReceive, OrderProcess DEF Next

(* The messages of one publisher stand in every transmit queue in the      *)
(* order they were sent, and none of them twice.                           *)
THEOREM MessagesStayInOrder == Spec => []InOrderOnce
<1>1. Init => PublisherKnown /\ OrderInv
  BY DEF Init, PublisherKnown, OrderInv, ReceivedInOrder, InHandIsOldest, QueuedIsOlder,
         InOrderOnce
<1>2. OrderInv => InOrderOnce
  BY DEF OrderInv
<1> QED BY <1>1, <1>2, RegistryCorrect, FoundCorrect, PublisherNext, OrderNext, PTL DEF Spec

-----------------------------------------------------------------------------
(* The refinement. *)

(* Brokers as records, and what their operations leave alone. *)

Brokers ==
    [sessions : Seq(SessionIds), state : [SessionIds -> SessionStates],
     rx : [SessionIds -> Seq(ClientPackets)], tx : [SessionIds -> Seq(ServerPackets)],
     subscribers : Seq(SessionIds), result : Errors \cup {"Ok"}]

(* Those that differ from b in what queue_tx_packet writes. *)
Answering(b) ==
    {c \in Brokers : /\ c.sessions = b.sessions /\ c.state = b.state
                     /\ c.rx = b.rx /\ c.subscribers = b.subscribers}

(* Those with the sessions of b. *)
Serving(b) == {c \in Brokers : c.sessions = b.sessions}

(* queue_tx_packet changes one transmit queue or the result.               *)
LEMMA QueueTxAnswers ==
    ASSUME NEW b, NEW c \in Answering(b), NEW s \in SessionIds, NEW m \in ServerPackets
    PROVE  Atomic!QueueTx(c, s, m) \in Answering(b)
<1>1. c \in Brokers /\ c.tx \in [SessionIds -> Seq(ServerPackets)]
  BY DEF Answering, Brokers
<1>2. Append(c.tx[s], m) \in Seq(ServerPackets)
  BY <1>1, AppendElement
<1>3. CASE c.result # "Ok"
  BY <1>3 DEF Atomic!QueueTx
<1>4. CASE c.result = "Ok" /\ Atomic!QueueResult(c, s, c.tx) = "Ok"
  <2> DEFINE tx2 == [c.tx EXCEPT ![s] = Append(c.tx[s], m)]
  <2>1. tx2 \in [SessionIds -> Seq(ServerPackets)]
    BY <1>1, <1>2
  <2>2. Atomic!QueueTx(c, s, m) = [c EXCEPT !.tx = tx2]
    BY <1>4 DEF Atomic!QueueTx
  <2> HIDE DEF tx2
  <2> QED BY <1>1, <2>1, <2>2 DEF Answering, Brokers
<1>5. CASE c.result = "Ok" /\ Atomic!QueueResult(c, s, c.tx) # "Ok"
  <2>1. Atomic!QueueTx(c, s, m) = [c EXCEPT !.result = Atomic!QueueResult(c, s, c.tx)]
    BY <1>5 DEF Atomic!QueueTx
  <2>2. Atomic!QueueResult(c, s, c.tx) \in Errors \cup {"Ok"}
    BY DEF Atomic!QueueResult, Errors
  <2> QED BY <1>1, <2>1, <2>2 DEF Answering, Brokers
<1> QED BY <1>3, <1>4, <1>5

(* Once a call has failed the rest of the round changes nothing.           *)
LEMMA QueueTxFailed ==
    ASSUME NEW b, b.result # "Ok"
    PROVE  \A s, m : Atomic!QueueTx(b, s, m) = b
  BY DEF Atomic!QueueTx

(* The turns of the loop of handle_publish. *)
DeliverSteps(to, b, p) ==
    /\ to[0] = b
    /\ \A n \in 1..Len(b.subscribers) :
         to[n] = Atomic!QueueTx(to[n - 1], b.subscribers[n], p)
    /\ \A n \in 0..Len(b.subscribers) : to[n] \in Answering(b)
    /\ Atomic!Deliver(b, p) = to[Len(b.subscribers)]

(* The loop of handle_publish over the subscribers.                        *)
LEMMA DeliverRuns ==
    ASSUME NEW b \in Brokers, NEW p \in ServerPackets
    PROVE  \E to : DeliverSteps(to, b, p)
<1> DEFINE V == Answering(b)
           N == Len(b.subscribers)
           F == [x \in V \X (1..N) |-> Atomic!QueueTx(x[1], b.subscribers[x[2]], p)]
           Step(f) == [n \in 0..N |-> IF n = 0 THEN b
                                      ELSE Atomic!QueueTx(f[n - 1], b.subscribers[n], p)]
           to == CHOOSE f : f = Step(f)
<1>1. b.subscribers \in Seq(SessionIds)
  BY DEF Brokers
<1>2. N \in Nat
  BY <1>1, LenProperties
<1>3. ASSUME NEW v \in V, NEW n \in 1..N
      PROVE  Atomic!QueueTx(v, b.subscribers[n], p) \in V
  <2>1. b.subscribers[n] \in SessionIds
    BY <1>1
  <2> QED BY <2>1, QueueTxAnswers
<1>4. Atomic!Deliver(b, p) = to[N]
  BY DEF Atomic!Deliver
<1>5. b \in V
  BY DEF Answering
<1> HIDE DEF V, N
<1>6. PICK k : Iterates(k, V, N, b, F)
  <2>1. F \in [V \X (1..N) -> V]
    BY <1>3
  <2> HIDE DEF F
  <2> QED BY <1>2, <1>5, <2>1, Iteration
<1>7. k \in [0..N -> V] /\ k[0] = b /\ \A n \in 1..N : k[n] = F[<<k[n - 1], n>>]
  BY <1>6 DEF Iterates
<1>8. ASSUME NEW n \in 1..N PROVE k[n] = Atomic!QueueTx(k[n - 1], b.subscribers[n], p)
  <2>1. n - 1 \in 0..N
    BY <1>2
  <2>2. k[n - 1] \in V
    BY <1>7, <2>1
  <2> QED BY <1>7, <2>2
<1>9. k = Step(k)
  <2>1. ASSUME NEW n \in 0..N
        PROVE  k[n] = IF n = 0 THEN b ELSE Atomic!QueueTx(k[n - 1], b.subscribers[n], p)
    <3>1. n # 0 => n \in 1..N
      BY <1>2
    <3> QED BY <1>7, <1>8, <3>1
  <2> QED BY <1>7, <2>1
<1>10. to = Step(to)
  BY <1>9
<1> HIDE DEF to
<1>11. to[0] = b /\ to[0] \in V
  BY <1>2, <1>5, <1>10
<1>12. ASSUME NEW n \in 1..N PROVE to[n] = Atomic!QueueTx(to[n - 1], b.subscribers[n], p)
  <2>1. n \in 0..N /\ n # 0
    BY <1>2
  <2> QED BY <1>10, <2>1
<1> HIDE <1>10
<1>13. \A n \in 1..N : to[n - 1] \in V => to[n] \in V
  BY <1>3, <1>12
<1>14. \A n \in 0..N : to[n] \in V
  BY <1>2, <1>11, <1>13, LoopStays
<1> QED BY <1>4, <1>11, <1>12, <1>14 DEF DeliverSteps, N, V

(* After the loop over the subscribers only queues or the result differ.   *)
LEMMA DeliverAnswers ==
    ASSUME NEW b \in Brokers, NEW p \in ServerPackets
    PROVE  Atomic!Deliver(b, p) \in Answering(b)
<1>1. PICK to : DeliverSteps(to, b, p)
  BY DeliverRuns
<1>2. Len(b.subscribers) \in 0..Len(b.subscribers)
  <2>1. b.subscribers \in Seq(SessionIds)
    BY DEF Brokers
  <2>2. Len(b.subscribers) \in Nat
    BY <2>1, LenProperties
  <2> QED BY <2>2
<1> QED BY <1>1, <1>2 DEF DeliverSteps
-----------------------------------------------------------------------------
(* One packet, one session, all sessions. *)

(* Brokers with the sessions of b in which s has one packet less. *)
Handled(b, s) == {c \in Serving(b) : c.rx = [b.rx EXCEPT ![s] = Tail(@)]}

(* What a client sends as a PUBLISH can be passed on and acknowledged.      *)
LEMMA PublishPackets ==
    ASSUME NEW p \in ClientPackets, p.type = "publish"
    PROVE  /\ p \in Publishes /\ p \in ServerPackets
           /\ [type |-> "puback", seq |-> p.seq] \in ServerPackets
<1>1. p \in Publishes
  BY DEF ClientPackets
<1>2. p.seq \in Nat
  BY <1>1 DEF Publishes
<1> QED BY <1>1, <1>2 DEF ServerPackets

(* Whatever comes of it, one packet is taken off the receive queue, and    *)
(* no other receive queue and no session is touched.                       *)
LEMMA HandlePacketTakes ==
    ASSUME NEW b \in Brokers, NEW s \in SessionIds, b.rx[s] # <<>>
    PROVE  Atomic!HandlePacket(b, s) \in Handled(b, s)
<1> DEFINE V == Handled(b, s)
           p == Head(b.rx[s])
           a == [b EXCEPT !.rx[s] = Tail(@)]
<1>1. b.rx \in [SessionIds -> Seq(ClientPackets)] /\ b.rx[s] \in Seq(ClientPackets)
  BY DEF Brokers
<1>2. p \in ClientPackets /\ Tail(b.rx[s]) \in Seq(ClientPackets)
  BY <1>1, TailElements
<1>3. a \in V /\ a.rx = [b.rx EXCEPT ![s] = Tail(@)]
  <2> DEFINE rx2 == [b.rx EXCEPT ![s] = Tail(@)]
  <2>1. rx2 \in [SessionIds -> Seq(ClientPackets)]
    BY <1>1, <1>2
  <2>2. a = [b EXCEPT !.rx = rx2]
    OBVIOUS
  <2> HIDE DEF rx2
  <2> QED BY <2>1, <2>2 DEF Handled, Serving, Brokers, rx2
<1>4. ASSUME NEW c \in V, NEW m \in ServerPackets PROVE Atomic!QueueTx(c, s, m) \in V
  <2>1. c \in Brokers
    BY DEF Handled, Serving
  <2>2. c \in Answering(c)
    BY <2>1 DEF Answering
  <2>3. Atomic!QueueTx(c, s, m) \in Answering(c)
    BY <2>2, QueueTxAnswers
  <2> QED BY <2>3 DEF Answering, Handled, Serving
<1>5. \A c \in V, v \in SessionStates : [c EXCEPT !.state[s] = v] \in V
  BY DEF Handled, Serving, Brokers
<1>6. ASSUME NEW c \in V PROVE Atomic!Subscribe(c, s) \in V
  <2>1. c \in Brokers /\ c.subscribers \in Seq(SessionIds)
    BY DEF Handled, Serving, Brokers
  <2>2. Append(c.subscribers, s) \in Seq(SessionIds)
    BY <2>1, AppendElement
  <2> QED BY <2>1, <2>2 DEF Atomic!Subscribe, Handled, Serving, Brokers, Errors
<1>7. /\ [type |-> "connack"] \in ServerPackets /\ [type |-> "suback"] \in ServerPackets
      /\ [type |-> "pingresp"] \in ServerPackets
  BY DEF ServerPackets
<1>8. Atomic!HandlePacket(b, s) =
        CASE p.type = "connect" -> Atomic!HandleConnect(a, s)
          [] p.type = "pingreq" -> Atomic!QueueTx(a, s, [type |-> "pingresp"])
          [] p.type = "subscribe" ->
               Atomic!QueueTx(Atomic!Subscribe(a, s), s, [type |-> "suback"])
          [] p.type = "disconnect" -> [a EXCEPT !.state[s] = "Disconnected"]
          [] p.type = "publish" -> Atomic!HandlePublish(a, s, p)
          [] OTHER -> a
  BY DEF Atomic!HandlePacket
<1> HIDE DEF a, p
<1>9. Atomic!HandleConnect(a, s) \in V
  <2>1. [a EXCEPT !.state[s] = "Connected"] \in V
    BY <1>3, <1>5 DEF SessionStates
  <2> QED BY <1>4, <1>7, <2>1 DEF Atomic!HandleConnect
<1>10. [a EXCEPT !.state[s] = "Disconnected"] \in V
  BY <1>3, <1>5 DEF SessionStates
<1>11. p.type = "publish" => Atomic!HandlePublish(a, s, p) \in V
  <2> SUFFICES ASSUME p.type = "publish" PROVE Atomic!HandlePublish(a, s, p) \in V
    OBVIOUS
  <2>1. p \in ServerPackets /\ [type |-> "puback", seq |-> p.seq] \in ServerPackets
    BY <1>2, PublishPackets
  <2>2. a \in Brokers
    BY <1>3 DEF Handled, Serving
  <2>3. Atomic!Deliver(a, p) \in Answering(a)
    BY <2>1, <2>2, DeliverAnswers
  <2>4. Atomic!Deliver(a, p) \in V
    BY <1>3, <2>3 DEF Answering, Handled, Serving
  <2> QED BY <1>4, <2>1, <2>4 DEF Atomic!HandlePublish
<1>12. Atomic!Subscribe(a, s) \in V
  BY <1>3, <1>6
<1> HIDE DEF V
<1>13. /\ Atomic!QueueTx(a, s, [type |-> "pingresp"]) \in V
       /\ Atomic!QueueTx(Atomic!Subscribe(a, s), s, [type |-> "suback"]) \in V
  BY <1>3, <1>4, <1>7, <1>12
<1>14. Atomic!HandlePacket(b, s) \in V
  BY <1>3, <1>8, <1>9, <1>10, <1>11, <1>13
<1> QED BY <1>14 DEF V

(* The while-let loop over one session's receive queue, turn by turn. *)
Turn(a, s) ==
    IF a.result = "Ok" /\ a.rx[s] # <<>> THEN Atomic!HandlePacket(a, s) ELSE a

DrainSteps(after, b, s) ==
    /\ after[0] = b
    /\ \A n \in 1..Len(b.rx[s]) : after[n] = Turn(after[n - 1], s)
    /\ \A n \in 0..Len(b.rx[s]) : after[n] \in Serving(b)
    /\ Atomic!Drain(b, s) = after[Len(b.rx[s])]

(* The while-let loop over one session's receive queue.                    *)
LEMMA DrainRuns ==
    ASSUME NEW b \in Brokers, NEW s \in SessionIds
    PROVE  \E after : DrainSteps(after, b, s)
<1> DEFINE V == Serving(b)
           N == Len(b.rx[s])
           F == [x \in V \X (1..N) |-> Turn(x[1], s)]
           Step(f) == [n \in 0..N |-> IF n = 0 THEN b ELSE Turn(f[n - 1], s)]
           after == CHOOSE f : f = Step(f)
<1>1. N \in Nat
  <2>1. b.rx[s] \in Seq(ClientPackets)
    BY DEF Brokers
  <2> QED BY <2>1, LenProperties
<1>2. ASSUME NEW v \in V PROVE Turn(v, s) \in V
  <2>1. v \in Brokers
    BY DEF Serving
  <2>2. CASE v.result = "Ok" /\ v.rx[s] # <<>>
    <3>1. Atomic!HandlePacket(v, s) \in Handled(v, s)
      BY <2>1, <2>2, HandlePacketTakes
    <3> QED BY <2>2, <3>1 DEF Turn, Handled, Serving
  <2>3. CASE ~(v.result = "Ok" /\ v.rx[s] # <<>>)
    BY <2>3 DEF Turn
  <2> QED BY <2>2, <2>3
<1>3. Atomic!Drain(b, s) = after[N]
  BY DEF Atomic!Drain, Turn
<1>4. b \in V
  BY DEF Serving
<1> HIDE DEF V, N
<1>5. PICK k : Iterates(k, V, N, b, F)
  <2>1. F \in [V \X (1..N) -> V]
    BY <1>2
  <2> HIDE DEF F
  <2> QED BY <1>1, <1>4, <2>1, Iteration
<1>6. k \in [0..N -> V] /\ k[0] = b /\ \A n \in 1..N : k[n] = F[<<k[n - 1], n>>]
  BY <1>5 DEF Iterates
<1>7. ASSUME NEW n \in 1..N PROVE k[n] = Turn(k[n - 1], s)
  <2>1. n - 1 \in 0..N
    BY <1>1
  <2>2. k[n - 1] \in V
    BY <1>6, <2>1
  <2> QED BY <1>6, <2>2
<1>8. k = Step(k)
  <2>1. ASSUME NEW n \in 0..N PROVE k[n] = IF n = 0 THEN b ELSE Turn(k[n - 1], s)
    <3>1. n # 0 => n \in 1..N
      BY <1>1
    <3> QED BY <1>6, <1>7, <3>1
  <2> QED BY <1>6, <2>1
<1>9. after = Step(after)
  BY <1>8
<1> HIDE DEF after
<1>10. after[0] = b
  BY <1>1, <1>9
<1>11. ASSUME NEW n \in 1..N PROVE after[n] = Turn(after[n - 1], s)
  <2>1. n \in 0..N /\ n # 0
    BY <1>1
  <2> QED BY <1>9, <2>1
<1> HIDE <1>9
<1>12. \A n \in 1..N : after[n - 1] \in V => after[n] \in V
  BY <1>2, <1>11
<1>13. \A n \in 0..N : after[n] \in V
  BY <1>1, <1>4, <1>10, <1>12, LoopStays
<1> QED BY <1>3, <1>10, <1>11, <1>13 DEF DrainSteps, N, V

(* Nothing more to do for a session: its queue is empty, or a packet of    *)
(* some session could not be answered.                                     *)
LEMMA DrainStops ==
    ASSUME NEW b \in Brokers, NEW s \in SessionIds, b.result # "Ok" \/ b.rx[s] = <<>>
    PROVE  Atomic!Drain(b, s) = b
<1>1. PICK after : DrainSteps(after, b, s)
  BY DrainRuns
<1> DEFINE N == Len(b.rx[s])
<1>2. N \in Nat
  <2>1. b.rx[s] \in Seq(ClientPackets)
    BY DEF Brokers
  <2> QED BY <2>1, LenProperties
<1>3. Turn(b, s) = b
  BY DEF Turn
<1>4. /\ after[0] = b /\ Atomic!Drain(b, s) = after[N]
      /\ \A n \in 1..N : after[n] = Turn(after[n - 1], s)
  BY <1>1 DEF DrainSteps
<1> DEFINE V == {b}
<1>5. \A n \in 1..N : after[n - 1] \in V => after[n] \in V
  BY <1>3, <1>4
<1>6. after[0] \in V
  BY <1>4
<1> HIDE DEF N, V
<1>7. \A n \in 0..N : after[n] \in V
  BY <1>2, <1>5, <1>6, LoopStays
<1> QED BY <1>2, <1>4, <1>7 DEF V

(* Emptying a queue is handling its first packet and emptying the rest.    *)
LEMMA DrainUnrolled ==
    ASSUME NEW b \in Brokers, NEW s \in SessionIds, b.result = "Ok", b.rx[s] # <<>>,
           NEW c, c = Atomic!HandlePacket(b, s)
    PROVE  Atomic!Drain(b, s) = Atomic!Drain(c, s)
<1> DEFINE N == Len(c.rx[s])
<1>1. c \in Brokers /\ c.rx = [b.rx EXCEPT ![s] = Tail(@)]
  <2>1. c \in Handled(b, s)
    BY HandlePacketTakes
  <2> QED BY <2>1 DEF Handled, Serving
<1>2. N \in Nat /\ Len(b.rx[s]) = N + 1
  <2>1. b.rx \in [SessionIds -> Seq(ClientPackets)] /\ b.rx[s] \in Seq(ClientPackets)
    BY DEF Brokers
  <2>2. Tail(b.rx[s]) \in Seq(ClientPackets) /\ Len(Tail(b.rx[s])) = Len(b.rx[s]) - 1
    BY <2>1, TailElements
  <2>3. c.rx[s] = Tail(b.rx[s])
    BY <1>1, <2>1
  <2>4. Len(b.rx[s]) \in Nat /\ Len(Tail(b.rx[s])) \in Nat
    BY <2>1, <2>2, LenProperties
  <2> QED BY <2>2, <2>3, <2>4
<1>3. PICK f : DrainSteps(f, b, s)
  BY DrainRuns
<1>4. PICK g : DrainSteps(g, c, s)
  BY <1>1, DrainRuns
<1>5. /\ f[0] = b /\ Atomic!Drain(b, s) = f[N + 1]
      /\ \A n \in 1..(N + 1) : f[n] = Turn(f[n - 1], s)
  BY <1>2, <1>3 DEF DrainSteps
<1>6. /\ g[0] = c /\ Atomic!Drain(c, s) = g[N]
      /\ \A n \in 1..N : g[n] = Turn(g[n - 1], s)
  BY <1>4 DEF DrainSteps
<1> HIDE DEF N
<1> DEFINE T == {n \in Nat : n <= N => g[n] = f[n + 1]}
<1>7. 0 \in T
  <2>1. f[1] = Turn(f[0], s)
    BY <1>2, <1>5
  <2>2. f[1] = c
    BY <1>5, <2>1 DEF Turn
  <2> QED BY <1>6, <2>2
<1>8. ASSUME NEW n \in Nat, n \in T PROVE n + 1 \in T
  <2> SUFFICES ASSUME n + 1 <= N PROVE g[n + 1] = f[(n + 1) + 1]
    OBVIOUS
  <2>1. g[n] = f[n + 1]
    BY <1>2, <1>8
  <2>2. n + 1 \in 1..N /\ (n + 1) - 1 = n
    BY <1>2
  <2>3. (n + 1) + 1 \in 1..(N + 1) /\ ((n + 1) + 1) - 1 = n + 1
    BY <1>2
  <2>4. g[n + 1] = Turn(g[n], s)
    BY <1>6, <2>2
  <2>5. f[(n + 1) + 1] = Turn(f[n + 1], s)
    BY <1>5, <2>3
  <2> QED BY <2>1, <2>4, <2>5
<1> HIDE DEF T
<1>9. N \in T
  BY <1>2, <1>7, <1>8, NatSet
<1> QED BY <1>5, <1>6, <1>9 DEF T
-----------------------------------------------------------------------------
(* A round, and where a broker can be in it. *)

(* The brokers between the sessions of a round that starts from b. *)
RoundSteps(after, b) ==
    /\ after[0] = [b EXCEPT !.result = "Ok"]
    /\ \A n \in 1..Len(b.sessions) : after[n] = Atomic!Drain(after[n - 1], b.sessions[n])
    /\ \A n \in 0..Len(b.sessions) : after[n] \in Serving(b)
    /\ Atomic!ProcessAll(b) = after[Len(b.sessions)]

(* process_all_session_packets, over all of the sessions.                  *)
LEMMA RoundRuns ==
    ASSUME NEW b \in Brokers
    PROVE  \E after : RoundSteps(after, b)
<1> DEFINE V == Serving(b)
           N == Len(b.sessions)
           v0 == [b EXCEPT !.result = "Ok"]
           F == [x \in V \X (1..N) |-> Atomic!Drain(x[1], b.sessions[x[2]])]
           Step(f) == [n \in 0..N |-> IF n = 0 THEN v0
                                      ELSE Atomic!Drain(f[n - 1], b.sessions[n])]
           after == CHOOSE f : f = Step(f)
<1>1. b.sessions \in Seq(SessionIds)
  BY DEF Brokers
<1>2. N \in Nat
  BY <1>1, LenProperties
<1>3. ASSUME NEW v \in V, NEW n \in 1..N PROVE Atomic!Drain(v, b.sessions[n]) \in V
  <2> DEFINE s == b.sessions[n]
  <2>1. s \in SessionIds /\ v \in Brokers
    BY <1>1 DEF Serving
  <2> HIDE DEF s
  <2>2. PICK f : DrainSteps(f, v, s)
    BY <2>1, DrainRuns
  <2>3. Len(v.rx[s]) \in 0..Len(v.rx[s])
    <3>1. v.rx[s] \in Seq(ClientPackets)
      BY <2>1 DEF Brokers
    <3>2. Len(v.rx[s]) \in Nat
      BY <3>1, LenProperties
    <3> QED BY <3>2
  <2>4. Atomic!Drain(v, s) \in Serving(v)
    BY <2>2, <2>3 DEF DrainSteps
  <2>5. Atomic!Drain(v, s) \in V
    BY <2>4 DEF Serving
  <2> QED BY <2>5 DEF s
<1>4. Atomic!ProcessAll(b) = after[N]
  BY DEF Atomic!ProcessAll
<1>5. v0 \in V
  BY DEF Serving, Brokers
<1> HIDE DEF V, N, v0
<1>6. PICK k : Iterates(k, V, N, v0, F)
  <2>1. F \in [V \X (1..N) -> V]
    BY <1>3
  <2> HIDE DEF F
  <2> QED BY <1>2, <1>5, <2>1, Iteration
<1>7. k \in [0..N -> V] /\ k[0] = v0 /\ \A n \in 1..N : k[n] = F[<<k[n - 1], n>>]
  BY <1>6 DEF Iterates
<1>8. ASSUME NEW n \in 1..N PROVE k[n] = Atomic!Drain(k[n - 1], b.sessions[n])
  <2>1. n - 1 \in 0..N
    BY <1>2
  <2>2. k[n - 1] \in V
    BY <1>7, <2>1
  <2> QED BY <1>7, <2>2
<1>9. k = Step(k)
  <2>1. ASSUME NEW n \in 0..N
        PROVE  k[n] = IF n = 0 THEN v0 ELSE Atomic!Drain(k[n - 1], b.sessions[n])
    <3>1. n # 0 => n \in 1..N
      BY <1>2
    <3> QED BY <1>7, <1>8, <3>1
  <2> QED BY <1>7, <2>1
<1>10. after = Step(after)
  BY <1>9
<1> HIDE DEF after
<1>11. after[0] = v0
  BY <1>2, <1>10
<1>12. ASSUME NEW n \in 1..N PROVE after[n] = Atomic!Drain(after[n - 1], b.sessions[n])
  <2>1. n \in 0..N /\ n # 0
    BY <1>2
  <2> QED BY <1>10, <2>1
<1> HIDE <1>10
<1>13. \A n \in 1..N : after[n - 1] \in V => after[n] \in V
  BY <1>3, <1>12
<1>14. \A n \in 0..N : after[n] \in V
  BY <1>2, <1>5, <1>11, <1>13, LoopStays
<1> QED BY <1>4, <1>11, <1>12, <1>14 DEF RoundSteps, N, V, v0

AfterSessions(b) == CHOOSE after : RoundSteps(after, b)

(* What a round from b comes to is what it comes to from c on, when n      *)
(* sessions are done with.                                                 *)
Progress(b, c, n) ==
    IF n = Len(b.sessions) THEN Atomic!ProcessAll(b) = c
    ELSE Atomic!Drain(c, b.sessions[n + 1]) = AfterSessions(b)[n + 1]

(* The same in handle_publish, with the i-th subscriber next: a is the     *)
(* broker before the first.                                                *)
Delivering(b, c, n, p, i) ==
    \E a \in Brokers : \E to :
        /\ a.subscribers = c.subscribers /\ DeliverSteps(to, a, p)
        /\ c = to[i - 1]
        /\ Progress(b, Atomic!HandlePublish(a, b.sessions[n + 1], p), n)

(* The chosen function is one.                                             *)
LEMMA AfterSessionsSteps ==
    ASSUME NEW b \in Brokers
    PROVE  RoundSteps(AfterSessions(b), b) /\ Len(b.sessions) \in Nat
<1>1. \E after : RoundSteps(after, b)
  BY RoundRuns
<1>2. b.sessions \in Seq(SessionIds)
  BY DEF Brokers
<1> QED BY <1>1, <1>2, LenProperties DEF AfterSessions

(* A round starts with its first session.                                  *)
LEMMA ProgressStarts ==
    ASSUME NEW b \in Brokers
    PROVE  Progress(b, [b EXCEPT !.result = "Ok"], 0)
<1> DEFINE k == AfterSessions(b)
<1>1. RoundSteps(k, b) /\ Len(b.sessions) \in Nat
  BY AfterSessionsSteps
<1> HIDE DEF k
<1>2. CASE Len(b.sessions) = 0
  BY <1>1, <1>2 DEF Progress, RoundSteps
<1>3. CASE Len(b.sessions) # 0
  <2>1. 1 \in 1..Len(b.sessions) /\ 1 - 1 = 0 /\ 0 + 1 = 1
    BY <1>1, <1>3
  <2>2. k[1] = Atomic!Drain(k[0], b.sessions[1]) /\ k[0] = [b EXCEPT !.result = "Ok"]
    BY <1>1, <2>1 DEF RoundSteps
  <2> QED BY <1>3, <2>1, <2>2 DEF Progress, k
<1> QED BY <1>2, <1>3

(* It goes on with the next one when the queue of the last is empty.       *)
LEMMA ProgressNext ==
    ASSUME NEW b \in Brokers, NEW c \in Brokers, NEW n \in Nat, n < Len(b.sessions),
           Progress(b, c, n), c.rx[b.sessions[n + 1]] = <<>>
    PROVE  Progress(b, c, n + 1)
<1> DEFINE k == AfterSessions(b)
<1>1. RoundSteps(k, b) /\ Len(b.sessions) \in Nat
  BY AfterSessionsSteps
<1>2. b.sessions[n + 1] \in SessionIds
  <2>1. b.sessions \in Seq(SessionIds)
    BY DEF Brokers
  <2>2. n + 1 \in 1..Len(b.sessions)
    BY <1>1
  <2> QED BY <2>1, <2>2
<1>3. Atomic!Drain(c, b.sessions[n + 1]) = c
  BY <1>2, DrainStops
<1>4. n # Len(b.sessions)
  BY <1>1
<1>5. k[n + 1] = c
  BY <1>3, <1>4 DEF Progress
<1> HIDE DEF k
<1>6. CASE n + 1 = Len(b.sessions)
  BY <1>1, <1>5, <1>6 DEF Progress, RoundSteps
<1>7. CASE n + 1 # Len(b.sessions)
  <2>1. (n + 1) + 1 \in 1..Len(b.sessions) /\ ((n + 1) + 1) - 1 = n + 1
    BY <1>1, <1>7
  <2>2. k[(n + 1) + 1] = Atomic!Drain(k[n + 1], b.sessions[(n + 1) + 1])
    BY <1>1, <2>1 DEF RoundSteps
  <2> QED BY <1>5, <1>7, <2>2 DEF Progress, k
<1> QED BY <1>6, <1>7

(* It is over when a packet could not be answered.                         *)
LEMMA ProgressFails ==
    ASSUME NEW b \in Brokers, NEW c \in Brokers, NEW n \in Nat, n < Len(b.sessions),
           Progress(b, c, n), c.result # "Ok"
    PROVE  Atomic!ProcessAll(b) = c
<1> DEFINE k == AfterSessions(b)
           N == Len(b.sessions)
           V == {c}
<1>1. RoundSteps(k, b) /\ N \in Nat
  BY AfterSessionsSteps
<1>2. \A m \in 1..N : b.sessions[m] \in SessionIds
  <2>1. b.sessions \in Seq(SessionIds)
    BY DEF Brokers
  <2> QED BY <2>1
<1>3. \A m \in 1..N : Atomic!Drain(c, b.sessions[m]) = c
  BY <1>2, DrainStops
<1>4. n # N /\ n + 1 \in 1..N /\ n + 1 \in 0..N
  BY <1>1
<1>5. k[n + 1] \in V
  BY <1>3, <1>4 DEF Progress
<1>6. /\ \A m \in 1..N : k[m] = Atomic!Drain(k[m - 1], b.sessions[m])
      /\ Atomic!ProcessAll(b) = k[N]
  BY <1>1 DEF RoundSteps
<1>7. \A m \in 1..N : n + 1 < m /\ k[m - 1] \in V => k[m] \in V
  BY <1>3, <1>6
<1> HIDE DEF k, N, V
<1>8. k[N] \in V
  BY <1>1, <1>4, <1>5, <1>7, LoopRests
<1> QED BY <1>6, <1>8 DEF V

(* Handling a packet is part of the round.                                 *)
LEMMA ProgressTakes ==
    ASSUME NEW b \in Brokers, NEW c \in Brokers, NEW n \in Nat, n < Len(b.sessions),
           Progress(b, c, n), c.result = "Ok", c.rx[b.sessions[n + 1]] # <<>>
    PROVE  Progress(b, Atomic!HandlePacket(c, b.sessions[n + 1]), n)
<1> DEFINE s == b.sessions[n + 1]
<1>1. Len(b.sessions) \in Nat /\ b.sessions \in Seq(SessionIds)
  BY LenProperties DEF Brokers
<1>2. s \in SessionIds
  <2>1. n + 1 \in 1..Len(b.sessions)
    BY <1>1
  <2> QED BY <1>1, <2>1
<1>3. n # Len(b.sessions)
  BY <1>1
<1> HIDE DEF s
<1>4. Atomic!Drain(c, s) = Atomic!Drain(Atomic!HandlePacket(c, s), s)
  BY <1>2, DrainUnrolled DEF s
<1> QED BY <1>3, <1>4 DEF Progress, s

(* The loop over the subscribers starts with the first.                    *)
LEMMA DeliveringStarts ==
    ASSUME NEW b, NEW c \in Brokers, NEW n, NEW p \in ServerPackets,
           Progress(b, Atomic!HandlePublish(c, b.sessions[n + 1], p), n)
    PROVE  Delivering(b, c, n, p, 1)
<1>1. PICK to : DeliverSteps(to, c, p)
  BY DeliverRuns
<1>2. c = to[1 - 1]
  BY <1>1 DEF DeliverSteps
<1> QED BY <1>1, <1>2 DEF Delivering

(* One subscriber more.                                                    *)
LEMMA DeliveringNext ==
    ASSUME NEW b, NEW c \in Brokers, NEW n, NEW p, NEW i \in 1..Len(c.subscribers),
           Delivering(b, c, n, p, i),
           NEW d, d = Atomic!QueueTx(c, c.subscribers[i], p)
    PROVE  Delivering(b, d, n, p, i + 1) /\ d \in Answering(c)
<1>1. PICK a, to :
        /\ a \in Brokers
        /\ a.subscribers = c.subscribers /\ DeliverSteps(to, a, p)
        /\ c = to[i - 1]
        /\ Progress(b, Atomic!HandlePublish(a, b.sessions[n + 1], p), n)
  BY DEF Delivering
<1>2. i \in 1..Len(a.subscribers) /\ i \in 0..Len(a.subscribers) /\ (i + 1) - 1 = i
      /\ i - 1 \in 0..Len(a.subscribers)
  <2>1. Len(c.subscribers) \in Nat
    <3>1. c.subscribers \in Seq(SessionIds)
      BY DEF Brokers
    <3> QED BY <3>1, LenProperties
  <2> QED BY <1>1, <2>1
<1>3. d = to[i]
  BY <1>1, <1>2 DEF DeliverSteps
<1>4. d \in Answering(a) /\ c \in Answering(a)
  BY <1>1, <1>2, <1>3 DEF DeliverSteps
<1>5. d.subscribers = a.subscribers /\ d \in Answering(c)
  BY <1>4 DEF Answering
<1>6. d = to[(i + 1) - 1]
  BY <1>2, <1>3
<1> QED BY <1>1, <1>5, <1>6 DEF Delivering

(* The first subscriber whose queue has no room ends the round.            *)
LEMMA DeliveringFails ==
    ASSUME NEW b \in Brokers, NEW c \in Brokers, NEW n \in Nat, n < Len(b.sessions),
           NEW p, NEW i \in 1..(Len(c.subscribers) + 1),
           Delivering(b, c, n, p, i), c.result # "Ok"
    PROVE  Atomic!ProcessAll(b) = c
<1> DEFINE V == {c}
           N == Len(c.subscribers)
           s == b.sessions[n + 1]
<1>1. PICK a, to :
        /\ a \in Brokers
        /\ a.subscribers = c.subscribers /\ DeliverSteps(to, a, p)
        /\ c = to[i - 1]
        /\ Progress(b, Atomic!HandlePublish(a, s, p), n)
  BY DEF Delivering
<1>2. N \in Nat /\ i - 1 \in 0..N
  <2>1. c.subscribers \in Seq(SessionIds)
    BY DEF Brokers
  <2>2. N \in Nat
    BY <2>1, LenProperties
  <2> QED BY <2>2
<1>3. \A t, m : Atomic!QueueTx(c, t, m) = c
  BY QueueTxFailed
<1>4. /\ \A m \in 1..N : to[m] = Atomic!QueueTx(to[m - 1], a.subscribers[m], p)
      /\ Atomic!Deliver(a, p) = to[N]
  BY <1>1 DEF DeliverSteps
<1>5. \A m \in 1..N : i - 1 < m /\ to[m - 1] \in V => to[m] \in V
  BY <1>3, <1>4
<1>6. to[i - 1] \in V
  BY <1>1
<1> HIDE DEF V, N, s
<1>7. to[N] \in V
  BY <1>2, <1>5, <1>6, LoopRests
<1>8. Atomic!Deliver(a, p) = c
  BY <1>4, <1>7 DEF V
<1>9. Atomic!HandlePublish(a, s, p) = c
  BY <1>3, <1>8 DEF Atomic!HandlePublish
<1> QED BY <1>1, <1>9, ProgressFails

(* After the last subscriber the message is acknowledged above QoS 0.      *)
LEMMA DeliveringEnds ==
    ASSUME NEW b, NEW c \in Brokers, NEW n, NEW p, NEW i,
           i = Len(c.subscribers) + 1, Delivering(b, c, n, p, i)
    PROVE  /\ p.qos = 0 => Progress(b, c, n)
           /\ p.qos # 0 =>
                Progress(b, Atomic!QueueTx(c, b.sessions[n + 1],
                                           [type |-> "puback", seq |-> p.seq]), n)
<1> DEFINE s == b.sessions[n + 1]
<1>1. PICK a, to :
        /\ a \in Brokers
        /\ a.subscribers = c.subscribers /\ DeliverSteps(to, a, p)
        /\ c = to[i - 1]
        /\ Progress(b, Atomic!HandlePublish(a, s, p), n)
  BY DEF Delivering
<1>2. i - 1 = Len(a.subscribers)
  <2>1. c.subscribers \in Seq(SessionIds)
    BY DEF Brokers
  <2>2. Len(c.subscribers) \in Nat
    BY <2>1, LenProperties
  <2> QED BY <1>1, <2>2
<1>3. Atomic!Deliver(a, p) = c
  BY <1>1, <1>2 DEF DeliverSteps
<1> HIDE DEF s
<1>4. Atomic!HandlePublish(a, s, p) =
        IF p.qos = 0 THEN c ELSE Atomic!QueueTx(c, s, [type |-> "puback", seq |-> p.seq])
  BY <1>3 DEF Atomic!HandlePublish
<1> QED BY <1>1, <1>4 DEF s
-----------------------------------------------------------------------------
(* One filter that every topic matches. *)

(* The one filter and its subscribers. *)
TheFilter == CHOOSE f \in Filters : TRUE
TheSubscribers == subscribers[TheFilter]

(* The topic vector has the entry of the filter, or no entry.              *)
LEMMA TopicVector ==
    ASSUME OneTopicForAll, RegistryInv
    PROVE  /\ Filters = {TheFilter} /\ TheSubscribers \in Seq(SessionIds)
           /\ IsInjective(TheSubscribers)
           /\ \/ Len(topics) = 0 /\ TheFilter \notin Range(topics) /\ TheSubscribers = <<>>
              \/ /\ Len(topics) = 1 /\ topics[1] = TheFilter
                 /\ TheFilter \in Range(topics)
<1>1. Filters = {TheFilter}
  BY DEF OneTopicForAll, TheFilter
<1>2. /\ topics \in Seq(Filters) /\ IsInjective(topics) /\ Len(topics) \in Nat
      /\ \A i \in 1..Len(topics) : topics[i] \in Filters
  BY LenProperties DEF RegistryInv, TypeOK, RegistriesConsistent
<1>3. TheSubscribers \in Seq(SessionIds) /\ IsInjective(TheSubscribers)
  BY <1>1 DEF RegistryInv, TypeOK, RegistriesConsistent, TheSubscribers
<1>4. TheFilter \in Range(topics) <=> TheSubscribers # <<>>
  BY <1>1 DEF RegistryInv, RegistriesConsistent, TheSubscribers
<1>5. DOMAIN topics = 1..Len(topics)
  BY <1>2, LenProperties
<1>6. CASE Len(topics) = 0
  <2>1. TheFilter \notin Range(topics)
    BY <1>5, <1>6 DEF Range
  <2> QED BY <1>1, <1>3, <1>4, <1>6, <2>1
<1>7. CASE Len(topics) # 0
  <2>1. 1 \in 1..Len(topics) /\ topics[1] = TheFilter
    BY <1>1, <1>2, <1>7
  <2>2. Len(topics) = 1
    <3> SUFFICES ASSUME Len(topics) # 1 PROVE FALSE
      OBVIOUS
    <3> DEFINE n == Len(topics)
    <3>0. n \in Nat /\ n # 0 /\ n # 1
      BY <1>2, <1>7
    <3> HIDE DEF n
    <3>1. 2 \in 1..n
      BY <3>0
    <3>2. topics[2] = TheFilter
      BY <1>1, <1>2, <3>1 DEF n
    <3> QED BY <1>2, <1>5, <2>1, <3>1, <3>2 DEF IsInjective, n
  <2>3. TheFilter \in Range(topics)
    BY <1>5, <2>1 DEF Range
  <2> QED BY <1>1, <1>3, <2>1, <2>2, <2>3
<1> QED BY <1>6, <1>7

(* A session that is not registered has nothing to be sent. *)
AbsentSendNothing == \A s \in SessionIds : s \notin Registered => tx[s] = <<>>

(* The snapshot is the end of the session vector. *)
TodoIsRest ==
    pc # "idle" =>
        /\ Len(todo) <= Len(sessions)
        /\ \A i \in 1..Len(todo) : todo[i] = sessions[(Len(sessions) - Len(todo)) + i]

(* What get_subscribers has collected is a beginning of the one vector. *)
FoundIsPrefix ==
    /\ pc = "collect" =>
         \/ /\ entry = 1 /\ idx <= Len(TheSubscribers) + 1
            /\ found = SubSeq(TheSubscribers, 1, idx - 1)
         \/ entry > Len(topics) /\ found = TheSubscribers
    /\ pc = "deliver" => found = TheSubscribers /\ idx <= Len(found) + 1

(* A new session starts with empty queues, a removed one leaves none, and  *)
(* only the queues of registered sessions are filled.                      *)
LEMMA AbsentNext ==
    RegistryInv /\ AbsentSendNothing /\ [Next]_vars => AbsentSendNothing'
<1> SUFFICES ASSUME RegistryInv, AbsentSendNothing, [Next]_vars PROVE AbsentSendNothing'
  OBVIOUS
<1> USE DEF RegistryInv, AbsentSendNothing
<1>1. ASSUME NEW s \in SessionIds, NEW ka \in KeepAlives, NEW t \in Times,
             RegisterNewSession(s, ka, t)
      PROVE  AbsentSendNothing'
  <2>1. Registered' = Registered \cup {s}
    BY <1>1, AppendElement DEF RegisterNewSession, TypeOK, Registered
  <2> QED BY <1>1, <2>1 DEF RegisterNewSession, TypeOK
<1>2. ASSUME NEW s \in SessionIds, RemoveSession(s) PROVE AbsentSendNothing'
  <2>1. Registered' = Registered \ {s}
    BY <1>2, RemoveKeepsRegistries
  <2> QED BY <1>2, <2>1 DEF RemoveSession, TypeOK
<1>3. ASSUME NEW s \in SessionIds, MarkSessionDisconnected(s) PROVE AbsentSendNothing'
  BY <1>3 DEF MarkSessionDisconnected, Registered
<1>4. ASSUME NEW s \in SessionIds, DequeuePacketToSendToClient(s) PROVE AbsentSendNothing'
  BY <1>4 DEF DequeuePacketToSendToClient, registry, Registered, TypeOK
<1>5. ASSUME NEW s \in SessionIds, NEW t \in Times, Receive(s, t) PROVE AbsentSendNothing'
  BY <1>5 DEF Receive, QueuePacketReceivedFromClient, Registered
<1>6. CASE Begin \/ UNCHANGED vars
  BY <1>6 DEF Begin, vars, registry, Registered
<1>7. CASE Process
  <2>1. Registered' = Registered
    BY <1>7, ProcessFrame DEF Registered
  <2>2. ASSUME NEW s \in SessionIds, NEW p, QueueTxPacket(s, p) PROVE AbsentSendNothing'
    BY <2>1, <2>2 DEF QueueTxPacket, QueueResult, TypeOK
  <2>3. CASE UNCHANGED tx
    BY <2>1, <2>3
  <2> QED BY <1>7, <2>2, <2>3, TransmitQueueStep
<1> QED BY <1>1, <1>2, <1>3, <1>4, <1>5, <1>6, <1>7 DEF Next, Call

(* The session vector does not change while the snapshot is gone through.  *)
LEMMA RestNext ==
    RegistryInv /\ TodoIsRest /\ [Next]_vars => TodoIsRest'
<1> SUFFICES ASSUME RegistryInv, TodoIsRest, [Next]_vars PROVE TodoIsRest'
  OBVIOUS
<1>0. /\ todo \in Seq(SessionIds) /\ sessions \in Seq(SessionIds)
      /\ Len(todo) \in Nat /\ Len(sessions) \in Nat
  BY LenProperties DEF RegistryInv, TypeOK, ControlTypeOK
<1>1. ASSUME NEW s \in SessionIds, Call(s) \/ \E t \in Times : Receive(s, t)
      PROVE  TodoIsRest'
  BY <1>1, CallKeepsControl DEF control, TodoIsRest
<1>2. CASE Begin
  BY <1>0, <1>2 DEF Begin, registry, TodoIsRest
<1>3. CASE UNCHANGED vars
  BY <1>3 DEF vars, registry, control, TodoIsRest
<1>4. CASE Process
  <2>1. UNCHANGED sessions
    BY <1>4, ProcessFrame
  <2>2. pc # "idle"
    BY <1>4
       DEF Process, Done, NextSession, HandleConnect, HandlePingreq, HandleDisconnect,
           HandleIgnored, HandleSubscribe, HandlePublish, CollectSubscriber,
           CollectNextEntry, CollectDone, Deliver, PublishDone, Taking
  <2>3. CASE pc' = "idle"
    BY <2>3 DEF TodoIsRest
  <2>4. CASE todo' = todo
    BY <2>1, <2>2, <2>4 DEF TodoIsRest
  <2>5. CASE todo # <<>> /\ todo' = Tail(todo)
    <3>1. /\ Len(todo') = Len(todo) - 1 /\ Len(todo) >= 1
          /\ \A i \in 1..Len(todo') : todo'[i] = todo[i + 1]
      BY <1>0, <2>5, HeadTailProperties, LenProperties
    <3>2. Len(todo') <= Len(sessions')
      BY <1>0, <2>1, <2>2, <3>1 DEF TodoIsRest
    <3>3. ASSUME NEW i \in 1..Len(todo')
          PROVE  todo'[i] = sessions'[(Len(sessions') - Len(todo')) + i]
      <4>1. i + 1 \in 1..Len(todo)
        BY <1>0, <3>1
      <4>2. todo[i + 1] = sessions[(Len(sessions) - Len(todo)) + (i + 1)]
        BY <2>2, <4>1 DEF TodoIsRest
      <4>3. (Len(sessions) - Len(todo)) + (i + 1) = (Len(sessions) - Len(todo')) + i
        BY <1>0, <3>1
      <4> QED BY <2>1, <3>1, <4>2, <4>3
    <3> QED BY <3>2, <3>3 DEF TodoIsRest
  <2>6. Return(result') \/ todo' = todo \/ (todo # <<>> /\ todo' = Tail(todo))
    BY <1>4, ProcessControl
  <2> QED BY <2>3, <2>4, <2>5, <2>6 DEF Return
<1> QED BY <1>1, <1>2, <1>3, <1>4 DEF Next
(* get_subscribers collects the one vector, in its order: no id is in it   *)
(* twice, and all of them fit.                                             *)
LEMMA PrefixCollect ==
    ASSUME OneTopicForAll, RegistryInv, WithinLimits, FoundIsPrefix, CollectSubscriber
    PROVE  FoundIsPrefix'
<1> DEFINE q == TheSubscribers
<1>1. /\ pc = "collect" /\ pc' = pc /\ entry' = entry /\ idx' = idx + 1 /\ UNCHANGED subscribers
      /\ entry <= Len(topics) /\ UNCHANGED topics
      /\ idx <= Len(subscribers[topics[entry]])
      /\ found' = PushFound(subscribers[topics[entry]][idx])
  BY DEF CollectSubscriber, AtSubscriber, topic_registry
<1>2. q \in Seq(SessionIds) /\ IsInjective(q) /\ Len(q) \in Nat /\ DOMAIN q = 1..Len(q)
  <2>1. q \in Seq(SessionIds) /\ IsInjective(q)
    BY TopicVector
  <2> HIDE DEF q
  <2> QED BY <2>1, LenProperties
<1>3. /\ entry = 1 /\ topics[1] = TheFilter
      /\ found = SubSeq(q, 1, idx - 1) /\ idx \in Nat \ {0} /\ Len(q) <= MAX_SUBSCRIBERS_PER_TOPIC
  <2>1. Len(topics) \in Nat /\ entry \in Nat \ {0} /\ idx \in Nat \ {0}
    BY LenProperties DEF RegistryInv, TypeOK, ControlTypeOK
  <2>2. Len(topics) = 1 /\ topics[1] = TheFilter
    BY <1>1, <2>1, TopicVector
  <2>3. entry = 1
    BY <1>1, <2>1, <2>2
  <2>4. TheFilter \in Filters
    BY TopicVector
  <2>5. Len(q) <= MAX_SUBSCRIBERS_PER_TOPIC
    BY <2>4 DEF WithinLimits, TheSubscribers
  <2> QED BY <1>1, <2>1, <2>2, <2>3, <2>5 DEF FoundIsPrefix
<1>4. idx \in 1..Len(q) /\ found' = PushFound(q[idx]) /\ TheSubscribers' = q
  BY <1>1, <1>2, <1>3 DEF TheSubscribers
<1> HIDE DEF q
<1>5. /\ Len(found) = idx - 1
      /\ found \in Seq(SessionIds) /\ \A i \in 1..(idx - 1) : found[i] = q[i]
  <2>1. \A i \in 1..(idx - 1) : q[i] \in SessionIds
    BY <1>2, <1>4
  <2>2. 1 \in Int /\ idx - 1 \in Int /\ (idx - 1) - 1 + 1 = idx - 1
    BY <1>3
  <2>3. /\ SubSeq(q, 1, idx - 1) \in Seq(SessionIds)
        /\ Len(SubSeq(q, 1, idx - 1)) = IF 1 <= idx - 1 THEN (idx - 1) - 1 + 1 ELSE 0
        /\ \A i \in 1..((idx - 1) - 1 + 1) : SubSeq(q, 1, idx - 1)[i] = q[1 + i - 1]
    BY <2>1, <2>2, SubSeqProperties
  <2>4. (IF 1 <= idx - 1 THEN (idx - 1) - 1 + 1 ELSE 0) = idx - 1
    BY <1>3
  <2>5. \A i \in 1..(idx - 1) : 1 + i - 1 = i
    BY <1>3
  <2> QED BY <1>3, <2>2, <2>3, <2>4, <2>5
<1>6. q[idx] \notin Range(found)
  <2> SUFFICES ASSUME NEW i \in DOMAIN found, found[i] = q[idx] PROVE FALSE
    BY DEF Range
  <2>1. i \in 1..(idx - 1)
    BY <1>5, LenProperties
  <2>2. q[i] = q[idx] /\ i \in 1..Len(q) /\ i # idx
    BY <1>2, <1>4, <1>5, <2>1
  <2> QED BY <1>2, <1>4, <2>2 DEF IsInjective
<1>7. ~(Len(found) >= MAX_SUBSCRIBERS_PER_TOPIC)
  <2>1. MAX_SUBSCRIBERS_PER_TOPIC \in Nat
    BY LimitsAssumption
  <2> QED BY <1>2, <1>3, <1>4, <1>5, <2>1
<1>8. found' = Append(found, q[idx])
  BY <1>4, <1>6, <1>7 DEF PushFound
<1>9. found' = SubSeq(q, 1, idx)
  <2>1. 1 \in 1..Len(q) /\ idx \in 1..Len(q)
    BY <1>2, <1>4
  <2>2. SubSeq(q, 1, idx) = SubSeq(q, 1, idx - 1) \o <<q[idx]>>
    BY <1>2, <2>1, SubSeqRecursiveSecond
  <2>3. q[idx] \in SessionIds
    BY <1>2, <1>4
  <2>4. Append(found, q[idx]) = found \o <<q[idx]>>
    BY <1>5, <2>3, AppendIsConcat
  <2> QED BY <1>3, <1>8, <2>2, <2>4
<1>10. (idx + 1) - 1 = idx /\ idx + 1 <= Len(q) + 1
  BY <1>2, <1>4
<1>11. /\ pc' = "collect" /\ entry' = 1 /\ idx' <= Len(TheSubscribers') + 1
       /\ found' = SubSeq(TheSubscribers', 1, idx' - 1)
  BY <1>1, <1>3, <1>4, <1>9, <1>10
<1> QED BY <1>11 DEF FoundIsPrefix

(* After the last entry, and on its way to the subscribers, handle_publish *)
(* has all of them.                                                        *)
LEMMA PrefixNext ==
    ASSUME OneTopicForAll, RegistryInv, WithinLimits, FoundIsPrefix, [Next]_vars
    PROVE  FoundIsPrefix'
<1>1. ASSUME NEW s \in SessionIds, Call(s) \/ \E t \in Times : Receive(s, t)
      PROVE  FoundIsPrefix'
  <2>1. pc' = "idle"
    BY <1>1, CallKeepsControl DEF control
  <2> QED BY <2>1 DEF FoundIsPrefix
<1>2. CASE pc' = "next"
  BY <1>2 DEF FoundIsPrefix
<1>3. CASE pc' = "idle"
  BY <1>3 DEF FoundIsPrefix
<1>4. CASE UNCHANGED vars
  BY <1>4 DEF vars, topic_registry, control, FoundIsPrefix, TheSubscribers
<1>5. /\ TheSubscribers \in Seq(SessionIds) /\ Len(TheSubscribers) \in Nat
      /\ Len(topics) \in Nat /\ entry \in Nat \ {0} /\ idx \in Nat \ {0}
  <2>1. TheSubscribers \in Seq(SessionIds)
    BY TopicVector
  <2>2. topics \in Seq(Filters) /\ entry \in Nat \ {0} /\ idx \in Nat \ {0}
    BY DEF RegistryInv, TypeOK, ControlTypeOK
  <2> QED BY <2>1, <2>2, LenProperties
<1>6. CASE HandlePublish
  <2>1. /\ pc' = "collect" /\ entry' = 1 /\ idx' = 1 /\ found' = <<>>
        /\ TheSubscribers' = TheSubscribers
    BY <1>6 DEF HandlePublish, topic_registry, TheSubscribers
  <2>2. SubSeq(TheSubscribers, 1, 1 - 1) = <<>>
    BY SubSeqEmpty
  <2>3. 1 <= Len(TheSubscribers) + 1
    BY <1>5
  <2> QED BY <2>1, <2>2, <2>3 DEF FoundIsPrefix
<1>7. CASE CollectSubscriber
  BY <1>7, PrefixCollect
<1>8. CASE CollectNextEntry
  <2>1. /\ pc = "collect" /\ pc' = pc /\ entry <= Len(topics) /\ ~AtSubscriber /\ entry' = entry + 1
        /\ found' = found /\ topics' = topics /\ TheSubscribers' = TheSubscribers
    BY <1>8 DEF CollectNextEntry, topic_registry, TheSubscribers
  <2>2. Len(topics) = 1 /\ topics[1] = TheFilter /\ TheFilter \in Filters
    BY <1>5, <2>1, TopicVector
  <2>3. entry = 1
    BY <1>5, <2>1, <2>2
  <2>4. TopicMatches(cur.topic, topics[entry])
    <3>1. cur \in Publishes
      BY <2>1 DEF RegistryInv, TypeOK, ControlTypeOK
    <3>2. cur.topic \in Topics
      BY <3>1 DEF Publishes
    <3> QED BY <2>2, <2>3, <3>2 DEF OneTopicForAll
  <2>5. ~(idx <= Len(TheSubscribers))
    BY <2>1, <2>2, <2>3, <2>4 DEF AtSubscriber, TheSubscribers
  <2>6. idx <= Len(TheSubscribers) + 1 /\ found = SubSeq(TheSubscribers, 1, idx - 1)
    BY <1>5, <2>1, <2>2, <2>3 DEF FoundIsPrefix
  <2>7. idx - 1 = Len(TheSubscribers)
    BY <1>5, <2>5, <2>6
  <2>8. found = TheSubscribers
    BY <1>5, <2>6, <2>7, SubSeqFull
  <2>9. entry + 1 > Len(topics)
    BY <2>2, <2>3
  <2> QED BY <2>1, <2>8, <2>9 DEF FoundIsPrefix
<1>9. CASE CollectDone
  <2>1. /\ pc = "collect" /\ pc' = "deliver" /\ entry > Len(topics) /\ idx' = 1
        /\ found' = found /\ TheSubscribers' = TheSubscribers
    BY <1>9 DEF CollectDone, topic_registry, TheSubscribers
  <2>2. found = TheSubscribers
    <3>1. CASE Len(topics) = 0 /\ TheSubscribers = <<>>
      <4>1. CASE entry = 1 /\ idx <= Len(TheSubscribers) + 1
                 /\ found = SubSeq(TheSubscribers, 1, idx - 1)
        <5>1. idx - 1 < 1 /\ 1 \in Int /\ idx - 1 \in Int
          BY <1>5, <3>1, <4>1
        <5> QED BY <3>1, <4>1, <5>1, SubSeqEmpty
      <4> QED BY <2>1, <4>1 DEF FoundIsPrefix
    <3>2. CASE Len(topics) = 1
      <4>1. entry # 1
        BY <1>5, <2>1, <3>2
      <4> QED BY <2>1, <4>1 DEF FoundIsPrefix
    <3> QED BY <3>1, <3>2, TopicVector
  <2>3. 1 <= Len(TheSubscribers) + 1
    BY <1>5
  <2> QED BY <2>1, <2>2, <2>3 DEF FoundIsPrefix
<1>10. CASE Deliver
  <2>1. CASE QueueTxFails(found[idx])
    BY <1>3, <2>1 DEF QueueTxFails, Return
  <2>2. CASE idx' = idx + 1 /\ UNCHANGED <<pc, todo, cur, found, entry, result>>
    <3>1. /\ pc = "deliver" /\ idx <= Len(found) /\ TheSubscribers' = TheSubscribers
      BY <1>10 DEF Deliver, topic_registry, TheSubscribers
    <3>2. found = TheSubscribers
      BY <3>1 DEF FoundIsPrefix
    <3>3. idx + 1 <= Len(found) + 1
      BY <1>5, <3>1, <3>2
    <3> QED BY <2>2, <3>1, <3>2, <3>3 DEF FoundIsPrefix
  <2> QED BY <1>10, <2>1, <2>2 DEF Deliver
<1>11. CASE Begin
  BY <1>2, <1>11 DEF Begin
<1>12. CASE Process
  <2>1. CASE Done \/ NextSession \/ HandleDisconnect \/ HandleIgnored
    BY <1>2, <1>3, <2>1
       DEF Done, NextSession, HandleDisconnect, HandleIgnored, Return, Continue, Taking
  <2>2. CASE HandleConnect \/ HandlePingreq \/ HandleSubscribe \/ PublishDone
    BY <1>2, <1>3, <2>2
       DEF HandleConnect, HandlePingreq, HandleSubscribe, PublishDone, QueueTxFails,
           Return, Continue
  <2> QED BY <1>6, <1>7, <1>8, <1>9, <1>10, <1>12, <2>1, <2>2 DEF Process
<1> QED BY <1>1, <1>4, <1>11, <1>12 DEF Next
-----------------------------------------------------------------------------
(* The record of the current state, and what is left of a round from b. *)

Record(S, st, r, t, u, x) ==
    [sessions |-> S, state |-> st, rx |-> r, tx |-> t, subscribers |-> u, result |-> x]

Now(x) == Record(sessions, state, rx, tx, TheSubscribers, x)

(* How many sessions are done with. *)
Here == Len(sessions) - Len(todo)

Point(b) ==
    /\ pc = "idle" => Atomic!ProcessAll(b) = Now(result)
    /\ pc = "next" => Progress(b, Now("Ok"), Here)
    /\ pc = "collect" => Progress(b, Atomic!HandlePublish(Now("Ok"), Head(todo), cur), Here)
    /\ pc = "deliver" => Delivering(b, Now("Ok"), Here, cur, idx)

(* The fields of a record.                                                 *)
LEMMA RecordFields ==
    ASSUME NEW S, NEW st, NEW r, NEW t, NEW u, NEW x, NEW b, b = Record(S, st, r, t, u, x)
    PROVE  /\ b.sessions = S /\ b.state = st /\ b.rx = r /\ b.tx = t
           /\ b.subscribers = u /\ b.result = x
           /\ \A v : [b EXCEPT !.tx = v] = Record(S, st, r, v, u, x)
           /\ \A v : [b EXCEPT !.rx = v] = Record(S, st, v, t, u, x)
           /\ \A v : [b EXCEPT !.state = v] = Record(S, v, r, t, u, x)
           /\ \A v : [b EXCEPT !.subscribers = v] = Record(S, st, r, t, v, x)
           /\ \A v : [b EXCEPT !.result = v] = Record(S, st, r, t, u, v)
  BY DEF Record

(* A record of well-typed parts is a broker.                               *)
LEMMA RecordType ==
    ASSUME NEW S \in Seq(SessionIds), NEW st \in [SessionIds -> SessionStates],
           NEW r \in [SessionIds -> Seq(ClientPackets)],
           NEW t \in [SessionIds -> Seq(ServerPackets)],
           NEW u \in Seq(SessionIds), NEW x \in Errors \cup {"Ok"}
    PROVE  Record(S, st, r, t, u, x) \in Brokers
  BY DEF Record, Brokers

(* The current state is one, during a round whatever the last one returned.*)
LEMMA NowType ==
    ASSUME OneTopicForAll, TypeOK
    PROVE  Now(result) \in Brokers /\ Now("Ok") \in Brokers
<1>1. TheFilter \in Filters
  BY DEF OneTopicForAll, TheFilter
<1> QED BY <1>1, RecordType DEF Now, TheSubscribers, TypeOK, ControlTypeOK

(* And so is the next.                                                     *)
LEMMA NowTypeNext ==
    ASSUME OneTopicForAll, TypeOK'
    PROVE  Now(result)' \in Brokers /\ Now("Ok")' \in Brokers
<1>1. TheFilter \in Filters
  BY DEF OneTopicForAll, TheFilter
<1> QED BY <1>1, RecordType DEF Now, TheSubscribers, TypeOK, ControlTypeOK

(* queue_tx_packet of the two brokers succeeds or fails alike.             *)
LEMMA AnswersAgree ==
    ASSUME NEW b, b.sessions = sessions, b.tx = tx, b.result = "Ok", NEW s, NEW m
    PROVE  /\ QueueTxPacket(s, m) => Atomic!QueueTx(b, s, m) = [b EXCEPT !.tx = tx']
           /\ QueueTxFails(s) => /\ Atomic!QueueTx(b, s, m) = [b EXCEPT !.result = result']
                                 /\ result' # "Ok" /\ tx' = tx
<1>1. Atomic!Range(sessions) = Range(sessions)
  BY DEF Atomic!Range, Range
<1>2. Atomic!QueueResult(b, s, b.tx) = QueueResult(s, tx)
  BY <1>1 DEF Atomic!QueueResult, QueueResult, Registered
<1>3. ASSUME QueueTxPacket(s, m)
      PROVE  Atomic!QueueTx(b, s, m) = [b EXCEPT !.tx = tx']
  <2>1. Atomic!QueueTx(b, s, m) = [b EXCEPT !.tx = [b.tx EXCEPT ![s] = Append(@, m)]]
    BY <1>2, <1>3 DEF Atomic!QueueTx, QueueTxPacket
  <2> QED BY <1>3, <2>1 DEF QueueTxPacket
<1>4. ASSUME QueueTxFails(s)
      PROVE  /\ Atomic!QueueTx(b, s, m) = [b EXCEPT !.result = result']
             /\ result' # "Ok" /\ tx' = tx
  <2>1. QueueResult(s, tx) # "Ok" /\ result' = QueueResult(s, tx) /\ tx' = tx
    BY <1>4 DEF QueueTxFails, Return
  <2> QED BY <1>2, <2>1 DEF Atomic!QueueTx
<1> QED BY <1>3, <1>4

(* The session at the head of the snapshot, by its number in the round.    *)
LEMMA SessionHere ==
    ASSUME RegistryInv, TodoIsRest, pc # "idle", todo # <<>>,
           NEW b, b.sessions = sessions
    PROVE  /\ Here \in Nat /\ Here < Len(b.sessions)
           /\ Head(todo) = b.sessions[Here + 1] /\ Head(todo) \in SessionIds
           /\ Head(todo) \in Registered
<1>1. /\ todo \in Seq(SessionIds) /\ sessions \in Seq(SessionIds)
      /\ Len(todo) \in Nat /\ Len(sessions) \in Nat
  BY LenProperties DEF RegistryInv, TypeOK, ControlTypeOK
<1>2. Len(todo) # 0
  BY <1>1, EmptySeq
<1>3. Head(todo) = todo[1] /\ Head(todo) \in SessionIds /\ Head(todo) \in Range(todo)
  BY <1>1, TailElements, HeadTailProperties
<1>4. Len(todo) <= Len(sessions) /\ 1 \in 1..Len(todo)
  BY <1>1, <1>2 DEF TodoIsRest
<1>5. todo[1] = sessions[(Len(sessions) - Len(todo)) + 1]
  BY <1>4 DEF TodoIsRest
<1>6. Head(todo) \in Registered
  BY <1>3 DEF RegistryInv, NothingStale
<1> QED BY <1>1, <1>2, <1>3, <1>4, <1>5, <1>6 DEF Here

(* What the while-let loop takes, the abstract broker handles in one step. *)
LEMMA PacketAgrees ==
    ASSUME RegistryInv, OneTopicForAll, TodoIsRest,
           NEW b \in Brokers, b.sessions = sessions, Point(b), NEW type, Taking(type),
           NEW s, s = Head(todo), NEW p, p = Head(rx[s]),
           NEW a, a = Record(sessions, state, rx', tx, TheSubscribers, "Ok")
    PROVE  /\ p \in ClientPackets /\ p.type = type /\ a \in Brokers
           /\ \E h : /\ Progress(b, h, Here)
                     /\ h = CASE p.type = "connect" -> Atomic!HandleConnect(a, s)
                              [] p.type = "pingreq" ->
                                   Atomic!QueueTx(a, s, [type |-> "pingresp"])
                              [] p.type = "subscribe" ->
                                   Atomic!QueueTx(Atomic!Subscribe(a, s), s, [type |-> "suback"])
                              [] p.type = "disconnect" -> [a EXCEPT !.state[s] = "Disconnected"]
                              [] p.type = "publish" -> Atomic!HandlePublish(a, s, p)
                              [] OTHER -> a
<1> DEFINE c == Now("Ok")
<1>1. pc = "next" /\ todo # <<>> /\ rx[s] # <<>> /\ rx' = [rx EXCEPT ![s] = Tail(rx[s])]
  BY DEF Taking, dequeue_front
<1>2. /\ Here \in Nat /\ Here < Len(b.sessions) /\ s = b.sessions[Here + 1] /\ s \in SessionIds
  BY <1>1, SessionHere
<1>3. c \in Brokers
  BY NowType DEF RegistryInv
<1>4. /\ c.rx = rx /\ c.result = "Ok"
      /\ [c EXCEPT !.rx = rx'] = a
  BY RecordFields DEF Now
<1>5. Progress(b, c, Here)
  BY <1>1 DEF Point
<1> HIDE DEF c
<1>6. Progress(b, Atomic!HandlePacket(c, s), Here)
  BY <1>1, <1>2, <1>3, <1>4, <1>5, ProgressTakes
<1>7. [c EXCEPT !.rx[s] = Tail(@)] = a
  <2>1. [c EXCEPT !.rx[s] = Tail(@)] = [c EXCEPT !.rx = [c.rx EXCEPT ![s] = Tail(@)]]
    OBVIOUS
  <2> QED BY <1>1, <1>4, <2>1
<1>8. p \in ClientPackets /\ p.type = type /\ rx' \in [SessionIds -> Seq(ClientPackets)]
  BY TakingType DEF RegistryInv
<1>9. a \in Brokers
  <2>1. TheSubscribers \in Seq(SessionIds)
    BY TopicVector
  <2> QED BY <1>8, <2>1, RecordType DEF RegistryInv, TypeOK
<1>10. Atomic!HandlePacket(c, s) =
         CASE p.type = "connect" -> Atomic!HandleConnect(a, s)
           [] p.type = "pingreq" -> Atomic!QueueTx(a, s, [type |-> "pingresp"])
           [] p.type = "subscribe" ->
                Atomic!QueueTx(Atomic!Subscribe(a, s), s, [type |-> "suback"])
           [] p.type = "disconnect" -> [a EXCEPT !.state[s] = "Disconnected"]
           [] p.type = "publish" -> Atomic!HandlePublish(a, s, p)
           [] OTHER -> a
  <2>1. Head(c.rx[s]) = p
    BY <1>4
  <2> QED BY <1>7, <2>1 DEF Atomic!HandlePacket
<1> QED BY <1>6, <1>8, <1>9, <1>10

(* A handler that has returned Ok leaves the round where its effect put it;*)
(* one that has failed ends the round.                                     *)
LEMMA HandlerEnds ==
    ASSUME RegistryInv, RegistryInv', OneTopicForAll, TodoIsRest, pc # "idle", todo # <<>>,
           NEW b \in Brokers, b.sessions = sessions, UNCHANGED sessions,
           NEW h, Progress(b, h, Here),
           \/ Continue /\ h = Now("Ok")'
           \/ (\E r : Return(r)) /\ result' # "Ok" /\ h = Now(result)'
    PROVE  Point(b)'
<1>1. CASE Continue /\ h = Now("Ok")'
  <2>1. pc' = "next" /\ todo' = todo
    BY <1>1 DEF Continue
  <2>2. Here' = Here
    BY <2>1 DEF Here
  <2> QED BY <1>1, <2>1, <2>2 DEF Point
<1>2. CASE (\E r : Return(r)) /\ result' # "Ok" /\ h = Now(result)'
  <2>1. pc' = "idle"
    BY <1>2 DEF Return
  <2>2. h \in Brokers
    BY <1>2, NowTypeNext DEF RegistryInv
  <2>3. h.result # "Ok"
    BY <1>2, RecordFields DEF Now
  <2>4. Here \in Nat /\ Here < Len(b.sessions)
    BY SessionHere
  <2>5. Atomic!ProcessAll(b) = h
    BY <2>2, <2>3, <2>4, ProgressFails
  <2> QED BY <1>2, <2>1, <2>5 DEF Point
<1> QED BY <1>1, <1>2
-----------------------------------------------------------------------------
(* Each step of a round leaves the broker where the abstract one will be.  *)

(* handle_connect.                                                         *)
LEMMA PointConnect ==
    ASSUME RegistryInv, RegistryInv', OneTopicForAll, TodoIsRest,
           NEW b \in Brokers, b.sessions = sessions, Point(b), HandleConnect
    PROVE  Point(b)'
<1> DEFINE s == Head(todo)
           p == Head(rx[s])
           a == Record(sessions, state, rx', tx, TheSubscribers, "Ok")
           c == Record(sessions, state', rx', tx, TheSubscribers, "Ok")
<1>1. /\ pc = "next" /\ todo # <<>> /\ Taking("connect") /\ sessions' = sessions
      /\ TheSubscribers' = TheSubscribers /\ state' = [state EXCEPT ![s] = "Connected"]
  BY DEF HandleConnect, Taking, topic_registry, TheSubscribers
<1>2. PICK h : /\ Progress(b, h, Here)
               /\ p.type = "connect" => h = Atomic!HandleConnect(a, s)
  BY <1>1, PacketAgrees
<1>3. p.type = "connect"
  BY <1>1, PacketAgrees
<1>4. [a EXCEPT !.state[s] = "Connected"] = c
  <2>1. a.state = state /\ [a EXCEPT !.state = state'] = c
    BY RecordFields
  <2> HIDE DEF a, c
  <2>2. [a EXCEPT !.state[s] = "Connected"] =
          [a EXCEPT !.state = [a.state EXCEPT ![s] = "Connected"]]
    OBVIOUS
  <2> QED BY <1>1, <2>1, <2>2
<1>5. h = Atomic!QueueTx(c, s, [type |-> "connack"])
  BY <1>2, <1>3, <1>4 DEF Atomic!HandleConnect
<1>6. /\ c.sessions = sessions /\ c.tx = tx /\ c.result = "Ok"
      /\ [c EXCEPT !.tx = tx'] = Now("Ok")'
      /\ tx' = tx => [c EXCEPT !.result = result'] = Now(result)'
  BY <1>1 DEF Record, Now
<1> HIDE DEF a, c, p
<1>7. CASE QueueTxPacket(s, [type |-> "connack"]) /\ Continue
  <2>1. h = Now("Ok")'
    BY <1>5, <1>6, <1>7, AnswersAgree
  <2> QED BY <1>1, <1>2, <1>7, <2>1, HandlerEnds
<1>8. CASE QueueTxFails(s)
  <2>1. h = Now(result)' /\ result' # "Ok"
    BY <1>5, <1>6, <1>8, AnswersAgree
  <2>2. \E r : Return(r)
    BY <1>8 DEF QueueTxFails
  <2> QED BY <1>1, <1>2, <2>1, <2>2, HandlerEnds
<1> QED BY <1>7, <1>8 DEF HandleConnect

(* handle_pingreq.                                                         *)
LEMMA PointPingreq ==
    ASSUME RegistryInv, RegistryInv', OneTopicForAll, TodoIsRest,
           NEW b \in Brokers, b.sessions = sessions, Point(b), HandlePingreq
    PROVE  Point(b)'
<1> DEFINE s == Head(todo)
           p == Head(rx[s])
           a == Record(sessions, state, rx', tx, TheSubscribers, "Ok")
<1>1. /\ pc = "next" /\ todo # <<>> /\ Taking("pingreq") /\ sessions' = sessions
      /\ TheSubscribers' = TheSubscribers /\ state' = state
  BY DEF HandlePingreq, Taking, registry, topic_registry, TheSubscribers
<1>2. PICK h : /\ Progress(b, h, Here)
               /\ p.type = "pingreq" => h = Atomic!QueueTx(a, s, [type |-> "pingresp"])
  BY <1>1, PacketAgrees
<1>3. p.type = "pingreq"
  BY <1>1, PacketAgrees
<1>4. h = Atomic!QueueTx(a, s, [type |-> "pingresp"])
  BY <1>2, <1>3
<1>5. /\ a.sessions = sessions /\ a.tx = tx /\ a.result = "Ok"
      /\ [a EXCEPT !.tx = tx'] = Now("Ok")'
      /\ tx' = tx => [a EXCEPT !.result = result'] = Now(result)'
  BY <1>1 DEF Record, Now
<1> HIDE DEF a, p
<1>6. CASE QueueTxPacket(s, [type |-> "pingresp"]) /\ Continue
  <2>1. h = Now("Ok")'
    BY <1>4, <1>5, <1>6, AnswersAgree
  <2> QED BY <1>1, <1>2, <1>6, <2>1, HandlerEnds
<1>7. CASE QueueTxFails(s)
  <2>1. h = Now(result)' /\ result' # "Ok"
    BY <1>4, <1>5, <1>7, AnswersAgree
  <2>2. \E r : Return(r)
    BY <1>7 DEF QueueTxFails
  <2> QED BY <1>1, <1>2, <2>1, <2>2, HandlerEnds
<1> QED BY <1>6, <1>7 DEF HandlePingreq

(* handle_disconnect, and the packets that are ignored.                    *)
LEMMA PointSilent ==
    ASSUME RegistryInv, RegistryInv', OneTopicForAll, TodoIsRest,
           NEW b \in Brokers, b.sessions = sessions, Point(b),
           HandleDisconnect \/ HandleIgnored
    PROVE  Point(b)'
<1> DEFINE s == Head(todo)
           p == Head(rx[s])
           a == Record(sessions, state, rx', tx, TheSubscribers, "Ok")
<1>1. CASE HandleDisconnect
  <2>1. /\ pc = "next" /\ todo # <<>> /\ Taking("disconnect") /\ sessions' = sessions
        /\ TheSubscribers' = TheSubscribers /\ tx' = tx /\ Continue
        /\ state' = [state EXCEPT ![s] = "Disconnected"]
    BY <1>1 DEF HandleDisconnect, Taking, topic_registry, TheSubscribers
  <2>2. PICK h : /\ Progress(b, h, Here)
                 /\ p.type = "disconnect" => h = [a EXCEPT !.state[s] = "Disconnected"]
    BY <2>1, PacketAgrees
  <2>3. p.type = "disconnect"
    BY <2>1, PacketAgrees
  <2>4. a.state = state /\ [a EXCEPT !.state = state'] = Now("Ok")'
    BY <2>1 DEF Record, Now
  <2> HIDE DEF a, p
  <2>5. [a EXCEPT !.state[s] = "Disconnected"] =
          [a EXCEPT !.state = [a.state EXCEPT ![s] = "Disconnected"]]
    OBVIOUS
  <2>6. h = Now("Ok")'
    BY <2>1, <2>2, <2>3, <2>4, <2>5
  <2> QED BY <2>1, <2>2, <2>6, HandlerEnds
<1>2. CASE HandleIgnored
  <2>1. /\ pc = "next" /\ todo # <<>> /\ Taking("ignored") /\ sessions' = sessions
        /\ TheSubscribers' = TheSubscribers /\ tx' = tx /\ state' = state /\ Continue
    BY <1>2 DEF HandleIgnored, Taking, registry, topic_registry, TheSubscribers
  <2>2. PICK h : /\ Progress(b, h, Here)
                 /\ p.type = "ignored" => h = a
    BY <2>1, PacketAgrees
  <2>3. p.type = "ignored"
    BY <2>1, PacketAgrees
  <2>4. a = Now("Ok")'
    BY <2>1 DEF Now
  <2> QED BY <2>1, <2>2, <2>3, <2>4, HandlerEnds
<1> QED BY <1>1, <1>2

(* handle_subscribe: with one filter the two registries accept and refuse  *)
(* the same sessions.                                                      *)
LEMMA PointSubscribe ==
    ASSUME RegistryInv, RegistryInv', OneTopicForAll, TodoIsRest,
           NEW b \in Brokers, b.sessions = sessions, Point(b), HandleSubscribe
    PROVE  Point(b)'
<1> DEFINE s == Head(todo)
           p == Head(rx[s])
           f == Head(rx[s]).filter
           q == TheSubscribers
           a == Record(sessions, state, rx', tx, q, "Ok")
           c == Record(sessions, state, rx', tx, q', "Ok")
<1>1. /\ pc = "next" /\ todo # <<>> /\ Taking("subscribe") /\ sessions' = sessions
      /\ state' = state
  BY DEF HandleSubscribe, Taking, registry
<1>2. PICK h : /\ Progress(b, h, Here)
               /\ p.type = "subscribe" =>
                    h = Atomic!QueueTx(Atomic!Subscribe(a, s), s, [type |-> "suback"])
  BY <1>1, PacketAgrees
<1>3. p.type = "subscribe" /\ p \in ClientPackets
  BY <1>1, PacketAgrees
<1>4. h = Atomic!QueueTx(Atomic!Subscribe(a, s), s, [type |-> "suback"])
  BY <1>2, <1>3
<1>5. f = TheFilter /\ TheFilter \in Filters
  <2>1. p.filter \in Filters
    BY <1>3 DEF ClientPackets, Publishes
  <2> QED BY <2>1, TopicVector
<1>6. /\ a.subscribers = q /\ [a EXCEPT !.subscribers = Append(q, s)] =
                                Record(sessions, state, rx', tx, Append(q, s), "Ok")
      /\ \A v : [a EXCEPT !.result = v] = Record(sessions, state, rx', tx, q, v)
  BY DEF Record
<1>7. Atomic!Subscribe(a, s) =
        IF s \in Range(q) THEN a
        ELSE IF Len(q) < MAX_SUBSCRIBERS_PER_TOPIC
        THEN Record(sessions, state, rx', tx, Append(q, s), "Ok")
        ELSE Record(sessions, state, rx', tx, q, "MaxSubscribersPerTopicReached")
  <2>1. Atomic!Range(q) = Range(q)
    BY DEF Atomic!Range, Range
  <2> HIDE DEF a, q
  <2> QED BY <1>6, <2>1 DEF Atomic!Subscribe
<1>8. q \in Seq(SessionIds) /\ Len(q) \in Nat
  <2>1. q \in Seq(SessionIds)
    BY TopicVector
  <2> QED BY <2>1, LenProperties
<1>9. SubscribeResult(s, f) =
        IF s \in Range(q) \/ Len(q) < MAX_SUBSCRIBERS_PER_TOPIC THEN "Ok"
        ELSE "MaxSubscribersPerTopicReached"
  <2>1. CASE TheFilter \in Range(topics)
    BY <1>5, <2>1 DEF SubscribeResult, Subscribers, TheSubscribers
  <2>2. CASE Len(topics) = 0 /\ TheFilter \notin Range(topics) /\ q = <<>>
    <3>1. 0 < MAX_TOPICS /\ 0 < MAX_SUBSCRIBERS_PER_TOPIC
      BY LimitsAssumption DEF OneTopicForAll
    <3>2. Len(q) = 0
      BY <2>2
    <3>3. SubscribeResult(s, f) = "Ok"
      BY <1>5, <2>2, <3>1 DEF SubscribeResult
    <3> QED BY <3>1, <3>2, <3>3
  <2> QED BY <2>1, <2>2, TopicVector
<1>10. CASE SubscribeResult(s, f) # "Ok" /\ Return(SubscribeResult(s, f))
            /\ UNCHANGED <<topic_registry, tx>>
  <2>1. /\ result' = "MaxSubscribersPerTopicReached" /\ tx' = tx /\ q' = q
        /\ s \notin Range(q) /\ ~(Len(q) < MAX_SUBSCRIBERS_PER_TOPIC)
    BY <1>9, <1>10 DEF Return, topic_registry, TheSubscribers
  <2>2. Atomic!Subscribe(a, s) = Now(result)'
    BY <1>1, <1>7, <2>1 DEF Now
  <2>3. result' # "Ok" /\ Now(result)'.result = result'
    BY <2>1 DEF Record, Now
  <2>4. h = Now(result)'
    BY <1>4, <2>2, <2>3, QueueTxFailed
  <2>5. \E r : Return(r)
    BY <1>10
  <2> QED BY <1>1, <1>2, <2>3, <2>4, <2>5, HandlerEnds
<1>11. CASE SubscribeResult(s, f) = "Ok" /\ Subscribe(s, f)
  <2>1. q' = IF s \in Range(q) THEN q ELSE Append(q, s)
    BY <1>5, <1>11
       DEF Subscribe, add_subscriber, Subscribers, TheSubscribers, RegistryInv, TypeOK
  <2>2. Atomic!Subscribe(a, s) = c
    BY <1>7, <1>9, <1>11, <2>1
  <2>3. /\ c.sessions = sessions /\ c.tx = tx /\ c.result = "Ok"
        /\ [c EXCEPT !.tx = tx'] = Now("Ok")'
        /\ tx' = tx => [c EXCEPT !.result = result'] = Now(result)'
    BY <1>1 DEF Record, Now
  <2> HIDE DEF a, c, p, q, f
  <2>4. CASE QueueTxPacket(s, [type |-> "suback"]) /\ Continue
    <3>1. h = Now("Ok")'
      BY <1>4, <2>2, <2>3, <2>4, AnswersAgree
    <3> QED BY <1>1, <1>2, <2>4, <3>1, HandlerEnds
  <2>5. CASE QueueTxFails(s)
    <3>1. h = Now(result)' /\ result' # "Ok"
      BY <1>4, <2>2, <2>3, <2>5, AnswersAgree
    <3>2. \E r : Return(r)
      BY <2>5 DEF QueueTxFails
    <3> QED BY <1>1, <1>2, <3>1, <3>2, HandlerEnds
  <2>6. (Continue /\ QueueTxPacket(s, [type |-> "suback"])) \/ QueueTxFails(s)
    BY <1>11 DEF HandleSubscribe, f
  <2> QED BY <2>4, <2>5, <2>6
<1> QED BY <1>10, <1>11 DEF HandleSubscribe
(* handle_publish and get_subscribers, up to the delivery loop.            *)
LEMMA PointPublish ==
    ASSUME RegistryInv, OneTopicForAll, TodoIsRest,
           NEW b \in Brokers, b.sessions = sessions, Point(b),
           HandlePublish \/ CollectSubscriber \/ CollectNextEntry
    PROVE  Point(b)'
<1>1. CASE HandlePublish
  <2> DEFINE s == Head(todo)
             p == Head(rx[s])
             a == Record(sessions, state, rx', tx, TheSubscribers, "Ok")
  <2>1. /\ pc = "next" /\ todo # <<>> /\ Taking("publish") /\ sessions' = sessions
        /\ TheSubscribers' = TheSubscribers /\ tx' = tx /\ state' = state /\ todo' = todo
        /\ pc' = "collect" /\ cur' = p
    BY <1>1 DEF HandlePublish, Taking, registry, topic_registry, TheSubscribers
  <2>2. PICK h : /\ Progress(b, h, Here)
                 /\ p.type = "publish" => h = Atomic!HandlePublish(a, s, p)
    BY <2>1, PacketAgrees
  <2>3. p.type = "publish"
    BY <2>1, PacketAgrees
  <2>4. a = Now("Ok")' /\ Here' = Here /\ Head(todo') = s
    BY <2>1 DEF Now, Here
  <2> HIDE DEF a, p, s
  <2>5. Progress(b, Atomic!HandlePublish(Now("Ok")', Head(todo'), cur'), Here')
    BY <2>1, <2>2, <2>3, <2>4
  <2> QED BY <2>1, <2>5 DEF Point
<1>2. CASE CollectSubscriber \/ CollectNextEntry
  <2>1. /\ pc = "collect" /\ pc' = "collect" /\ todo' = todo /\ cur' = cur
        /\ UNCHANGED <<sessions, state, rx, tx, subscribers>>
    BY <1>2 DEF CollectSubscriber, CollectNextEntry, registry, topic_registry
  <2>2. Here' = Here /\ Now("Ok")' = Now("Ok") /\ Head(todo') = Head(todo)
    BY <2>1 DEF Now, Here, TheSubscribers
  <2>3. Progress(b, Atomic!HandlePublish(Now("Ok"), Head(todo), cur), Here)
    BY <2>1 DEF Point
  <2>4. Progress(b, Atomic!HandlePublish(Now("Ok")', Head(todo'), cur'), Here')
    BY <2>1, <2>2, <2>3
  <2> QED BY <2>1, <2>4 DEF Point
<1> QED BY <1>1, <1>2

(* With the list of subscribers complete the delivery loop starts.         *)
LEMMA PointCollected ==
    ASSUME RegistryInv, OneTopicForAll, TodoIsRest,
           NEW b \in Brokers, b.sessions = sessions, Point(b), CollectDone
    PROVE  Point(b)'
<1>1. /\ pc = "collect" /\ pc' = "deliver" /\ todo' = todo /\ cur' = cur /\ idx' = 1
      /\ UNCHANGED <<sessions, state, rx, tx, subscribers>>
  BY DEF CollectDone, registry, topic_registry
<1>2. Here' = Here /\ Now("Ok")' = Now("Ok")
  BY <1>1 DEF Now, Here, TheSubscribers
<1>3. todo # <<>> /\ cur \in ServerPackets
  BY <1>1 DEF RegistryInv, TypeOK, ControlTypeOK, ServerPackets
<1>4. Head(todo) = b.sessions[Here + 1]
  BY <1>1, <1>3, SessionHere
<1>5. Progress(b, Atomic!HandlePublish(Now("Ok"), b.sessions[Here + 1], cur), Here)
  BY <1>1, <1>4 DEF Point
<1>6. Now("Ok") \in Brokers
  BY NowType DEF RegistryInv
<1>7. PICK c, n : c \in Brokers /\ c = Now("Ok") /\ n = Here
  BY <1>6
<1>8. Delivering(b, c, n, cur, 1)
  BY <1>3, <1>5, <1>7, DeliveringStarts
<1>9. Delivering(b, Now("Ok")', Here', cur', idx')
  BY <1>1, <1>2, <1>7, <1>8
<1> QED BY <1>1, <1>9 DEF Point

(* One subscriber more has the message, or has no room for it.             *)
LEMMA PointDeliver ==
    ASSUME RegistryInv, RegistryInv', OneTopicForAll, TodoIsRest, FoundIsPrefix,
           NEW b \in Brokers, b.sessions = sessions, Point(b), Deliver
    PROVE  Point(b)'
<1>1. /\ pc = "deliver" /\ idx <= Len(found)
      /\ UNCHANGED <<sessions, state, rx, subscribers>>
  BY DEF Deliver, registry, topic_registry
<1>2. todo # <<>> /\ found = TheSubscribers /\ idx \in Nat \ {0}
  BY <1>1 DEF RegistryInv, TypeOK, ControlTypeOK, FoundIsPrefix
<1>3. Here \in Nat /\ Here < Len(b.sessions)
  BY <1>1, <1>2, SessionHere
<1>4. Now("Ok") \in Brokers
  BY NowType DEF RegistryInv
<1>5. PICK c, n, p, i :
        c \in Brokers /\ n \in Nat /\ c = Now("Ok") /\ n = Here /\ p = cur /\ i = idx
  BY <1>3, <1>4
<1>6. /\ c.sessions = sessions /\ c.tx = tx /\ c.result = "Ok"
      /\ c.subscribers = TheSubscribers
      /\ [c EXCEPT !.tx = tx'] = Now("Ok")'
      /\ tx' = tx => [c EXCEPT !.result = result'] = Now(result)'
  BY <1>1, <1>5 DEF Record, Now, TheSubscribers
<1>7. Delivering(b, c, n, p, i)
  BY <1>1, <1>5 DEF Point
<1>8. i \in 1..Len(c.subscribers)
  <2>1. TheSubscribers \in Seq(SessionIds)
    BY TopicVector
  <2>2. Len(TheSubscribers) \in Nat
    BY <2>1, LenProperties
  <2> QED BY <1>1, <1>2, <1>5, <1>6, <2>2
<1>9. PICK d : d = Atomic!QueueTx(c, c.subscribers[i], p)
  OBVIOUS
<1>10. Delivering(b, d, n, p, i + 1) /\ d \in Answering(c)
  BY <1>5, <1>7, <1>8, <1>9, DeliveringNext
<1>11. c.subscribers[i] = found[idx]
  BY <1>2, <1>5, <1>6
<1>12. CASE QueueTxPacket(found[idx], cur) /\ idx' = idx + 1
            /\ UNCHANGED <<pc, todo, cur, found, entry, result>>
  <2>1. d = Now("Ok")'
    BY <1>5, <1>6, <1>9, <1>11, <1>12, AnswersAgree
  <2>2. Here' = Here /\ cur' = cur /\ pc' = "deliver"
    BY <1>1, <1>12 DEF Here
  <2>3. Delivering(b, Now("Ok")', Here', cur', idx')
    BY <1>5, <1>10, <1>12, <2>1, <2>2
  <2> QED BY <2>2, <2>3 DEF Point
<1>13. CASE QueueTxFails(found[idx])
  <2>1. d = Now(result)' /\ result' # "Ok"
    BY <1>5, <1>6, <1>9, <1>11, <1>13, AnswersAgree
  <2>2. pc' = "idle"
    BY <1>13 DEF QueueTxFails, Return
  <2>3. d \in Brokers /\ d.subscribers = c.subscribers
    BY <1>10 DEF Answering
  <2>4. d.result # "Ok"
    BY <2>1, RecordFields DEF Now
  <2>5. i + 1 \in 1..(Len(d.subscribers) + 1) /\ n < Len(b.sessions)
    <3>1. Len(c.subscribers) \in Nat
      <4>1. c.subscribers \in Seq(SessionIds)
        BY <1>5 DEF Brokers
      <4> QED BY <4>1, LenProperties
    <3> QED BY <1>3, <1>5, <1>8, <2>3, <3>1
  <2>6. Atomic!ProcessAll(b) = d
    BY <1>5, <1>10, <2>3, <2>4, <2>5, DeliveringFails
  <2> QED BY <2>1, <2>2, <2>6 DEF Point
<1> QED BY <1>12, <1>13 DEF Deliver

(* handle_publish after the loop.                                          *)
LEMMA PointPublished ==
    ASSUME RegistryInv, RegistryInv', OneTopicForAll, TodoIsRest, FoundIsPrefix,
           NEW b \in Brokers, b.sessions = sessions, Point(b), PublishDone
    PROVE  Point(b)'
<1>1. /\ pc = "deliver" /\ idx > Len(found)
      /\ UNCHANGED <<sessions, state, rx, subscribers>>
  BY DEF PublishDone, registry, topic_registry
<1>2. /\ todo # <<>> /\ found = TheSubscribers /\ idx <= Len(found) + 1
      /\ idx \in Nat \ {0} /\ cur \in Publishes
  BY <1>1 DEF RegistryInv, TypeOK, ControlTypeOK, FoundIsPrefix
<1>3. Here \in Nat /\ Here < Len(b.sessions) /\ Head(todo) = b.sessions[Here + 1]
  BY <1>1, <1>2, SessionHere
<1>4. Now("Ok") \in Brokers
  BY NowType DEF RegistryInv
<1>5. PICK c, n, p, i :
        c \in Brokers /\ n \in Nat /\ c = Now("Ok") /\ n = Here /\ p = cur /\ i = idx
  BY <1>3, <1>4
<1>6. /\ c.sessions = sessions /\ c.tx = tx /\ c.result = "Ok"
      /\ c.subscribers = TheSubscribers
      /\ [c EXCEPT !.tx = tx'] = Now("Ok")'
      /\ tx' = tx => [c EXCEPT !.result = result'] = Now(result)'
  BY <1>1, <1>5 DEF Record, Now, TheSubscribers
<1>7. Delivering(b, c, n, p, i)
  BY <1>1, <1>5 DEF Point
<1>8. i = Len(c.subscribers) + 1
  <2>1. TheSubscribers \in Seq(SessionIds)
    BY TopicVector
  <2>2. Len(TheSubscribers) \in Nat
    BY <2>1, LenProperties
  <2> QED BY <1>1, <1>2, <1>5, <1>6, <2>2
<1>9. /\ p.qos = 0 => Progress(b, c, n)
      /\ p.qos # 0 =>
           Progress(b, Atomic!QueueTx(c, b.sessions[n + 1],
                                      [type |-> "puback", seq |-> p.seq]), n)
  BY <1>5, <1>7, <1>8, DeliveringEnds
<1>10. CASE cur.qos = 0 /\ UNCHANGED tx /\ Continue
  <2>1. c = Now("Ok")'
    BY <1>1, <1>5, <1>10 DEF Now, TheSubscribers
  <2>2. Progress(b, c, Here)
    BY <1>5, <1>9, <1>10
  <2> QED BY <1>1, <1>2, <1>10, <2>1, <2>2, HandlerEnds
<1>11. CASE cur.qos > 0 /\ (\/ QueueTxPacket(Head(todo), [type |-> "puback", seq |-> cur.seq])
                               /\ Continue
                            \/ QueueTxFails(Head(todo)))
  <2>1. cur.qos # 0
    <3>1. cur.qos \in QoSLevels
      BY <1>2 DEF Publishes
    <3>2. cur.qos \in 0..2
      BY <3>1, SetsAssumption
    <3> QED BY <1>11, <3>2
  <2>2. PICK h : h = Atomic!QueueTx(c, Head(todo), [type |-> "puback", seq |-> cur.seq])
    OBVIOUS
  <2>3. Progress(b, h, Here)
    BY <1>3, <1>5, <1>9, <2>1, <2>2
  <2>4. CASE QueueTxPacket(Head(todo), [type |-> "puback", seq |-> cur.seq]) /\ Continue
    <3>1. h = Now("Ok")'
      BY <1>6, <2>2, <2>4, AnswersAgree
    <3> QED BY <1>1, <1>2, <2>3, <2>4, <3>1, HandlerEnds
  <2>5. CASE QueueTxFails(Head(todo))
    <3>1. h = Now(result)' /\ result' # "Ok"
      BY <1>6, <2>2, <2>5, AnswersAgree
    <3>2. \E r : Return(r)
      BY <2>5 DEF QueueTxFails
    <3> QED BY <1>1, <1>2, <2>3, <3>1, <3>2, HandlerEnds
  <2> QED BY <1>11, <2>4, <2>5
<1> QED BY <1>10, <1>11 DEF PublishDone

(* The end of the while-let loop, and of the loop over the sessions.       *)
LEMMA PointSession ==
    ASSUME RegistryInv, OneTopicForAll, TodoIsRest,
           NEW b \in Brokers, b.sessions = sessions, Point(b), Done \/ NextSession
    PROVE  Point(b)'
<1>1. CASE Done
  <2>1. /\ pc = "next" /\ todo = <<>> /\ pc' = "idle" /\ result' = "Ok"
        /\ UNCHANGED <<sessions, state, rx, tx, subscribers>>
    BY <1>1 DEF Done, Return, registry, topic_registry
  <2>2. Here = Len(b.sessions)
    <3>1. Len(sessions) \in Nat /\ Len(todo) = 0
      <4>1. sessions \in Seq(SessionIds)
        BY DEF RegistryInv, TypeOK
      <4> QED BY <2>1, <4>1, LenProperties
    <3> QED BY <3>1 DEF Here
  <2>3. Now(result)' = Now("Ok")
    BY <2>1 DEF Now, TheSubscribers
  <2>4. Atomic!ProcessAll(b) = Now("Ok")
    BY <2>1, <2>2 DEF Point, Progress
  <2> QED BY <2>1, <2>3, <2>4 DEF Point
<1>2. CASE NextSession
  <2>1. /\ pc = "next" /\ todo # <<>> /\ rx[Head(todo)] = <<>>
        /\ UNCHANGED <<sessions, state, rx, tx, subscribers>>
    BY <1>2 DEF NextSession, registry, topic_registry
  <2>2. /\ Here \in Nat /\ Here < Len(b.sessions) /\ Head(todo) = b.sessions[Here + 1]
        /\ Head(todo) \in Registered
    BY <2>1, SessionHere
  <2>3. todo' = Tail(todo) /\ pc' = "next"
    BY <1>2, <2>1, <2>2 DEF NextSession
  <2>4. Here' = Here + 1
    <3>1. todo \in Seq(SessionIds) /\ sessions \in Seq(SessionIds)
      BY DEF RegistryInv, TypeOK, ControlTypeOK
    <3>2. Len(todo') = Len(todo) - 1 /\ Len(todo) \in Nat /\ Len(sessions) \in Nat
      BY <2>1, <2>3, <3>1, TailElements, LenProperties
    <3> QED BY <2>1, <3>2 DEF Here
  <2>5. PICK c \in Brokers, n \in Nat : c = Now("Ok") /\ n = Here
    BY <2>2, NowType DEF RegistryInv
  <2>6. c.rx = rx
    BY <2>5, RecordFields DEF Now
  <2>7. Progress(b, c, n)
    BY <2>1, <2>5 DEF Point
  <2>8. c.rx[b.sessions[n + 1]] = <<>> /\ n < Len(b.sessions)
    BY <2>1, <2>2, <2>5, <2>6
  <2>9. Progress(b, c, n + 1)
    BY <2>7, <2>8, ProgressNext
  <2>10. Now("Ok")' = Now("Ok")
    BY <2>1 DEF Now, TheSubscribers
  <2>11. Progress(b, Now("Ok")', Here')
    BY <2>4, <2>5, <2>9, <2>10
  <2> QED BY <2>3, <2>11 DEF Point
<1> QED BY <1>1, <1>2

(* A step of processing, whichever it is.                                  *)
LEMMA PointProcess ==
    ASSUME RegistryInv, RegistryInv', OneTopicForAll, TodoIsRest, FoundIsPrefix,
           NEW b \in Brokers, b.sessions = sessions, Point(b), Process
    PROVE  Point(b)'
  BY PointConnect, PointPingreq, PointSilent, PointSubscribe, PointPublish, PointCollected,
     PointDeliver, PointPublished, PointSession DEF Process
-----------------------------------------------------------------------------
(* Each other call is one step of the abstract broker. *)

(* What a call leaves when its result is not kept. *)
WithResult(c, x) == [c EXCEPT !.result = x]

(* The result of a call replaced.                                          *)
LEMMA RecordResult ==
    ASSUME NEW S, NEW st, NEW r, NEW t, NEW u, NEW x, NEW y
    PROVE  WithResult(Record(S, st, r, t, u, y), x) = Record(S, st, r, t, u, x)
  BY DEF Record, WithResult

(* register_new_session of a record.                                       *)
LEMMA RecordRegistered ==
    ASSUME NEW S, NEW st, NEW r, NEW t, NEW u, NEW x, NEW b, b = Record(S, st, r, t, u, x),
           NEW s, ~(Len(S) >= MAX_SESSIONS)
    PROVE  [Atomic!RegisterNewSession(b, s) EXCEPT !.result = b.result] =
             Record(Append(S, s), [st EXCEPT ![s] = "Connecting"], r, t, u, x)
<1>1. PICK S2, st2, y : S2 = Append(S, s) /\ st2 = [st EXCEPT ![s] = "Connecting"] /\ y = "Ok"
  OBVIOUS
<1>2. b.sessions = S /\ b.state = st /\ b.result = x
  BY RecordFields
<1>3. Atomic!RegisterNewSession(b, s) =
        [b EXCEPT !.sessions = Append(@, s), !.state[s] = "Connecting", !.result = "Ok"]
  BY <1>2 DEF Atomic!RegisterNewSession
<1>4. Atomic!RegisterNewSession(b, s) =
        [b EXCEPT !.sessions = S2, !.state = st2, !.result = y]
  BY <1>1, <1>2, <1>3
<1>5. Atomic!RegisterNewSession(b, s) = Record(S2, st2, r, t, u, y)
  BY <1>4 DEF Record
<1>6. PICK c : c = Atomic!RegisterNewSession(b, s)
  OBVIOUS
<1>7. [c EXCEPT !.result = x] = Record(S2, st2, r, t, u, x)
  BY <1>5, <1>6, RecordFields
<1> QED BY <1>1, <1>2, <1>6, <1>7

(* remove_session of a record.                                             *)
LEMMA RecordRemoved ==
    ASSUME NEW S, NEW st, NEW r, NEW t, NEW u, NEW x, NEW b, b = Record(S, st, r, t, u, x),
           NEW s
    PROVE  [Atomic!RemoveSession(b, s) EXCEPT !.result = b.result] =
             Record(RemoveElement(S, s), [st EXCEPT ![s] = "Connecting"], [r EXCEPT ![s] = <<>>],
                    [t EXCEPT ![s] = <<>>], RemoveElement(u, s), x)
<1>1. \A q : Atomic!RemoveElement(q, s) = RemoveElement(q, s)
  BY DEF Atomic!RemoveElement, RemoveElement, Atomic!RemoveAt, RemoveAt, Atomic!Range, Range
<1>2. PICK S2, u2, st2, r2, t2 :
        /\ S2 = RemoveElement(S, s) /\ u2 = RemoveElement(u, s)
        /\ st2 = [st EXCEPT ![s] = "Connecting"] /\ r2 = [r EXCEPT ![s] = <<>>]
        /\ t2 = [t EXCEPT ![s] = <<>>]
  OBVIOUS
<1>3. /\ b.sessions = S /\ b.subscribers = u /\ b.state = st /\ b.rx = r /\ b.tx = t
      /\ b.result = x
  BY RecordFields
<1>4. Atomic!RemoveElement(S, s) = S2 /\ Atomic!RemoveElement(u, s) = u2
  BY <1>1, <1>2
<1>5. Atomic!RemoveSession(b, s) =
        [b EXCEPT !.sessions = Atomic!RemoveElement(@, s),
                  !.subscribers = Atomic!RemoveElement(@, s),
                  !.state[s] = "Connecting", !.rx[s] = <<>>, !.tx[s] = <<>>]
  BY DEF Atomic!RemoveSession
<1>6. Atomic!RemoveSession(b, s) =
        [b EXCEPT !.sessions = S2, !.subscribers = u2, !.state = st2, !.rx = r2, !.tx = t2]
  <2>1. /\ Atomic!RemoveElement(b.sessions, s) = S2
        /\ Atomic!RemoveElement(b.subscribers, s) = u2
        /\ [b.state EXCEPT ![s] = "Connecting"] = st2
        /\ [b.rx EXCEPT ![s] = <<>>] = r2 /\ [b.tx EXCEPT ![s] = <<>>] = t2
    BY <1>2, <1>3, <1>4
  <2>2. Atomic!RemoveSession(b, s) =
          [b EXCEPT !.sessions = Atomic!RemoveElement(b.sessions, s),
                    !.subscribers = Atomic!RemoveElement(b.subscribers, s),
                    !.state = [b.state EXCEPT ![s] = "Connecting"],
                    !.rx = [b.rx EXCEPT ![s] = <<>>], !.tx = [b.tx EXCEPT ![s] = <<>>]]
    BY <1>5
  <2> QED BY <2>1, <2>2
<1>7. Atomic!RemoveSession(b, s) = Record(S2, st2, r2, t2, u2, x)
  BY <1>6 DEF Record
<1>8. PICK c : c = Atomic!RemoveSession(b, s)
  OBVIOUS
<1>9. [c EXCEPT !.result = x] = Record(S2, st2, r2, t2, u2, x)
  BY <1>7, <1>8, RecordFields
<1> QED BY <1>2, <1>3, <1>8, <1>9

(* dequeue_packet_to_send_to_client. *)
Dequeued(b, s) == [b EXCEPT !.tx[s] = Tail(@)]

(* dequeue_packet_to_send_to_client of a record.                           *)
LEMMA RecordDequeued ==
    ASSUME NEW S, NEW st, NEW r, NEW t, NEW u, NEW x, NEW b, b = Record(S, st, r, t, u, x),
           NEW s
    PROVE  Dequeued(b, s) = Record(S, st, r, [t EXCEPT ![s] = Tail(t[s])], u, x)
<1>1. PICK t2 : t2 = [t EXCEPT ![s] = Tail(t[s])]
  OBVIOUS
<1>2. b.tx = t
  BY RecordFields
<1>3. Dequeued(b, s) = [b EXCEPT !.tx = t2]
  BY <1>1, <1>2 DEF Dequeued
<1>4. Dequeued(b, s) = Record(S, st, r, t2, u, x)
  BY <1>3 DEF Record
<1> QED BY <1>1, <1>4

(* queue_packet_received_from_client of a record that has room.            *)
LEMMA RecordQueued ==
    ASSUME NEW S, NEW st, NEW r, NEW t, NEW u, NEW x, NEW b, b = Record(S, st, r, t, u, x),
           NEW s, NEW p, Atomic!QueueResult(b, s, r) = "Ok"
    PROVE  Atomic!QueueReceived(b, s, p) =
             Record(S, st, [r EXCEPT ![s] = Append(r[s], p)], t, u, "Ok")
<1>1. b.rx = r
  BY RecordFields
<1>2. PICK r2 : r2 = [r EXCEPT ![s] = Append(r[s], p)]
  OBVIOUS
<1>3. Atomic!QueueReceived(b, s, p) = [b EXCEPT !.rx[s] = Append(@, p), !.result = "Ok"]
  BY <1>1 DEF Atomic!QueueReceived
<1>4. Atomic!QueueReceived(b, s, p) = [b EXCEPT !.rx = r2, !.result = "Ok"]
  BY <1>1, <1>2, <1>3
<1>5. Atomic!QueueReceived(b, s, p) = Record(S, st, r2, t, u, "Ok")
  BY <1>4 DEF Record
<1> QED BY <1>2, <1>5

(* And of one that has not: only the result changes.                       *)
LEMMA RecordRefused ==
    ASSUME NEW S, NEW st, NEW r, NEW t, NEW u, NEW x, NEW b, b = Record(S, st, r, t, u, x),
           NEW s, NEW p, Atomic!QueueResult(b, s, r) # "Ok"
    PROVE  \E y : Atomic!QueueReceived(b, s, p) = Record(S, st, r, t, u, y)
<1>1. b.rx = r
  BY RecordFields
<1>2. PICK y : y = Atomic!QueueResult(b, s, r)
  OBVIOUS
<1>3. Atomic!QueueReceived(b, s, p) = [b EXCEPT !.result = y]
  BY <1>1, <1>2 DEF Atomic!QueueReceived
<1>4. Atomic!QueueReceived(b, s, p) = Record(S, st, r, t, u, y)
  BY <1>3, RecordFields
<1> QED BY <1>4

(* register_new_session: an absent session has no queues to empty.         *)
LEMMA RegisterAgrees ==
    ASSUME RegistryInv, OneTopicForAll, ReceiveQueuesDrain, AbsentSendNothing,
           NEW s \in SessionIds, NEW ka \in KeepAlives, NEW t \in Times,
           RegisterNewSession(s, ka, t), NEW b, b = Now(result), NEW r, r = Now(result)'
    PROVE  /\ s \notin Atomic!Range(b.sessions)
           /\ r = [Atomic!RegisterNewSession(b, s) EXCEPT !.result = b.result]
<1>1. /\ sessions' = Append(sessions, s) /\ state' = [state EXCEPT ![s] = "Connecting"]
      /\ rx' = [rx EXCEPT ![s] = <<>>] /\ tx' = [tx EXCEPT ![s] = <<>>]
      /\ TheSubscribers' = TheSubscribers /\ result' = result
      /\ s \notin Registered /\ Len(sessions) < MAX_SESSIONS
  BY DEF RegisterNewSession, topic_registry, control, TheSubscribers
<1>2. rx' = rx /\ tx' = tx
  <2>1. rx[s] = <<>> /\ tx[s] = <<>>
    BY <1>1 DEF ReceiveQueuesDrain, AbsentSendNothing
  <2> QED BY <1>1, <2>1 DEF RegistryInv, TypeOK
<1>3. b = Record(sessions, state, rx, tx, TheSubscribers, result) /\ b.sessions = sessions
  BY RecordFields DEF Now
<1>4. r = Record(Append(sessions, s), [state EXCEPT ![s] = "Connecting"], rx, tx,
                 TheSubscribers, result)
  BY <1>1, <1>2 DEF Now
<1>5. s \notin Atomic!Range(sessions)
  BY <1>1 DEF Registered, Atomic!Range, Range
<1>6. ~(Len(sessions) >= MAX_SESSIONS)
  <2>1. sessions \in Seq(SessionIds)
    BY DEF RegistryInv, TypeOK
  <2>2. Len(sessions) \in Nat
    BY <2>1, LenProperties
  <2> QED BY <1>1, <2>2, LimitsAssumption
<1> HIDE DEF TheSubscribers
<1>7. [Atomic!RegisterNewSession(b, s) EXCEPT !.result = b.result] = r
  BY <1>3, <1>4, <1>6, RecordRegistered
<1> QED BY <1>3, <1>5, <1>7

(* remove_session.                                                         *)
LEMMA RemoveAgrees ==
    ASSUME OneTopicForAll, NEW s \in SessionIds, RemoveSession(s),
           NEW b, b = Now(result), NEW r, r = Now(result)'
    PROVE  r = [Atomic!RemoveSession(b, s) EXCEPT !.result = b.result]
<1>1. TheFilter \in Filters
  BY DEF OneTopicForAll, TheFilter
<1>2. /\ sessions' = RemoveElement(sessions, s) /\ state' = [state EXCEPT ![s] = "Connecting"]
      /\ rx' = [rx EXCEPT ![s] = <<>>] /\ tx' = [tx EXCEPT ![s] = <<>>]
      /\ TheSubscribers' = RemoveElement(TheSubscribers, s) /\ result' = result
  BY <1>1 DEF RemoveSession, UnregisterAll, remove_subscriber, control, TheSubscribers
<1>3. b = Record(sessions, state, rx, tx, TheSubscribers, result)
  BY DEF Now
<1>4. r = Record(RemoveElement(sessions, s), [state EXCEPT ![s] = "Connecting"],
                 [rx EXCEPT ![s] = <<>>], [tx EXCEPT ![s] = <<>>],
                 RemoveElement(TheSubscribers, s), result)
  BY <1>2 DEF Now
<1> QED BY <1>3, <1>4, RecordRemoved

(* mark_session_disconnected.                                              *)
LEMMA MarkAgrees ==
    ASSUME NEW s \in SessionIds, MarkSessionDisconnected(s),
           NEW b, b = Now(result), NEW r, r = Now(result)'
    PROVE  r = [Atomic!MarkSessionDisconnected(b, s) EXCEPT !.result = b.result]
<1>1. /\ state' = [state EXCEPT ![s] = "Disconnected"] /\ s \in Registered
      /\ UNCHANGED <<sessions, rx, tx, result>> /\ TheSubscribers' = TheSubscribers
  BY DEF MarkSessionDisconnected, topic_registry, control, TheSubscribers
<1>2. b = Record(sessions, state, rx, tx, TheSubscribers, result) /\ b.sessions = sessions
  BY RecordFields DEF Now
<1>3. r = Record(sessions, [state EXCEPT ![s] = "Disconnected"], rx, tx, TheSubscribers, result)
  BY <1>1 DEF Now
<1>4. s \in Atomic!Range(sessions)
  BY <1>1 DEF Registered, Atomic!Range, Range
<1>5. Atomic!MarkSessionDisconnected(b, s) = [b EXCEPT !.state[s] = "Disconnected"]
  BY <1>2, <1>4 DEF Atomic!MarkSessionDisconnected
<1>6. Atomic!MarkSessionDisconnected(b, s) = r
  BY <1>2, <1>3, <1>5 DEF Record
<1>7. [r EXCEPT !.result = b.result] = r
  BY <1>2, <1>3 DEF Record
<1> QED BY <1>6, <1>7

(* dequeue_packet_to_send_to_client.                                       *)
LEMMA DequeueAgrees ==
    ASSUME NEW s \in SessionIds, DequeuePacketToSendToClient(s),
           NEW b, b = Now(result), NEW r, r = Now(result)'
    PROVE  b.tx[s] # <<>> /\ r = WithResult(Dequeued(b, s), b.result)
<1>1. /\ tx' = [tx EXCEPT ![s] = Tail(tx[s])] /\ tx[s] # <<>>
      /\ UNCHANGED <<sessions, state, rx, result>> /\ TheSubscribers' = TheSubscribers
  BY DEF DequeuePacketToSendToClient, dequeue_front, registry, topic_registry, control,
         TheSubscribers
<1>2. b = Record(sessions, state, rx, tx, TheSubscribers, result) /\ b.tx = tx
      /\ b.result = result
  BY RecordFields DEF Now
<1>3. r = Record(sessions, state, rx, [tx EXCEPT ![s] = Tail(tx[s])], TheSubscribers, result)
  BY <1>1 DEF Now
<1>4. Dequeued(b, s) = r
  BY <1>2, <1>3, RecordDequeued
<1>5. WithResult(r, result) = r
  BY <1>3, RecordResult
<1> QED BY <1>1, <1>2, <1>4, <1>5

(* queue_packet_received_from_client.                                      *)
LEMMA ReceiveAgrees ==
    ASSUME RegistryInv, NEW s \in SessionIds, NEW p, NEW t, QueuePacketReceivedFromClient(s, p, t),
           NEW b, b = Now(result), NEW r, r = Now(result)'
    PROVE  r = WithResult(Atomic!QueueReceived(b, s, p), b.result)
<1>1. /\ rx' = IF QueueResult(s, rx) = "Ok" THEN [rx EXCEPT ![s] = Append(rx[s], p)] ELSE rx
      /\ UNCHANGED <<sessions, state, tx, result>> /\ TheSubscribers' = TheSubscribers
  BY DEF QueuePacketReceivedFromClient, topic_registry, control, TheSubscribers
<1>2. b = Record(sessions, state, rx, tx, TheSubscribers, result) /\ b.sessions = sessions
      /\ b.rx = rx /\ b.result = result
  BY RecordFields DEF Now
<1>3. r = Record(sessions, state, rx', tx, TheSubscribers, result)
  BY <1>1 DEF Now
<1>4. Atomic!QueueResult(b, s, rx) = QueueResult(s, rx)
  <2>1. Atomic!Range(sessions) = Range(sessions)
    BY DEF Atomic!Range, Range
  <2> QED BY <1>2, <2>1 DEF Atomic!QueueResult, QueueResult, Registered
<1>5. \E y : Atomic!QueueReceived(b, s, p) = Record(sessions, state, rx', tx, TheSubscribers, y)
  <2>1. CASE QueueResult(s, rx) = "Ok"
    <3>1. rx' = [rx EXCEPT ![s] = Append(rx[s], p)]
      BY <1>1, <2>1
    <3>2. Atomic!QueueReceived(b, s, p) =
            Record(sessions, state, [rx EXCEPT ![s] = Append(rx[s], p)], tx, TheSubscribers, "Ok")
      BY <1>2, <1>4, <2>1, RecordQueued
    <3> QED BY <3>1, <3>2
  <2>2. CASE QueueResult(s, rx) # "Ok"
    <3>1. rx' = rx
      BY <1>1, <2>2
    <3>2. PICK S, st, q, z, u, x : /\ S = sessions /\ st = state /\ q = rx /\ z = tx
                                   /\ u = TheSubscribers /\ x = result
      OBVIOUS
    <3>3. b = Record(S, st, q, z, u, x) /\ Atomic!QueueResult(b, s, q) # "Ok"
      BY <1>2, <1>4, <2>2, <3>2
    <3>4. \E y : Atomic!QueueReceived(b, s, p) = Record(S, st, q, z, u, y)
      BY <3>3, RecordRefused
    <3> QED BY <3>1, <3>2, <3>4
  <2> QED BY <2>1, <2>2
<1>6. WithResult(Atomic!QueueReceived(b, s, p), result) = r
  BY <1>3, <1>5, RecordResult
<1> QED BY <1>2, <1>6

(* What clients send.                                                      *)
LEMMA SentPacket ==
    ASSUME RegistryInv, NEW s \in SessionIds, NEW t \in Times, Receive(s, t)
    PROVE  \E p \in SentPackets : QueuePacketReceivedFromClient(s, p, t)
<1>1. \A ka \in KeepAlives : [type |-> "connect", keep_alive |-> ka] \in SentPackets
  BY DEF SentPackets
<1>2. \A f \in Filters : [type |-> "subscribe", filter |-> f] \in SentPackets
  BY DEF SentPackets
<1>3. ASSUME NEW n \in Topics, NEW q \in QoSLevels, NEW p,
             p = [type |-> "publish", topic |-> n, qos |-> q, from |-> s,
                  seq |-> published[s] + 1],
             QueuePacketReceivedFromClient(s, p, t)
      PROVE  p \in SentPackets
  <2>1. published[s] \in Nat /\ published[s] < MaxPublish /\ MaxPublish \in Nat
    BY <1>3, LimitsAssumption
       DEF RegistryInv, TypeOK, QueuePacketReceivedFromClient, Sendable
  <2>2. published[s] + 1 \in 1..MaxPublish
    BY <2>1
  <2> QED BY <1>3, <2>2 DEF SentPackets
<1>4. \A type \in {"pingreq", "disconnect", "ignored"} : [type |-> type] \in SentPackets
  BY DEF SentPackets
<1> QED BY <1>1, <1>2, <1>3, <1>4 DEF Receive

(* A call other than process_all_session_packets.                          *)
LEMMA CallAgrees ==
    ASSUME RegistryInv, OneTopicForAll, ReceiveQueuesDrain, AbsentSendNothing,
           NEW s \in SessionIds, Call(s) \/ \E t \in Times : Receive(s, t),
           before = Now(result), before' = Now(result)'
    PROVE  Atomic!Next
<1>1. PICK b, r : b = before /\ r = before'
  OBVIOUS
<1>2. b = Now(result) /\ r = Now(result)'
  BY <1>1
<1>3. ASSUME NEW ka \in KeepAlives, NEW t \in Times, RegisterNewSession(s, ka, t)
      PROVE  Atomic!Next
  <2>1. /\ s \notin Atomic!Range(b.sessions)
        /\ r = [Atomic!RegisterNewSession(b, s) EXCEPT !.result = b.result]
    BY <1>2, <1>3, RegisterAgrees
  <2> QED BY <1>1, <2>1 DEF Atomic!Next, Atomic!Call
<1>4. CASE RemoveSession(s)
  <2>1. r = [Atomic!RemoveSession(b, s) EXCEPT !.result = b.result]
    BY <1>2, <1>4, RemoveAgrees
  <2> QED BY <1>1, <2>1 DEF Atomic!Next, Atomic!Call
<1>5. CASE MarkSessionDisconnected(s)
  <2>1. r = [Atomic!MarkSessionDisconnected(b, s) EXCEPT !.result = b.result]
    BY <1>2, <1>5, MarkAgrees
  <2> QED BY <1>1, <2>1 DEF Atomic!Next, Atomic!Call
<1>6. CASE DequeuePacketToSendToClient(s)
  <2>1. b.tx[s] # <<>> /\ r = [[b EXCEPT !.tx[s] = Tail(@)] EXCEPT !.result = b.result]
    BY <1>2, <1>6, DequeueAgrees DEF WithResult, Dequeued
  <2> QED BY <1>1, <2>1 DEF Atomic!Next, Atomic!Call
<1>7. ASSUME NEW t \in Times, Receive(s, t) PROVE Atomic!Next
  <2>1. PICK p \in SentPackets : QueuePacketReceivedFromClient(s, p, t)
    BY <1>7, SentPacket
  <2>2. r = [Atomic!QueueReceived(b, s, p) EXCEPT !.result = b.result]
    BY <1>2, <2>1, ReceiveAgrees DEF WithResult
  <2>3. \E q \in SentPackets : Atomic!Call(Atomic!QueueReceived(before, s, q))
    BY <1>1, <2>1, <2>2 DEF Atomic!Call
  <2> QED BY <2>3 DEF Atomic!Next
<1> QED BY <1>3, <1>4, <1>5, <1>6, <1>7 DEF Call
-----------------------------------------------------------------------------
(* The rounds of Broker are steps of the abstract broker. *)

(* Before a round the history variable is the current state, and during one*)
(* the state the round began with.                                         *)
RoundPoint ==
    /\ pc = "idle" => before = Now(result)
    /\ pc # "idle" => before \in Brokers /\ before.sessions = sessions /\ Point(before)

(* The history variable holds the record of the current state.             *)
LEMMA AsRecordIsNow == AsRecord = Now(result) /\ AsRecord' = Now(result)'
  BY DEF AsRecord, Now, Record, TheSubscribers, TheFilter

(* No call is being made at first.                                         *)
LEMMA RoundPointInit ==
    ASSUME OneTopicForAll
    PROVE  RoundInit => RoundPoint /\ Atomic!Init
<1> SUFFICES ASSUME RoundInit PROVE RoundPoint /\ Atomic!Init
  OBVIOUS
<1>1. TheFilter \in Filters
  BY DEF OneTopicForAll, TheFilter
<1>2. /\ pc = "idle" /\ before = Now(result) /\ result = "Ok" /\ sessions = <<>>
      /\ state = [s \in SessionIds |-> "Connecting"]
      /\ rx = [s \in SessionIds |-> <<>>] /\ tx = [s \in SessionIds |-> <<>>]
      /\ TheSubscribers = <<>>
  BY <1>1, AsRecordIsNow DEF RoundInit, Init, TheSubscribers
<1>3. before = Atomic!EmptyBroker(SessionIds)
  BY <1>2 DEF Now, Record, Atomic!EmptyBroker
<1> QED BY <1>2, <1>3 DEF RoundPoint, Atomic!Init

(* Its loops run only inside the call.                                     *)
LEMMA ProcessRuns ==
    ASSUME Process
    PROVE  pc # "idle"
  BY DEF Process, Done, NextSession, HandleConnect, HandlePingreq, HandleDisconnect,
         HandleIgnored, HandleSubscribe, HandlePublish, CollectSubscriber,
         CollectNextEntry, CollectDone, Deliver, PublishDone, Taking

(* process_all_session_packets starts.                                     *)
LEMMA RoundBegins ==
    ASSUME OneTopicForAll, RegistryInv, RoundPoint, Begin, before' = AsRecord
    PROVE  RoundPoint' /\ before' = before
<1>1. /\ pc = "idle" /\ pc' = "next" /\ todo' = sessions
      /\ UNCHANGED <<sessions, state, rx, tx, subscribers>>
  BY DEF Begin, registry, topic_registry
<1>2. before' = before /\ before = Now(result)
  BY <1>1, AsRecordIsNow DEF RoundPoint
<1>3. PICK b : b = before
  OBVIOUS
<1>4. b \in Brokers
  BY <1>2, <1>3, NowType DEF RegistryInv
<1>5. b.sessions = sessions
  BY <1>2, <1>3, RecordFields DEF Now
<1>6. Here' = 0
  <2>1. sessions \in Seq(SessionIds)
    BY DEF RegistryInv, TypeOK
  <2>2. Len(sessions) \in Nat
    BY <2>1, LenProperties
  <2> QED BY <1>1, <2>2 DEF Here
<1>7. Now("Ok")' = [b EXCEPT !.result = "Ok"]
  <2>1. Now("Ok")' = Now("Ok")
    BY <1>1 DEF Now, TheSubscribers
  <2>2. b = Record(sessions, state, rx, tx, TheSubscribers, result)
    BY <1>2, <1>3 DEF Now
  <2>3. [b EXCEPT !.result = "Ok"] = Record(sessions, state, rx, tx, TheSubscribers, "Ok")
    BY <2>2, RecordFields
  <2> QED BY <2>1, <2>3 DEF Now
<1>8. Progress(b, [b EXCEPT !.result = "Ok"], 0)
  BY <1>4, ProgressStarts
<1>9. Point(b)'
  BY <1>1, <1>6, <1>7, <1>8 DEF Point
<1>10. before' = b /\ sessions' = sessions
  BY <1>1, <1>2, <1>3
<1> QED BY <1>1, <1>2, <1>4, <1>5, <1>9, <1>10 DEF RoundPoint

(* A loop of it makes a step: the last one is the step of the abstract     *)
(* broker.                                                                 *)
LEMMA RoundGoesOn ==
    ASSUME OneTopicForAll, RegistryInv, RegistryInv', TodoIsRest, FoundIsPrefix, RoundPoint,
           Process, before' = IF pc' = "idle" THEN AsRecord' ELSE before
    PROVE  RoundPoint' /\ [Atomic!Next]_before
<1>1. pc # "idle" /\ UNCHANGED sessions
  BY ProcessFrame, ProcessRuns
<1>2. PICK b : b = before
  OBVIOUS
<1>3. b \in Brokers /\ b.sessions = sessions /\ Point(b)
  BY <1>1, <1>2 DEF RoundPoint
<1>4. Point(b)'
  BY <1>3, PointProcess
<1>5. CASE pc' = "idle"
  <2>1. before' = Now(result)'
    BY <1>5, AsRecordIsNow
  <2>2. Atomic!ProcessAll(b) = Now(result)'
    BY <1>4, <1>5 DEF Point
  <2>3. Atomic!Next
    BY <1>2, <2>1, <2>2 DEF Atomic!Next
  <2> QED BY <1>5, <2>1, <2>3 DEF RoundPoint
<1>6. CASE pc' # "idle"
  <2>1. before' = b
    BY <1>2, <1>6
  <2> QED BY <1>1, <1>2, <1>3, <1>4, <1>6, <2>1 DEF RoundPoint
<1> QED BY <1>5, <1>6

(* Every step.                                                             *)
LEMMA RoundPointNext ==
    ASSUME OneTopicForAll, RegistryInv, RegistryInv', ReceiveQueuesDrain, AbsentSendNothing,
           TodoIsRest, FoundIsPrefix, RoundPoint, [RoundNext]_<<vars, before>>
    PROVE  RoundPoint' /\ [Atomic!Next]_before
<1>1. CASE UNCHANGED <<vars, before>>
  <2>1. /\ UNCHANGED <<sessions, state, rx, tx, subscribers, topics, pc, todo, cur, found,
                       entry, idx, result, before>>
    BY <1>1 DEF vars, registry, topic_registry, control
  <2>2. TheSubscribers' = TheSubscribers /\ Here' = Here
    BY <2>1 DEF TheSubscribers, Here
  <2>3. \A x : Now(x)' = Now(x)
    BY <2>1, <2>2 DEF Now
  <2>4. CASE pc = "idle"
    BY <2>1, <2>2, <2>4 DEF RoundPoint, Now
  <2>5. CASE pc # "idle"
    <3>1. PICK b : b = before
      OBVIOUS
    <3>2. Point(b)'
      BY <2>1, <2>2, <2>5, <3>1 DEF RoundPoint, Point, Now
    <3> QED BY <2>1, <2>5, <3>1, <3>2 DEF RoundPoint
  <2> QED BY <2>1, <2>4, <2>5
<1>2. ASSUME RoundNext, Begin PROVE RoundPoint' /\ [Atomic!Next]_before
  <2>1. pc = "idle" /\ pc' = "next"
    BY <1>2 DEF Begin
  <2>2. before' = AsRecord
    BY <1>2, <2>1 DEF RoundNext
  <2> QED BY <1>2, <2>2, RoundBegins
<1>3. ASSUME RoundNext, Process PROVE RoundPoint' /\ [Atomic!Next]_before
  <2>1. pc # "idle"
    BY <1>3, ProcessRuns
  <2>2. before' = IF pc' = "idle" THEN AsRecord' ELSE before
    BY <1>3, <2>1 DEF RoundNext
  <2> QED BY <1>3, <2>2, RoundGoesOn
<1>4. ASSUME RoundNext, NEW s \in SessionIds, Call(s) \/ \E t \in Times : Receive(s, t)
      PROVE  RoundPoint' /\ [Atomic!Next]_before
  <2>1. pc = "idle" /\ pc' = "idle"
    BY <1>4, CallKeepsControl DEF control
  <2>2. before = Now(result) /\ before' = Now(result)'
    BY <1>4, <2>1, AsRecordIsNow DEF RoundNext, RoundPoint
  <2>3. Atomic!Next
    BY <1>4, <2>2, CallAgrees
  <2> QED BY <2>1, <2>2, <2>3 DEF RoundPoint
<1> QED BY <1>1, <1>2, <1>3, <1>4 DEF RoundNext, Next

(* With one filter that every topic matches, each call of the broker,      *)
(* process_all_session_packets with all its loops and early returns        *)
(* included, has the effect of one step of the broker the models of the    *)
(* servers are built on.                                                   *)
THEOREM RoundsAreAtomic ==
    ASSUME OneTopicForAll
    PROVE  RoundSpec => ImplementsAtomicBroker
<1> DEFINE Inv == /\ RegistryInv /\ WithinLimits /\ ReceiveQueuesDrain /\ AbsentSendNothing
                  /\ TodoIsRest /\ FoundIsPrefix /\ RoundPoint
<1>1. RoundInit => Inv /\ Atomic!Init
  <2>1. RoundInit => Init
    BY DEF RoundInit
  <2>2. Init => ReceiveQueuesDrain /\ AbsentSendNothing /\ TodoIsRest /\ FoundIsPrefix
    BY DEF Init, ReceiveQueuesDrain, AbsentSendNothing, TodoIsRest, FoundIsPrefix
  <2>3. Init => WithinLimits
    BY LimitsAssumption, EmptySeq DEF Init, WithinLimits
  <2> QED BY <2>1, <2>2, <2>3, RegistryInit, RoundPointInit
<1>2. Inv /\ [RoundNext]_<<vars, before>> => Inv' /\ [Atomic!Next]_before
  <2> SUFFICES ASSUME Inv, [RoundNext]_<<vars, before>> PROVE Inv' /\ [Atomic!Next]_before
    OBVIOUS
  <2>1. [Next]_vars
    BY DEF RoundNext
  <2>2. RegistryInv' /\ WithinLimits' /\ ReceiveQueuesDrain' /\ AbsentSendNothing'
        /\ TodoIsRest'
    BY <2>1, RegistryNext, LimitsNext, DrainNext, AbsentNext, RestNext
  <2>3. FoundIsPrefix'
    BY <2>1, PrefixNext
  <2>4. RoundPoint' /\ [Atomic!Next]_before
    BY <2>2, RoundPointNext
  <2> QED BY <2>2, <2>3, <2>4
<1> HIDE DEF Inv
<1> QED BY <1>1, <1>2, PTL DEF RoundSpec, ImplementsAtomicBroker, Atomic!Spec
=============================================================================
