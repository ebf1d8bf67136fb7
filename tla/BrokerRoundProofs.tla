------------------------- MODULE BrokerRoundProofs -------------------------
(***************************************************************************)
(* What a call of the broker, a whole round of processing included, does   *)
(* to the broker's record, for every value of the constants: the facts     *)
(* that the proofs about the two servers rest on.                          *)
(***************************************************************************)
EXTENDS BrokerRound, VectorProofs

-----------------------------------------------------------------------------
(* Brokers. *)

(* What the broker queues for its clients, when they send packets of P. *)
Replies(P) ==
    P \cup {[type |-> "puback", seq |-> p.seq] : p \in P}
      \cup [type : {"connack", "suback", "pingresp"}]

States == {"Connecting", "Connected", "Disconnected"}

Results == {"Ok", "MaxSessionsReached", "SessionNotFound", "SessionQueueFull",
            "MaxSubscribersPerTopicReached"}

Brokers(ids, P) ==
    [sessions : Seq(ids), state : [ids -> States],
     rx : [ids -> Seq(P)], tx : [ids -> Seq(Replies(P))],
     subscribers : Seq(ids), result : Results]

(* The registries hold no id twice, subscribers are sessions, and no queue *)
(* holds more than its capacity.                                           *)
Consistent(b, ids) ==
    /\ IsInjective(b.sessions) /\ IsInjective(b.subscribers)
    /\ Range(b.subscribers) \subseteq Range(b.sessions)
    /\ \A s \in ids : Len(b.rx[s]) <= QUEUE_SIZE /\ Len(b.tx[s]) <= QUEUE_SIZE

(* Session s has nothing queued and is subscribed to nothing. *)
Quiet(b, s) == b.rx[s] = <<>> /\ b.tx[s] = <<>> /\ s \notin Range(b.subscribers)

(* Brokers with the sessions S, those of Q being quiet. *)
Reach(ids, P, S, Q) ==
    {b \in Brokers(ids, P) :
        Consistent(b, ids) /\ b.sessions = S /\ \A s \in Q : Quiet(b, s)}

-----------------------------------------------------------------------------
(* Single calls. *)

(* Only the state or the result of a broker changes.                       *)
LEMMA StateReach ==
    ASSUME NEW ids, NEW P, NEW S, NEW Q, NEW b \in Reach(ids, P, S, Q)
    PROVE  /\ \A s \in ids, v \in States : [b EXCEPT !.state[s] = v] \in Reach(ids, P, S, Q)
           /\ \A v \in Results : [b EXCEPT !.result = v] \in Reach(ids, P, S, Q)
  BY DEF Reach, Brokers, Consistent, Quiet

(* queue_rx_packet and queue_tx_packet return Ok or one of two errors.      *)
LEMMA QueueResultOk ==
    ASSUME NEW b, NEW s, NEW q
    PROVE  QueueResult(b, s, q) \in Results
  BY Zenon DEF QueueResult, Results

(* queue_tx_packet keeps the registries, and the silence of others.        *)
LEMMA QueueTxReach ==
    ASSUME NEW ids, NEW P, NEW S, NEW Q, NEW b \in Reach(ids, P, S, Q),
           NEW s \in ids, s \notin Q, NEW m \in Replies(P)
    PROVE  QueueTx(b, s, m) \in Reach(ids, P, S, Q)
<1> USE RoundAssumption
<1>1. b \in Brokers(ids, P) /\ Consistent(b, ids) /\ b.sessions = S /\ \A q \in Q : Quiet(b, q)
  BY DEF Reach
<1>2. b.tx[s] \in Seq(Replies(P)) /\ Len(b.tx[s]) \in Nat
  BY <1>1 DEF Brokers
<1>3. /\ Append(b.tx[s], m) \in Seq(Replies(P)) /\ Len(Append(b.tx[s], m)) = Len(b.tx[s]) + 1
  BY <1>2, AppendProperties
<1>4. CASE QueueTx(b, s, m) = b
  BY <1>4
<1>5. CASE \E r \in Results : QueueTx(b, s, m) = [b EXCEPT !.result = r]
  BY <1>1, <1>5 DEF Reach, Brokers, Consistent, Quiet
<1>6. CASE QueueTx(b, s, m) = [b EXCEPT !.tx[s] = Append(@, m)] /\ ~(Len(b.tx[s]) >= QUEUE_SIZE)
  <2> DEFINE c == [b EXCEPT !.tx[s] = Append(@, m)]
  <2>1. /\ c.sessions = b.sessions /\ c.subscribers = b.subscribers /\ c.rx = b.rx
        /\ c.tx = [b.tx EXCEPT ![s] = Append(@, m)]
    BY <1>1 DEF Brokers
  <2>2. c \in Brokers(ids, P)
    BY <1>1, <1>3 DEF Brokers
  <2> HIDE DEF c
  <2>3. b.tx \in [ids -> Seq(Replies(P))]
    BY <1>1 DEF Brokers
  <2>4. Len(c.tx[s]) <= QUEUE_SIZE /\ \A q \in ids : q # s => c.tx[q] = b.tx[q]
    BY <1>2, <1>3, <1>6, <2>1, <2>3
  <2>5. Consistent(c, ids)
    BY <1>1, <2>1, <2>4 DEF Consistent
  <2>6. ASSUME NEW q \in Q PROVE Quiet(c, q)
    <3>1. c.tx[q] = b.tx[q]
      BY <2>1, <2>3
    <3> QED BY <1>1, <2>1, <3>1 DEF Quiet
  <2>7. c \in Reach(ids, P, S, Q)
    BY <1>1, <2>1, <2>2, <2>5, <2>6 DEF Reach
  <2> QED BY <1>6, <2>7 DEF c
<1>7. CASE b.result # "Ok"
  BY <1>4, <1>7 DEF QueueTx
<1>8. CASE b.result = "Ok" /\ QueueResult(b, s, b.tx) # "Ok"
  <2>1. QueueResult(b, s, b.tx) \in Results
    BY QueueResultOk
  <2>2. QueueTx(b, s, m) = [b EXCEPT !.result = QueueResult(b, s, b.tx)]
    BY <1>8 DEF QueueTx
  <2> QED BY <1>5, <2>1, <2>2
<1>9. CASE b.result = "Ok" /\ QueueResult(b, s, b.tx) = "Ok"
  <2>1. ~(Len(b.tx[s]) >= QUEUE_SIZE)
    BY <1>9 DEF QueueResult
  <2>2. QueueTx(b, s, m) = [b EXCEPT !.tx[s] = Append(@, m)]
    BY <1>9 DEF QueueTx
  <2> QED BY <1>6, <2>1, <2>2
<1> QED BY <1>7, <1>8, <1>9

(* TopicRegistry::subscribe adds a session once, or nothing.               *)
LEMMA SubscribeReach ==
    ASSUME NEW ids, NEW P, NEW S, NEW Q, NEW b \in Reach(ids, P, S, Q),
           NEW s \in ids, s \in Range(S), s \notin Q
    PROVE  Subscribe(b, s) \in Reach(ids, P, S, Q)
<1> USE RoundAssumption
<1>1. b \in Brokers(ids, P) /\ Consistent(b, ids) /\ b.sessions = S /\ \A q \in Q : Quiet(b, q)
  BY DEF Reach
<1>2. CASE s \in Range(b.subscribers)
  BY <1>2 DEF Subscribe
<1>3. CASE s \notin Range(b.subscribers) /\ Len(b.subscribers) < MAX_SUBSCRIBERS_PER_TOPIC
  <2> DEFINE c == [b EXCEPT !.subscribers = Append(b.subscribers, s)]
  <2>1. b.subscribers \in Seq(ids) /\ IsInjective(b.subscribers)
    BY <1>1 DEF Brokers, Consistent
  <2>2. /\ Append(b.subscribers, s) \in Seq(ids)
        /\ Range(Append(b.subscribers, s)) = Range(b.subscribers) \cup {s}
        /\ IsInjective(Append(b.subscribers, s))
    BY <1>3, <2>1, AppendElement
  <2>3. c \in Brokers(ids, P)
    BY <1>1, <2>2 DEF Brokers
  <2>4. /\ c.sessions = b.sessions /\ c.rx = b.rx /\ c.tx = b.tx
        /\ c.subscribers = Append(b.subscribers, s)
    BY <1>1 DEF Brokers
  <2>5. Subscribe(b, s) = c
    BY <1>3 DEF Subscribe
  <2> HIDE DEF c
  <2>6. Consistent(c, ids)
    BY <1>1, <2>2, <2>4 DEF Consistent
  <2>7. \A q \in Q : Quiet(c, q)
    BY <1>1, <2>2, <2>4 DEF Quiet
  <2> QED BY <1>1, <2>3, <2>4, <2>5, <2>6, <2>7 DEF Reach
<1>4. CASE s \notin Range(b.subscribers) /\ ~(Len(b.subscribers) < MAX_SUBSCRIBERS_PER_TOPIC)
  <2>1. Subscribe(b, s) = [b EXCEPT !.result = "MaxSubscribersPerTopicReached"]
    BY <1>4 DEF Subscribe
  <2>2. "MaxSubscribersPerTopicReached" \in Results
    BY DEF Results
  <2> QED BY <2>1, <2>2, StateReach
<1> QED BY <1>2, <1>3, <1>4

(* dequeue_rx_packet takes the oldest packet.                              *)
LEMMA DequeueReach ==
    ASSUME NEW ids, NEW P, NEW S, NEW Q, NEW b \in Reach(ids, P, S, Q),
           NEW s \in ids, b.rx[s] # <<>>
    PROVE  /\ Head(b.rx[s]) \in P /\ s \notin Q
           /\ [b EXCEPT !.rx[s] = Tail(@)] \in Reach(ids, P, S, Q)
<1> USE RoundAssumption
<1>1. b \in Brokers(ids, P) /\ Consistent(b, ids) /\ b.sessions = S /\ \A q \in Q : Quiet(b, q)
  BY DEF Reach
<1>2. b.rx \in [ids -> Seq(P)] /\ b.rx[s] \in Seq(P)
  BY <1>1 DEF Brokers
<1>3. /\ Head(b.rx[s]) \in P /\ Tail(b.rx[s]) \in Seq(P)
      /\ Len(Tail(b.rx[s])) = Len(b.rx[s]) - 1 /\ Len(b.rx[s]) \in Nat
  BY <1>2, TailElements, LenProperties
<1>4. s \notin Q
  BY <1>1 DEF Quiet
<1> DEFINE c == [b EXCEPT !.rx[s] = Tail(@)]
<1>5. c \in Brokers(ids, P)
  BY <1>1, <1>3 DEF Brokers
<1>6. /\ c.sessions = b.sessions /\ c.subscribers = b.subscribers /\ c.tx = b.tx
      /\ c.rx = [b.rx EXCEPT ![s] = Tail(@)]
  BY <1>1 DEF Brokers
<1> HIDE DEF c
<1>7. \A q \in ids : c.rx[q] = IF q = s THEN Tail(b.rx[s]) ELSE b.rx[q]
  BY <1>2, <1>6
<1>8. Consistent(c, ids)
  <2>1. \A q \in ids : Len(c.rx[q]) <= QUEUE_SIZE
    <3> SUFFICES ASSUME NEW q \in ids PROVE Len(c.rx[q]) <= QUEUE_SIZE
      OBVIOUS
    <3>1. Len(b.rx[q]) <= QUEUE_SIZE /\ Len(b.rx[s]) <= QUEUE_SIZE
      BY <1>1 DEF Consistent
    <3>2. Len(b.rx[s]) - 1 <= QUEUE_SIZE
      BY <1>3, <3>1
    <3> QED BY <1>3, <1>7, <3>1, <3>2
  <2> QED BY <1>1, <1>6, <2>1 DEF Consistent
<1>9. ASSUME NEW q \in Q PROVE Quiet(c, q)
  <2>1. c.rx[q] = b.rx[q]
    BY <1>2, <1>4, <1>6
  <2> QED BY <1>1, <1>6, <2>1 DEF Quiet
<1> QED BY <1>1, <1>3, <1>4, <1>5, <1>6, <1>8, <1>9 DEF Reach, c

(* queue_packet_received_from_client puts at most one packet into a queue. *)
LEMMA QueueReceivedReach ==
    ASSUME NEW ids, NEW P, NEW S, NEW Q, NEW b \in Reach(ids, P, S, Q),
           NEW s \in ids, s \notin Q, NEW p \in P
    PROVE  QueueReceived(b, s, p) \in Reach(ids, P, S, Q)
<1> USE RoundAssumption
<1>1. b \in Brokers(ids, P) /\ Consistent(b, ids) /\ b.sessions = S /\ \A q \in Q : Quiet(b, q)
  BY DEF Reach
<1>2. CASE QueueResult(b, s, b.rx) # "Ok"
  <2>1. QueueReceived(b, s, p) = [b EXCEPT !.result = QueueResult(b, s, b.rx)]
    BY <1>2 DEF QueueReceived
  <2>2. QueueResult(b, s, b.rx) \in Results
    BY QueueResultOk
  <2>3. \A v \in Results : [b EXCEPT !.result = v] \in Reach(ids, P, S, Q)
    BY StateReach
  <2> QED BY <2>1, <2>2, <2>3
<1>3. CASE QueueResult(b, s, b.rx) = "Ok"
  <2> DEFINE c == [b EXCEPT !.rx = [b.rx EXCEPT ![s] = Append(b.rx[s], p)], !.result = "Ok"]
  <2>1. b.rx \in [ids -> Seq(P)] /\ b.rx[s] \in Seq(P) /\ Len(b.rx[s]) \in Nat
    BY <1>1 DEF Brokers
  <2>2. Append(b.rx[s], p) \in Seq(P) /\ Len(Append(b.rx[s], p)) = Len(b.rx[s]) + 1
    BY <2>1, AppendProperties
  <2>3. c \in Brokers(ids, P)
    <3>1. "Ok" \in Results /\ [b.rx EXCEPT ![s] = Append(b.rx[s], p)] \in [ids -> Seq(P)]
      BY <2>1, <2>2 DEF Results
    <3> QED BY <1>1, <3>1 DEF Brokers
  <2>4. /\ c.sessions = b.sessions /\ c.subscribers = b.subscribers /\ c.tx = b.tx
        /\ c.rx = [b.rx EXCEPT ![s] = Append(@, p)]
    BY <1>1 DEF Brokers
  <2>5. QueueReceived(b, s, p) = c
    BY <1>3 DEF QueueReceived
  <2> HIDE DEF c
  <2>6. \A q \in ids : c.rx[q] = IF q = s THEN Append(b.rx[s], p) ELSE b.rx[q]
    BY <2>1, <2>4
  <2>7. Consistent(c, ids)
    <3>1. ~(Len(b.rx[s]) >= QUEUE_SIZE)
      BY <1>3 DEF QueueResult
    <3>2. \A q \in ids : Len(c.rx[q]) <= QUEUE_SIZE
      <4> SUFFICES ASSUME NEW q \in ids PROVE Len(c.rx[q]) <= QUEUE_SIZE
        OBVIOUS
      <4>1. Len(b.rx[q]) <= QUEUE_SIZE
        BY <1>1 DEF Consistent
      <4>2. Len(b.rx[s]) + 1 <= QUEUE_SIZE
        BY <2>1, <3>1
      <4> QED BY <2>2, <2>6, <4>1, <4>2
    <3> QED BY <1>1, <2>4, <3>2 DEF Consistent
  <2>8. ASSUME NEW q \in Q PROVE Quiet(c, q)
    <3>1. c.rx[q] = b.rx[q]
      BY <2>1, <2>4
    <3> QED BY <1>1, <2>4, <3>1 DEF Quiet
  <2> QED BY <1>1, <2>3, <2>4, <2>5, <2>7, <2>8 DEF Reach
<1> QED BY <1>2, <1>3

-----------------------------------------------------------------------------
(* Loops. *)

(* The brokers, all in V, that the loop of handle_publish goes through. *)
DeliverSteps(to, b, p, V) ==
    /\ to[0] = b
    /\ \A n \in 1..Len(b.subscribers) : to[n] = QueueTx(to[n - 1], b.subscribers[n], p)
    /\ \A n \in 0..Len(b.subscribers) : to[n] \in V
    /\ Deliver(b, p) = to[Len(b.subscribers)]

(* The loop of handle_publish over the subscribers.                        *)
LEMMA DeliverRuns ==
    ASSUME NEW ids, NEW P, NEW S, NEW Q, NEW b \in Reach(ids, P, S, Q), NEW p \in P
    PROVE  \E to : DeliverSteps(to, b, p, Reach(ids, P, S, Q))
<1> DEFINE V == Reach(ids, P, S, Q)
           N == Len(b.subscribers)
           F == [x \in V \X (1..N) |-> QueueTx(x[1], b.subscribers[x[2]], p)]
           Step(f) == [n \in 0..N |->
                         IF n = 0 THEN b ELSE QueueTx(f[n - 1], b.subscribers[n], p)]
           to == CHOOSE f : f = Step(f)
<1>1. b.subscribers \in Seq(ids) /\ \A q \in Q : q \notin Range(b.subscribers)
  BY DEF Reach, Brokers, Quiet
<1>2. N \in Nat
  BY <1>1, LenProperties
<1>3. p \in Replies(P)
  BY DEF Replies
<1>4. ASSUME NEW v \in V, NEW n \in 1..N
      PROVE  QueueTx(v, b.subscribers[n], p) \in V
  <2>1. b.subscribers[n] \in ids /\ b.subscribers[n] \in Range(b.subscribers)
    BY <1>1 DEF Range
  <2>2. b.subscribers[n] \notin Q
    BY <1>1, <2>1
  <2> QED BY <1>3, <2>1, <2>2, QueueTxReach
<1>5. Deliver(b, p) = to[N]
  BY DEF Deliver
<1> HIDE DEF V, N
<1>6. PICK k : Iterates(k, V, N, b, F)
  <2>1. F \in [V \X (1..N) -> V]
    BY <1>4
  <2>2. b \in V
    BY DEF V
  <2> HIDE DEF F
  <2> QED BY <1>2, <2>1, <2>2, Iteration
<1>7. k \in [0..N -> V] /\ k[0] = b /\ \A n \in 1..N : k[n] = F[<<k[n - 1], n>>]
  BY <1>6 DEF Iterates
<1>8. ASSUME NEW n \in 1..N PROVE k[n] = QueueTx(k[n - 1], b.subscribers[n], p)
  <2>1. n - 1 \in 0..N
    BY <1>2
  <2>2. k[n - 1] \in V
    BY <1>7, <2>1
  <2> QED BY <1>7, <2>2
<1>9. k = Step(k)
  <2>1. ASSUME NEW n \in 0..N
        PROVE  k[n] = IF n = 0 THEN b ELSE QueueTx(k[n - 1], b.subscribers[n], p)
    <3>1. n # 0 => n \in 1..N
      BY <1>2
    <3> QED BY <1>7, <1>8, <3>1
  <2> QED BY <1>7, <2>1
<1>10. to = Step(to)
  BY <1>9
<1> HIDE DEF to
<1>11. to[0] = b /\ to[0] \in V
  BY <1>2, <1>10 DEF V
<1>12. ASSUME NEW n \in 1..N PROVE to[n] = QueueTx(to[n - 1], b.subscribers[n], p)
  <2>1. n \in 0..N /\ n # 0
    BY <1>2
  <2> QED BY <1>10, <2>1
<1> HIDE <1>10
<1>13. \A n \in 1..N : to[n - 1] \in V => to[n] \in V
  BY <1>4, <1>12
<1>14. \A n \in 0..N : to[n] \in V
  BY <1>2, <1>11, <1>13, LoopStays
<1> QED BY <1>5, <1>11, <1>12, <1>14 DEF DeliverSteps, N, V

(* After the loop over the subscribers the broker is as it was before it.  *)
LEMMA DeliverReach ==
    ASSUME NEW ids, NEW P, NEW S, NEW Q, NEW b \in Reach(ids, P, S, Q), NEW p \in P
    PROVE  Deliver(b, p) \in Reach(ids, P, S, Q)
<1>1. PICK to : DeliverSteps(to, b, p, Reach(ids, P, S, Q))
  BY DeliverRuns
<1>2. Len(b.subscribers) \in Nat
  <2>1. b.subscribers \in Seq(ids)
    BY DEF Reach, Brokers
  <2> QED BY <2>1, LenProperties
<1>3. Len(b.subscribers) \in 0..Len(b.subscribers)
  BY <1>2
<1> QED BY <1>1, <1>3 DEF DeliverSteps

(* One packet of one session: the whole of the match on the packet, every  *)
(* handler's answer included.                                              *)
LEMMA HandlePacketReach ==
    ASSUME NEW ids, NEW P, NEW S, NEW Q, NEW a \in Reach(ids, P, S, Q),
           NEW s \in ids, s \in Range(S), a.rx[s] # <<>>
    PROVE  HandlePacket(a, s) \in Reach(ids, P, S, Q)
<1> DEFINE V == Reach(ids, P, S, Q)
           p == Head(a.rx[s])
           b == [a EXCEPT !.rx[s] = Tail(@)]
<1>1. p \in P /\ s \notin Q /\ b \in V
  BY DequeueReach
<1>2. \A v \in V, m \in Replies(P) : QueueTx(v, s, m) \in V
  BY <1>1, QueueTxReach
<1>3. /\ [type |-> "puback", seq |-> p.seq] \in Replies(P)
      /\ [type |-> "connack"] \in Replies(P) /\ [type |-> "suback"] \in Replies(P)
      /\ [type |-> "pingresp"] \in Replies(P)
  BY <1>1 DEF Replies
<1>4. HandlePacket(a, s) =
        CASE p.type = "connect" -> HandleConnect(b, s)
          [] p.type = "pingreq" -> QueueTx(b, s, [type |-> "pingresp"])
          [] p.type = "subscribe" -> QueueTx(Subscribe(b, s), s, [type |-> "suback"])
          [] p.type = "disconnect" -> [b EXCEPT !.state[s] = "Disconnected"]
          [] p.type = "publish" -> HandlePublish(b, s, p)
          [] OTHER -> b
  BY DEF HandlePacket
<1> HIDE DEF p, b
<1>5. [b EXCEPT !.state[s] = "Connected"] \in V /\ [b EXCEPT !.state[s] = "Disconnected"] \in V
  <2>1. "Connected" \in States /\ "Disconnected" \in States
    BY DEF States
  <2> QED BY <1>1, <2>1, StateReach
<1>6. Subscribe(b, s) \in V
  BY <1>1, SubscribeReach
<1>7. Deliver(b, p) \in V
  BY <1>1, DeliverReach
<1> HIDE DEF V
<1>8. HandleConnect(b, s) \in V
  BY <1>2, <1>3, <1>5 DEF HandleConnect
<1>9. HandlePublish(b, s, p) \in V
  BY <1>2, <1>3, <1>7 DEF HandlePublish
<1>10. QueueTx(b, s, [type |-> "pingresp"]) \in V
  BY <1>1, <1>2, <1>3
<1>11. QueueTx(Subscribe(b, s), s, [type |-> "suback"]) \in V
  BY <1>2, <1>3, <1>6
<1>12. HandlePacket(a, s) \in V
  BY <1>1, <1>4, <1>5, <1>8, <1>9, <1>10, <1>11
<1> QED BY <1>12 DEF V

(* One turn of the while loop over a session's receive queue, and the      *)
(* brokers, all in V, that the loop goes through.                          *)
Turn(a, s) == IF a.result = "Ok" /\ a.rx[s] # <<>> THEN HandlePacket(a, s) ELSE a

DrainSteps(after, b, s, V) ==
    /\ after[0] = b
    /\ \A n \in 1..Len(b.rx[s]) : after[n] = Turn(after[n - 1], s)
    /\ \A n \in 0..Len(b.rx[s]) : after[n] \in V
    /\ Drain(b, s) = after[Len(b.rx[s])]

(* The while loop over one session's receive queue.                        *)
LEMMA DrainRuns ==
    ASSUME NEW ids, NEW P, NEW S, NEW Q, NEW b \in Reach(ids, P, S, Q),
           NEW s \in ids, s \in Range(S)
    PROVE  \E after : DrainSteps(after, b, s, Reach(ids, P, S, Q))
<1> DEFINE V == Reach(ids, P, S, Q)
           N == Len(b.rx[s])
           F == [x \in V \X (1..N) |-> Turn(x[1], s)]
           Step(f) == [n \in 0..N |-> IF n = 0 THEN b ELSE Turn(f[n - 1], s)]
           after == CHOOSE f : f = Step(f)
<1>1. N \in Nat
  <2>1. b.rx[s] \in Seq(P)
    BY DEF Reach, Brokers
  <2> QED BY <2>1, LenProperties
<1>2. ASSUME NEW v \in V PROVE Turn(v, s) \in V
  BY HandlePacketReach DEF Turn
<1>3. Drain(b, s) = after[N]
  BY DEF Drain, Turn
<1>4. b \in V
  OBVIOUS
<1> HIDE DEF V, N
<1>5. PICK k : Iterates(k, V, N, b, F)
  <2>1. F \in [V \X (1..N) -> V]
    BY <1>2
  <2> HIDE DEF F
  <2> QED BY <1>1, <1>4, <2>1, Iteration
<1>6. k \in [0..N -> V] /\ k[0] = b /\ \A n \in 1..N : k[n] = F[<<k[n - 1], n>>]
  BY <1>5 DEF Iterates
<1>7. ASSUME NEW n \in 1..N PROVE k[n] = Turn(k[n - 1], s)
  <2>1. n - 1 \in 0..N
    BY <1>1
  <2>2. k[n - 1] \in V
    BY <1>6, <2>1
  <2> QED BY <1>6, <2>2
<1>8. k = Step(k)
  <2>1. ASSUME NEW n \in 0..N PROVE k[n] = IF n = 0 THEN b ELSE Turn(k[n - 1], s)
    <3>1. n # 0 => n \in 1..N
      BY <1>1
    <3> QED BY <1>6, <1>7, <3>1
  <2> QED BY <1>6, <2>1
<1>9. after = Step(after)
  BY <1>8
<1> HIDE DEF after
<1>10. after[0] = b
  BY <1>1, <1>9
<1>11. ASSUME NEW n \in 1..N PROVE after[n] = Turn(after[n - 1], s)
  <2>1. n \in 0..N /\ n # 0
    BY <1>1
  <2> QED BY <1>9, <2>1
<1> HIDE <1>9
<1>12. \A n \in 1..N : after[n - 1] \in V => after[n] \in V
  BY <1>2, <1>11
<1>13. \A n \in 0..N : after[n] \in V
  BY <1>1, <1>4, <1>10, <1>12, LoopStays
<1> QED BY <1>3, <1>10, <1>11, <1>13 DEF DrainSteps, N, V

(* Emptying one session's receive queue, as far as it goes.                *)
LEMMA DrainReach ==
    ASSUME NEW ids, NEW P, NEW S, NEW Q, NEW b \in Reach(ids, P, S, Q),
           NEW s \in ids, s \in Range(S)
    PROVE  Drain(b, s) \in Reach(ids, P, S, Q)
<1>1. PICK after : DrainSteps(after, b, s, Reach(ids, P, S, Q))
  BY DrainRuns
<1>2. Len(b.rx[s]) \in Nat
  <2>1. b.rx[s] \in Seq(P)
    BY DEF Reach, Brokers
  <2> QED BY <2>1, LenProperties
<1>3. Len(b.rx[s]) \in 0..Len(b.rx[s])
  BY <1>2
<1> QED BY <1>1, <1>3 DEF DrainSteps

(* The brokers, all in V, between the sessions of a round. *)
ProcessSteps(after, b, V) ==
    /\ after[0] = [b EXCEPT !.result = "Ok"]
    /\ \A n \in 1..Len(b.sessions) : after[n] = Drain(after[n - 1], b.sessions[n])
    /\ \A n \in 0..Len(b.sessions) : after[n] \in V
    /\ ProcessAll(b) = after[Len(b.sessions)]

(* process_all_session_packets, over all of the sessions.                  *)
LEMMA ProcessAllRuns ==
    ASSUME NEW ids, NEW P, NEW S, NEW Q, NEW b \in Reach(ids, P, S, Q)
    PROVE  \E after : ProcessSteps(after, b, Reach(ids, P, S, Q))
<1> DEFINE V == Reach(ids, P, S, Q)
           N == Len(b.sessions)
           v0 == [b EXCEPT !.result = "Ok"]
           F == [x \in V \X (1..N) |-> Drain(x[1], b.sessions[x[2]])]
           Step(f) == [n \in 0..N |-> IF n = 0 THEN v0 ELSE Drain(f[n - 1], b.sessions[n])]
           after == CHOOSE f : f = Step(f)
<1>1. b.sessions \in Seq(ids) /\ b.sessions = S
  BY DEF Reach, Brokers
<1>2. N \in Nat
  BY <1>1, LenProperties
<1>3. ASSUME NEW v \in V, NEW n \in 1..N PROVE Drain(v, b.sessions[n]) \in V
  <2>1. b.sessions[n] \in ids /\ b.sessions[n] \in Range(S)
    BY <1>1 DEF Range
  <2> QED BY <2>1, DrainReach
<1>4. ProcessAll(b) = after[N]
  BY DEF ProcessAll
<1>5. v0 \in V
  <2>1. "Ok" \in Results
    BY DEF Results
  <2> QED BY <2>1, StateReach
<1> HIDE DEF V, N, v0
<1>6. PICK k : Iterates(k, V, N, v0, F)
  <2>1. F \in [V \X (1..N) -> V]
    BY <1>3
  <2> HIDE DEF F
  <2> QED BY <1>2, <1>5, <2>1, Iteration
<1>7. k \in [0..N -> V] /\ k[0] = v0 /\ \A n \in 1..N : k[n] = F[<<k[n - 1], n>>]
  BY <1>6 DEF Iterates
<1>8. ASSUME NEW n \in 1..N PROVE k[n] = Drain(k[n - 1], b.sessions[n])
  <2>1. n - 1 \in 0..N
    BY <1>2
  <2>2. k[n - 1] \in V
    BY <1>7, <2>1
  <2> QED BY <1>7, <2>2
<1>9. k = Step(k)
  <2>1. ASSUME NEW n \in 0..N
        PROVE  k[n] = IF n = 0 THEN v0 ELSE Drain(k[n - 1], b.sessions[n])
    <3>1. n # 0 => n \in 1..N
      BY <1>2
    <3> QED BY <1>7, <1>8, <3>1
  <2> QED BY <1>7, <2>1
<1>10. after = Step(after)
  BY <1>9
<1> HIDE DEF after
<1>11. after[0] = v0
  BY <1>2, <1>10
<1>12. ASSUME NEW n \in 1..N PROVE after[n] = Drain(after[n - 1], b.sessions[n])
  <2>1. n \in 0..N /\ n # 0
    BY <1>2
  <2> QED BY <1>10, <2>1
<1> HIDE <1>10
<1>13. \A n \in 1..N : after[n - 1] \in V => after[n] \in V
  BY <1>3, <1>12
<1>14. \A n \in 0..N : after[n] \in V
  BY <1>2, <1>5, <1>11, <1>13, LoopStays
<1> QED BY <1>4, <1>11, <1>12, <1>14 DEF ProcessSteps, N, V, v0

(* The whole of process_all_session_packets.                               *)
LEMMA ProcessAllReach ==
    ASSUME NEW ids, NEW P, NEW S, NEW Q, NEW b \in Reach(ids, P, S, Q)
    PROVE  ProcessAll(b) \in Reach(ids, P, S, Q)
<1>1. PICK after : ProcessSteps(after, b, Reach(ids, P, S, Q))
  BY ProcessAllRuns
<1>2. Len(b.sessions) \in Nat
  <2>1. b.sessions \in Seq(ids)
    BY DEF Reach, Brokers
  <2> QED BY <2>1, LenProperties
<1>3. Len(b.sessions) \in 0..Len(b.sessions)
  BY <1>2
<1> QED BY <1>1, <1>3 DEF ProcessSteps

(* What a handler does with a packet under the broker's lock: the sessions *)
(* stay, no queue overflows, and who was quiet (has not subscribed) is.    *)
LEMMA RoundReach ==
    ASSUME NEW ids, NEW P, NEW S, NEW Q, NEW b \in Reach(ids, P, S, Q),
           NEW s \in ids, s \notin Q, NEW p \in P
    PROVE  Round(b, s, p) \in Reach(ids, P, S, Q)
<1>1. QueueReceived(b, s, p) \in Reach(ids, P, S, Q)
  BY QueueReceivedReach
<1>2. ProcessAll(QueueReceived(b, s, p)) \in Reach(ids, P, S, Q)
  BY <1>1, ProcessAllReach
<1> QED BY <1>1, <1>2 DEF Round

-----------------------------------------------------------------------------
(* The calls of the servers, one lemma each. *)

Sound(b, ids, P) == b \in Brokers(ids, P) /\ Consistent(b, ids)

KeepsQuiet(b, r, ids) == \A q \in ids : Quiet(b, q) => Quiet(r, q)

(* PicoBroker::new.                                                        *)
LEMMA EmptyBrokerSound ==
    ASSUME NEW ids, NEW P
    PROVE  /\ Sound(EmptyBroker(ids), ids, P)
           /\ EmptyBroker(ids).sessions = <<>>
           /\ \A q \in ids : Quiet(EmptyBroker(ids), q)
<1> USE RoundAssumption
<1> DEFINE b == EmptyBroker(ids)
<1>1. /\ b.sessions = <<>> /\ b.subscribers = <<>>
      /\ b.rx = [s \in ids |-> <<>>] /\ b.tx = [s \in ids |-> <<>>]
  BY DEF EmptyBroker
<1>2. b \in Brokers(ids, P)
  <2>1. <<>> \in Seq(ids) /\ <<>> \in Seq(P) /\ <<>> \in Seq(Replies(P))
    OBVIOUS
  <2> QED BY <2>1 DEF EmptyBroker, Brokers, States, Results
<1> HIDE DEF b
<1>3. Range(<<>>) = {} /\ IsInjective(<<>>) /\ Len(<<>>) = 0
  BY DEF Range, IsInjective
<1>4. Consistent(b, ids)
  BY <1>1, <1>3 DEF Consistent
<1>5. \A q \in ids : Quiet(b, q)
  BY <1>1, <1>3 DEF Quiet
<1> QED BY <1>1, <1>2, <1>4, <1>5 DEF Sound, b

(* register_new_session: with room the new session is last, and otherwise  *)
(* nothing changes; no queue is touched.                                   *)
LEMMA RegisterSound ==
    ASSUME NEW ids, NEW P, NEW b, Sound(b, ids, P), NEW s \in ids, s \notin Range(b.sessions),
           NEW r, r = RegisterNewSession(b, s)
    PROVE  /\ Sound(r, ids, P)
           /\ r.rx = b.rx /\ r.tx = b.tx /\ r.subscribers = b.subscribers
           /\ r.result = "Ok" => Range(r.sessions) = Range(b.sessions) \cup {s}
           /\ r.result # "Ok" => r.sessions = b.sessions
           /\ r.result = "Ok" <=> Len(b.sessions) < MAX_SESSIONS
<1> USE RoundAssumption
<1>1. b \in Brokers(ids, P) /\ Consistent(b, ids)
  BY DEF Sound
<1>2. b.sessions \in Seq(ids) /\ IsInjective(b.sessions) /\ Len(b.sessions) \in Nat
  BY <1>1, LenProperties DEF Brokers, Consistent
<1>3. CASE Len(b.sessions) >= MAX_SESSIONS
  <2>1. r = [b EXCEPT !.result = "MaxSessionsReached"]
    BY <1>3 DEF RegisterNewSession
  <2>2. /\ r \in Brokers(ids, P) /\ r.sessions = b.sessions /\ r.rx = b.rx /\ r.tx = b.tx
        /\ r.subscribers = b.subscribers /\ r.result # "Ok"
    BY <1>1, <2>1 DEF Brokers, Results
  <2>3. Consistent(r, ids)
    BY <1>1, <2>2 DEF Consistent
  <2> QED BY <1>2, <1>3, <2>2, <2>3 DEF Sound
<1>4. CASE ~(Len(b.sessions) >= MAX_SESSIONS)
  <2> DEFINE ss == Append(b.sessions, s)
             st == [b.state EXCEPT ![s] = "Connecting"]
  <2>1. r = [b EXCEPT !.sessions = ss, !.state = st, !.result = "Ok"]
    BY <1>4 DEF RegisterNewSession
  <2>2. ss \in Seq(ids) /\ IsInjective(ss) /\ Range(ss) = Range(b.sessions) \cup {s}
    BY <1>2, AppendElement
  <2>5. st \in [ids -> States] /\ "Ok" \in Results
    BY <1>1 DEF Brokers, States, Results
  <2> HIDE DEF ss, st
  <2>3. /\ r \in Brokers(ids, P) /\ r.sessions = ss
        /\ r.rx = b.rx /\ r.tx = b.tx /\ r.subscribers = b.subscribers /\ r.result = "Ok"
    BY <1>1, <2>1, <2>2, <2>5 DEF Brokers
  <2>4. Consistent(r, ids)
    BY <1>1, <2>2, <2>3 DEF Consistent
  <2> QED BY <1>2, <1>4, <2>2, <2>3, <2>4 DEF Sound
<1> QED BY <1>3, <1>4

(* remove_session takes the session out of both registries, with its       *)
(* queues.                                                                 *)
LEMMA RemoveSound ==
    ASSUME NEW ids, NEW P, NEW b, Sound(b, ids, P), NEW s \in ids,
           NEW r, r = RemoveSession(b, s)
    PROVE  /\ Sound(r, ids, P)
           /\ Range(r.sessions) = Range(b.sessions) \ {s}
           /\ KeepsQuiet(b, r, ids)
           /\ \A q \in ids : q # s => r.tx[q] = b.tx[q]
<1> USE RoundAssumption
<1>1. b \in Brokers(ids, P) /\ Consistent(b, ids)
  BY DEF Sound
<1> DEFINE ss == RemoveElement(b.sessions, s)
           us == RemoveElement(b.subscribers, s)
           rx == [b.rx EXCEPT ![s] = <<>>]
           tx == [b.tx EXCEPT ![s] = <<>>]
           st == [b.state EXCEPT ![s] = "Connecting"]
<1>2. ss \in Seq(ids) /\ IsInjective(ss) /\ Range(ss) = Range(b.sessions) \ {s}
  BY <1>1, RemoveElementProperties DEF Brokers, Consistent
<1>3. us \in Seq(ids) /\ IsInjective(us) /\ Range(us) = Range(b.subscribers) \ {s}
  BY <1>1, RemoveElementProperties DEF Brokers, Consistent
<1>4. /\ rx \in [ids -> Seq(P)] /\ tx \in [ids -> Seq(Replies(P))] /\ st \in [ids -> States]
      /\ \A q \in ids : q # s => rx[q] = b.rx[q] /\ tx[q] = b.tx[q]
      /\ rx[s] = <<>> /\ tx[s] = <<>> /\ Len(<<>>) = 0
  BY <1>1 DEF Brokers, States
<1>5. r = [b EXCEPT !.sessions = ss, !.subscribers = us, !.state = st, !.rx = rx, !.tx = tx]
  BY <1>1 DEF RemoveSession, Brokers
<1> HIDE DEF ss, us, rx, tx, st
<1>6. /\ r \in Brokers(ids, P)
      /\ r.sessions = ss /\ r.subscribers = us /\ r.rx = rx /\ r.tx = tx
  BY <1>1, <1>2, <1>3, <1>4, <1>5 DEF Brokers
<1>7. Consistent(r, ids)
  <2>1. Range(us) \subseteq Range(ss)
    BY <1>1, <1>2, <1>3 DEF Consistent
  <2>2. \A q \in ids : Len(rx[q]) <= QUEUE_SIZE /\ Len(tx[q]) <= QUEUE_SIZE
    <3>1. 0 <= QUEUE_SIZE
      OBVIOUS
    <3>2. \A q \in ids : Len(b.rx[q]) <= QUEUE_SIZE /\ Len(b.tx[q]) <= QUEUE_SIZE
      BY <1>1 DEF Consistent
    <3> QED BY <1>4, <3>1, <3>2, Zenon
  <2> QED BY <1>2, <1>3, <1>6, <2>1, <2>2 DEF Consistent
<1>8. KeepsQuiet(b, r, ids)
  BY <1>3, <1>4, <1>6 DEF KeepsQuiet, Quiet
<1> QED BY <1>2, <1>4, <1>6, <1>7, <1>8 DEF Sound

(* The cleanup task removes a set of sessions, with their queues.          *)
LEMMA RemoveAllSound ==
    ASSUME NEW ids, NEW P, NEW b, Sound(b, ids, P), NEW gone,
           NEW r, r = RemoveSessions(b, gone)
    PROVE  /\ Sound(r, ids, P)
           /\ Range(r.sessions) = Range(b.sessions) \ gone
           /\ KeepsQuiet(b, r, ids)
           /\ \A q \in ids : q \notin gone => r.tx[q] = b.tx[q]
<1> USE RoundAssumption
<1>1. b \in Brokers(ids, P) /\ Consistent(b, ids)
  BY DEF Sound
<1> DEFINE ss == Kept(b.sessions, Range(b.sessions) \ gone)
           us == Kept(b.subscribers, Range(b.subscribers) \ gone)
           Reset(f, v) == [s \in DOMAIN f |-> IF s \in gone THEN v ELSE f[s]]
           rx == Reset(b.rx, <<>>)
           tx == Reset(b.tx, <<>>)
           st == Reset(b.state, "Connecting")
<1>2. ss \in Seq(ids) /\ IsInjective(ss) /\ Range(ss) = Range(b.sessions) \ gone
  <2>1. /\ ss \in Seq(ids) /\ IsInjective(ss)
        /\ Range(ss) = Range(b.sessions) \cap (Range(b.sessions) \ gone)
    BY <1>1, KeptProperties DEF Brokers, Consistent
  <2> QED BY <2>1
<1>3. us \in Seq(ids) /\ IsInjective(us) /\ Range(us) = Range(b.subscribers) \ gone
  <2>1. /\ us \in Seq(ids) /\ IsInjective(us)
        /\ Range(us) = Range(b.subscribers) \cap (Range(b.subscribers) \ gone)
    BY <1>1, KeptProperties DEF Brokers, Consistent
  <2> QED BY <2>1
<1>4. /\ rx \in [ids -> Seq(P)] /\ tx \in [ids -> Seq(Replies(P))] /\ st \in [ids -> States]
      /\ \A q \in ids : rx[q] = IF q \in gone THEN <<>> ELSE b.rx[q]
      /\ \A q \in ids : tx[q] = IF q \in gone THEN <<>> ELSE b.tx[q]
      /\ Len(<<>>) = 0
  <2>1. <<>> \in Seq(P) /\ <<>> \in Seq(Replies(P)) /\ Len(<<>>) = 0 /\ "Connecting" \in States
    BY DEF States
  <2>2. b.rx \in [ids -> Seq(P)] /\ b.tx \in [ids -> Seq(Replies(P))] /\ b.state \in [ids -> States]
    BY <1>1 DEF Brokers
  <2> QED BY <2>1, <2>2
<1>5. r = [b EXCEPT !.sessions = ss, !.subscribers = us, !.state = st, !.rx = rx, !.tx = tx]
  BY <1>1 DEF RemoveSessions, Brokers
<1> HIDE DEF ss, us, rx, tx, st
<1>6. /\ r \in Brokers(ids, P)
      /\ r.sessions = ss /\ r.subscribers = us /\ r.rx = rx /\ r.tx = tx
  BY <1>1, <1>2, <1>3, <1>4, <1>5 DEF Brokers
<1>7. Consistent(r, ids)
  <2>1. Range(us) \subseteq Range(ss)
    BY <1>1, <1>2, <1>3 DEF Consistent
  <2>2. \A q \in ids : Len(rx[q]) <= QUEUE_SIZE /\ Len(tx[q]) <= QUEUE_SIZE
    <3>1. 0 <= QUEUE_SIZE
      OBVIOUS
    <3>2. \A q \in ids : Len(b.rx[q]) <= QUEUE_SIZE /\ Len(b.tx[q]) <= QUEUE_SIZE
      BY <1>1 DEF Consistent
    <3> QED BY <1>4, <3>1, <3>2, Zenon
  <2> QED BY <1>2, <1>3, <1>6, <2>1, <2>2 DEF Consistent
<1>8. KeepsQuiet(b, r, ids)
  BY <1>3, <1>4, <1>6 DEF KeepsQuiet, Quiet
<1> QED BY <1>2, <1>4, <1>6, <1>7, <1>8 DEF Sound

(* mark_session_disconnected changes the session's state only.             *)
LEMMA MarkSound ==
    ASSUME NEW ids, NEW P, NEW b, Sound(b, ids, P), NEW s \in ids,
           NEW r, r = MarkSessionDisconnected(b, s)
    PROVE  /\ Sound(r, ids, P)
           /\ r.sessions = b.sessions /\ r.tx = b.tx
           /\ KeepsQuiet(b, r, ids)
<1>1. CASE s \in Range(b.sessions)
  <2> DEFINE st == [b.state EXCEPT ![s] = "Disconnected"]
  <2>1. r = [b EXCEPT !.state = st]
    BY <1>1 DEF MarkSessionDisconnected
  <2>4. st \in [ids -> States]
    BY DEF Sound, Brokers, States
  <2> HIDE DEF st
  <2>2. /\ r \in Brokers(ids, P) /\ r.sessions = b.sessions /\ r.rx = b.rx /\ r.tx = b.tx
        /\ r.subscribers = b.subscribers
    BY <2>1, <2>4 DEF Sound, Brokers
  <2>3. Consistent(b, ids)
    BY DEF Sound
  <2> QED BY <2>2, <2>3 DEF Sound, Consistent, KeepsQuiet, Quiet
<1>2. CASE s \notin Range(b.sessions)
  BY <1>2 DEF MarkSessionDisconnected, KeepsQuiet
<1> QED BY <1>1, <1>2

(* dequeue_packet_to_send_to_client until there is none empties one queue. *)
LEMMA DequeueAllSound ==
    ASSUME NEW ids, NEW P, NEW b, Sound(b, ids, P), NEW s \in ids,
           NEW r, r = DequeueAll(b, s)
    PROVE  /\ Sound(r, ids, P)
           /\ r.sessions = b.sessions
           /\ KeepsQuiet(b, r, ids)
           /\ r.tx[s] = <<>> /\ \A q \in ids : q # s => r.tx[q] = b.tx[q]
<1> USE RoundAssumption
<1>1. b \in Brokers(ids, P) /\ Consistent(b, ids)
  BY DEF Sound
<1> DEFINE tx == [b.tx EXCEPT ![s] = <<>>]
<1>2. r = [b EXCEPT !.tx = tx]
  BY DEF DequeueAll
<1>8. tx \in [ids -> Seq(Replies(P))] /\ b.tx \in [ids -> Seq(Replies(P))]
  <2>1. <<>> \in Seq(Replies(P)) /\ b.tx \in [ids -> Seq(Replies(P))]
    BY <1>1 DEF Brokers
  <2> QED BY <2>1
<1>9. tx[s] = <<>> /\ \A q \in ids : q # s => tx[q] = b.tx[q]
  BY <1>8
<1> HIDE DEF tx
<1>3. /\ r \in Brokers(ids, P) /\ r.sessions = b.sessions /\ r.rx = b.rx
      /\ r.subscribers = b.subscribers /\ r.tx = tx
  BY <1>1, <1>2, <1>8 DEF Brokers
<1>4. r.tx[s] = <<>> /\ \A q \in ids : q # s => r.tx[q] = b.tx[q]
  BY <1>3, <1>9
<1>5. Len(<<>>) = 0
  OBVIOUS
<1>6. Consistent(r, ids)
  BY <1>1, <1>3, <1>4, <1>5 DEF Consistent
<1>7. KeepsQuiet(b, r, ids)
  BY <1>3, <1>4 DEF KeepsQuiet, Quiet
<1> QED BY <1>3, <1>4, <1>6, <1>7 DEF Sound

(* A whole round: the sessions stay, and who was quiet still is, but for   *)
(* the one whose packet it is.                                             *)
LEMMA RoundSound ==
    ASSUME NEW ids, NEW P, NEW b, Sound(b, ids, P), NEW s \in ids, NEW p \in P,
           NEW r, r = Round(b, s, p)
    PROVE  /\ Sound(r, ids, P)
           /\ r.sessions = b.sessions
           /\ \A q \in ids : q # s /\ Quiet(b, q) => Quiet(r, q)
<1> DEFINE Q == {q \in ids : q # s /\ Quiet(b, q)}
           S == b.sessions
<1>1. b \in Reach(ids, P, S, Q) /\ s \notin Q
  BY DEF Sound, Reach
<1> HIDE DEF Q, S
<1>2. r \in Reach(ids, P, S, Q)
  BY <1>1, RoundReach
<1> QED BY <1>2 DEF Reach, Sound, Q, S

(* get_sessions_with_pending_packets names every session with something to *)
(* send, and no other.                                                     *)
LEMMA PendingSessions ==
    ASSUME NEW ids, NEW P, NEW b, Sound(b, ids, P)
    PROVE  /\ SessionsWithPending(b) \in Seq(ids)
           /\ Range(SessionsWithPending(b)) = {s \in Range(b.sessions) : b.tx[s] # <<>>}
<1> DEFINE K == {s \in Range(b.sessions) : b.tx[s] # <<>>}
<1>1. b.sessions \in Seq(ids)
  BY DEF Sound, Brokers
<1>2. K \subseteq Range(b.sessions) /\ SessionsWithPending(b) = Kept(b.sessions, K)
  BY DEF SessionsWithPending
<1> HIDE DEF K
<1>3. /\ Kept(b.sessions, K) \in Seq(ids)
      /\ Range(Kept(b.sessions, K)) = Range(b.sessions) \cap K
  BY <1>1, KeptProperties
<1> QED BY <1>2, <1>3 DEF K

-----------------------------------------------------------------------------
(* Order: of the messages of one publisher, the earlier one is the older.  *)

Older(m, n) ==
    m.type = "publish" /\ n.type = "publish" /\ m.from = n.from => m.seq < n.seq

Before(A, B) == \A m \in A : \A n \in B : Older(m, n)

Increasing(q) == \A i, j \in DOMAIN q : i < j => Older(q[i], q[j])

(* Two queues one after the other.                                         *)
LEMMA ConcatIncreasing ==
    ASSUME NEW M, NEW p \in Seq(M), NEW q \in Seq(M)
    PROVE  /\ p \o q \in Seq(M)
           /\ Range(p \o q) = Range(p) \cup Range(q)
           /\ Increasing(p \o q) <=>
                Increasing(p) /\ Increasing(q) /\ Before(Range(p), Range(q))
<1> DEFINE r == p \o q
<1>1. /\ r \in Seq(M) /\ Len(r) = Len(p) + Len(q) /\ Len(p) \in Nat /\ Len(q) \in Nat
      /\ DOMAIN r = 1..(Len(p) + Len(q)) /\ DOMAIN p = 1..Len(p) /\ DOMAIN q = 1..Len(q)
  BY ConcatProperties, LenProperties
<1>2. /\ \A k \in 1..Len(p) : k \in DOMAIN r /\ r[k] = p[k]
      /\ \A k \in 1..Len(q) : Len(p) + k \in DOMAIN r /\ r[Len(p) + k] = q[k]
  BY <1>1, ConcatProperties
<1>3. \A k \in DOMAIN r : k \in 1..Len(p) \/ \E l \in 1..Len(q) : k = Len(p) + l
  <2> SUFFICES ASSUME NEW k \in DOMAIN r, k \notin 1..Len(p)
               PROVE  \E l \in 1..Len(q) : k = Len(p) + l
    OBVIOUS
  <2>1. k - Len(p) \in 1..Len(q) /\ k = Len(p) + (k - Len(p))
    BY <1>1
  <2> QED BY <2>1
<1> HIDE DEF r
<1>4. Range(r) = Range(p) \cup Range(q)
  <2>1. \A k \in DOMAIN r : r[k] \in Range(p) \cup Range(q)
    BY <1>1, <1>2, <1>3 DEF Range
  <2>2. \A k \in DOMAIN p : p[k] \in Range(r)
    BY <1>1, <1>2 DEF Range
  <2>3. \A k \in DOMAIN q : q[k] \in Range(r)
    BY <1>1, <1>2 DEF Range
  <2> QED BY <2>1, <2>2, <2>3 DEF Range
<1>5. ASSUME Increasing(r) PROVE Increasing(p) /\ Increasing(q) /\ Before(Range(p), Range(q))
  <2>1. Increasing(p)
    BY <1>1, <1>2, <1>5 DEF Increasing
  <2>2. ASSUME NEW k \in DOMAIN q, NEW l \in DOMAIN q, k < l PROVE Older(q[k], q[l])
    <3>1. Len(p) + k < Len(p) + l
      BY <1>1, <2>2
    <3> QED BY <1>1, <1>2, <1>5, <3>1 DEF Increasing
  <2>3. ASSUME NEW k \in DOMAIN p, NEW l \in DOMAIN q PROVE Older(p[k], q[l])
    <3>1. k < Len(p) + l
      BY <1>1
    <3> QED BY <1>1, <1>2, <1>5, <3>1 DEF Increasing
  <2> QED BY <2>1, <2>2, <2>3 DEF Increasing, Before, Range
<1>6. ASSUME Increasing(p), Increasing(q), Before(Range(p), Range(q)) PROVE Increasing(r)
  <2> SUFFICES ASSUME NEW k \in DOMAIN r, NEW l \in DOMAIN r, k < l PROVE Older(r[k], r[l])
    BY DEF Increasing
  <2>1. CASE k \in DOMAIN p /\ l \in DOMAIN p
    BY <1>1, <1>2, <1>6, <2>1 DEF Increasing
  <2>2. CASE k \in DOMAIN p /\ l \notin DOMAIN p
    <3>1. PICK j \in DOMAIN q : l = Len(p) + j
      BY <1>1, <1>3, <2>2
    <3>2. r[k] = p[k] /\ r[l] = q[j]
      BY <1>1, <1>2, <2>2, <3>1
    <3>3. r[k] \in Range(p) /\ r[l] \in Range(q)
      BY <2>2, <3>2 DEF Range
    <3> QED BY <1>6, <3>3 DEF Before
  <2>3. CASE k \notin DOMAIN p
    <3>1. PICK i \in DOMAIN q : k = Len(p) + i
      BY <1>1, <1>3, <2>3
    <3>4. l \notin 1..Len(p)
      BY <1>1, <3>1
    <3>2. PICK j \in DOMAIN q : l = Len(p) + j
      BY <1>1, <1>3, <3>4
    <3>3. r[k] = q[i] /\ r[l] = q[j] /\ i < j
      BY <1>1, <1>2, <3>1, <3>2
    <3> QED BY <1>6, <3>3 DEF Increasing
  <2> QED BY <2>1, <2>2, <2>3
<1> QED BY <1>1, <1>4, <1>5, <1>6 DEF r

(* A queue of one.                                                         *)
LEMMA SingleIncreasing ==
    ASSUME NEW M, NEW x \in M
    PROVE  <<x>> \in Seq(M) /\ Range(<<x>>) = {x} /\ Increasing(<<x>>)
  BY DEF Range, Increasing

(* A queue with one more at its end.                                       *)
LEMMA AppendIncreasing ==
    ASSUME NEW M, NEW q \in Seq(M), NEW x \in M
    PROVE  /\ Append(q, x) \in Seq(M)
           /\ Range(Append(q, x)) = Range(q) \cup {x}
           /\ Increasing(Append(q, x)) <=> Increasing(q) /\ Before(Range(q), {x})
<1>1. PICK e : e = <<x>>
  OBVIOUS
<1>2. e \in Seq(M) /\ Range(e) = {x} /\ Increasing(e)
  BY <1>1, SingleIncreasing
<1>3. PICK r : r = Append(q, x)
  OBVIOUS
<1>4. r = q \o e
  BY <1>1, <1>3, AppendIsConcat
<1>5. /\ r \in Seq(M) /\ Range(r) = Range(q) \cup Range(e)
      /\ Increasing(r) <=> Increasing(q) /\ Increasing(e) /\ Before(Range(q), Range(e))
  <2>1. /\ q \o e \in Seq(M) /\ Range(q \o e) = Range(q) \cup Range(e)
        /\ Increasing(q \o e) <=> Increasing(q) /\ Increasing(e) /\ Before(Range(q), Range(e))
    BY <1>2, ConcatIncreasing
  <2> QED BY <1>4, <2>1, Zenon
<1>6. Increasing(r) <=> Increasing(q) /\ Before(Range(q), {x})
  BY <1>2, <1>5, Zenon
<1> QED BY <1>2, <1>3, <1>5, <1>6

(* The first of a queue and the rest of it.                                *)
LEMMA HeadThenTail ==
    ASSUME NEW M, NEW q \in Seq(M), q # <<>>
    PROVE  q = <<Head(q)>> \o Tail(q)
  BY HeadTailProperties, ConcatProperties

(* The first of a queue is taken off; g is behind the queue.               *)
LEMMA HeadTaken ==
    ASSUME NEW M, NEW q \in Seq(M), q # <<>>, NEW g \in Seq(M)
    PROVE  /\ Range(q \o g) = {Head(q)} \cup Range(Tail(q) \o g)
           /\ Increasing(q \o g) =>
                Increasing(Tail(q) \o g) /\ Before({Head(q)}, Range(Tail(q) \o g))
<1>1. PICK h, t : h = <<Head(q)>> /\ t = Tail(q)
  OBVIOUS
<1>2. h \in Seq(M) /\ t \in Seq(M) /\ Range(h) = {Head(q)}
  BY <1>1, TailElements, SingleIncreasing
<1>3. q = h \o t
  BY <1>1, HeadThenTail
<1>4. PICK u, w : u = t \o g /\ w = q \o g
  OBVIOUS
<1>5. u \in Seq(M)
  BY <1>2, <1>4, ConcatProperties
<1>6. (h \o t) \o g = h \o (t \o g)
  BY <1>2, ConcatAssociative
<1>7. w = h \o u
  BY <1>3, <1>4, <1>6, Zenon
<1>8. /\ Range(w) = Range(h) \cup Range(u)
      /\ Increasing(w) => Increasing(u) /\ Before(Range(h), Range(u))
  <2>1. h \in Seq(M) /\ u \in Seq(M)
    BY <1>2, <1>5
  <2>2. /\ Range(h \o u) = Range(h) \cup Range(u)
        /\ Increasing(h \o u) => Increasing(u) /\ Before(Range(h), Range(u))
    BY <2>1, ConcatIncreasing
  <2> QED BY <1>7, <2>2
<1> QED BY <1>1, <1>2, <1>4, <1>8

(* Old[c] has left the broker for client c; New[c] is on its way to the    *)
(* broker from client c.                                                   *)
Outgoing(b, Old, c) == Old[c] \o b.tx[c]
Incoming(b, New, c) == b.rx[c] \o New[c]

(* What goes out to a client is in order, what comes in from a client is   *)
(* in order and its own, and what comes in is newer than what has gone out.*)
Ordered(b, ids, Old, New) ==
    \A c \in ids :
        /\ Increasing(Outgoing(b, Old, c)) /\ Increasing(Incoming(b, New, c))
        /\ \A m \in Range(Incoming(b, New, c)) : m.type = "publish" => m.from = c
        /\ \A q \in ids : Before(Range(Outgoing(b, Old, c)), Range(Incoming(b, New, q)))

(* Message m is newer than all that has gone out to client c, and older    *)
(* than all that comes in.                                                 *)
ComesNext(b, ids, Old, New, c, m) ==
    /\ Before(Range(Outgoing(b, Old, c)), {m})
    /\ \A q \in ids : Before({m}, Range(Incoming(b, New, q)))

(* Answers are no messages: their place does not matter.                   *)
LEMMA AnswerIsNext ==
    ASSUME NEW ids, NEW b, NEW Old, NEW New, NEW c, NEW m, m.type # "publish"
    PROVE  ComesNext(b, ids, Old, New, c, m)
  BY DEF ComesNext, Before, Older

(* Leaving out messages, on either side, keeps the order.                  *)
LEMMA FewerOrdered ==
    ASSUME NEW ids, NEW b, NEW Old, NEW New, Ordered(b, ids, Old, New),
           NEW d, NEW Old2, NEW New2,
           \A c \in ids :
               /\ Increasing(Outgoing(d, Old2, c)) /\ Increasing(Incoming(d, New2, c))
               /\ Range(Outgoing(d, Old2, c)) \subseteq Range(Outgoing(b, Old, c))
               /\ Range(Incoming(d, New2, c)) \subseteq Range(Incoming(b, New, c))
    PROVE  Ordered(d, ids, Old2, New2)
  BY DEF Ordered, Before

(* queue_tx_packet adds a packet at the end of one queue, or nothing.      *)
LEMMA QueueTxEffect ==
    ASSUME NEW ids, NEW P, NEW b \in Brokers(ids, P), NEW s \in ids, NEW m,
           NEW r, r = QueueTx(b, s, m)
    PROVE  /\ r.rx = b.rx /\ r.subscribers = b.subscribers
           /\ \A c \in ids : c # s => r.tx[c] = b.tx[c]
           /\ r.tx[s] = b.tx[s] \/ r.tx[s] = Append(b.tx[s], m)
<1>1. CASE r.rx = b.rx /\ r.tx = b.tx /\ r.subscribers = b.subscribers
  BY <1>1
<1>2. CASE r = [b EXCEPT !.tx[s] = Append(@, m)]
  <2> DEFINE tx == [b.tx EXCEPT ![s] = Append(@, m)]
  <2>1. r = [b EXCEPT !.tx = tx] /\ b.tx \in [ids -> Seq(Replies(P))]
    BY <1>2 DEF Brokers
  <2>2. /\ tx[s] = Append(b.tx[s], m) /\ \A c \in ids : c # s => tx[c] = b.tx[c]
    BY <2>1
  <2> HIDE DEF tx
  <2>3. r.rx = b.rx /\ r.tx = tx /\ r.subscribers = b.subscribers
    BY <2>1 DEF Brokers
  <2> QED BY <2>2, <2>3
<1>3. CASE r = b \/ \E v : r = [b EXCEPT !.result = v]
  BY <1>1, <1>3 DEF Brokers
<1> QED BY <1>2, <1>3 DEF QueueTx

(* queue_tx_packet of the message that comes next.                         *)
LEMMA QueueTxOrder ==
    ASSUME NEW ids, NEW P, NEW b \in Brokers(ids, P),
           NEW Old \in [ids -> Seq(Replies(P))], NEW New,
           Ordered(b, ids, Old, New), NEW s \in ids, NEW m \in Replies(P),
           ComesNext(b, ids, Old, New, s, m), NEW r, r = QueueTx(b, s, m)
    PROVE  Ordered(r, ids, Old, New)
<1>1. /\ r.rx = b.rx /\ \A c \in ids : c # s => r.tx[c] = b.tx[c]
      /\ r.tx[s] = b.tx[s] \/ r.tx[s] = Append(b.tx[s], m)
  BY QueueTxEffect
<1>2. /\ \A c \in ids : c # s => Outgoing(r, Old, c) = Outgoing(b, Old, c)
      /\ \A c \in ids : Incoming(r, New, c) = Incoming(b, New, c)
  BY <1>1 DEF Outgoing, Incoming
<1>3. CASE r.tx[s] = b.tx[s]
  <2>1. Outgoing(r, Old, s) = Outgoing(b, Old, s)
    BY <1>3 DEF Outgoing
  <2> QED BY <1>2, <2>1 DEF Ordered
<1>4. CASE r.tx[s] = Append(b.tx[s], m)
  <2>1. PICK q : q = Old[s] \o b.tx[s]
    OBVIOUS
  <2>2. q \in Seq(Replies(P)) /\ Old[s] \o Append(b.tx[s], m) = Append(q, m)
    <3>1. b.tx[s] \in Seq(Replies(P)) /\ Old[s] \in Seq(Replies(P))
      BY DEF Brokers
    <3>2. Old[s] \o Append(b.tx[s], m) = Append(Old[s] \o b.tx[s], m)
      BY <3>1, AppendToConcat
    <3>3. Old[s] \o b.tx[s] \in Seq(Replies(P))
      BY <3>1, ConcatProperties
    <3> QED BY <2>1, <3>2, <3>3, Zenon
  <2>3. Outgoing(b, Old, s) = q /\ Outgoing(r, Old, s) = Append(q, m)
    BY <1>4, <2>1, <2>2 DEF Outgoing
  <2>4. Increasing(q) /\ Before(Range(q), {m})
    BY <2>3 DEF Ordered, ComesNext
  <2>5. Increasing(Append(q, m)) /\ Range(Append(q, m)) = Range(q) \cup {m}
    BY <2>2, <2>4, AppendIncreasing
  <2>6. ASSUME NEW c \in ids, NEW d \in ids
        PROVE  Before(Range(Outgoing(r, Old, c)), Range(Incoming(r, New, d)))
    <3>1. /\ Before(Range(Outgoing(b, Old, c)), Range(Incoming(b, New, d)))
          /\ Before({m}, Range(Incoming(b, New, d)))
      BY DEF Ordered, ComesNext
    <3>2. Range(Outgoing(r, Old, c)) \subseteq Range(Outgoing(b, Old, c)) \cup {m}
      BY <1>2, <2>3, <2>5
    <3> QED BY <1>2, <3>1, <3>2 DEF Before
  <2>7. \A c \in ids : Increasing(Outgoing(r, Old, c))
    BY <1>2, <2>3, <2>5 DEF Ordered
  <2> QED BY <1>2, <2>6, <2>7 DEF Ordered
<1> QED BY <1>1, <1>3, <1>4

(* dequeue_rx_packet: the packet in hand is the next message for everyone. *)
LEMMA DequeueOrder ==
    ASSUME NEW ids, NEW P, NEW S, NEW Q, NEW a \in Reach(ids, P, S, Q),
           NEW Old \in [ids -> Seq(Replies(P))], NEW New \in [ids -> Seq(Replies(P))],
           Ordered(a, ids, Old, New), NEW s \in ids, a.rx[s] # <<>>,
           NEW b, b = [a EXCEPT !.rx[s] = Tail(@)], NEW p, p = Head(a.rx[s])
    PROVE  /\ Ordered(b, ids, Old, New)
           /\ \A c \in ids : ComesNext(b, ids, Old, New, c, p)
<1>1. a \in Brokers(ids, P) /\ a.rx \in [ids -> Seq(P)]
  BY DEF Reach, Brokers
<1> DEFINE rx == [a.rx EXCEPT ![s] = Tail(@)]
<1>2. b = [a EXCEPT !.rx = rx]
  BY <1>1 DEF Brokers
<1>3. rx[s] = Tail(a.rx[s]) /\ \A c \in ids : c # s => rx[c] = a.rx[c]
  BY <1>1
<1> HIDE DEF rx
<1>4. b.tx = a.tx /\ b.rx = rx
  BY <1>1, <1>2 DEF Brokers
<1>5. PICK u : u = Tail(a.rx[s]) \o New[s]
  OBVIOUS
<1>6. a.rx[s] \in Seq(Replies(P)) /\ New[s] \in Seq(Replies(P))
  BY <1>1 DEF Replies
<1>7. Incoming(a, New, s) = a.rx[s] \o New[s] /\ Incoming(b, New, s) = u
  BY <1>3, <1>4, <1>5 DEF Incoming
<1>8. Increasing(a.rx[s] \o New[s])
  BY <1>7 DEF Ordered
<1>9. Range(Incoming(a, New, s)) = {p} \cup Range(u)
  <2>1. Range(a.rx[s] \o New[s]) = {p} \cup Range(u)
    BY <1>5, <1>6, HeadTaken
  <2> QED BY <1>7, <2>1
<1>11. Increasing(u) /\ Before({p}, Range(u))
  BY <1>5, <1>6, <1>8, HeadTaken
<1>12. /\ \A c \in ids : Outgoing(b, Old, c) = Outgoing(a, Old, c)
       /\ \A c \in ids : c # s => Incoming(b, New, c) = Incoming(a, New, c)
       /\ Incoming(b, New, s) = u
       /\ p \in Range(Incoming(a, New, s)) /\ Range(u) \subseteq Range(Incoming(a, New, s))
  BY <1>3, <1>4, <1>7, <1>9 DEF Outgoing, Incoming
<1>13. Ordered(b, ids, Old, New)
  <2>1. \A c \in ids : Increasing(Outgoing(b, Old, c)) /\ Increasing(Incoming(b, New, c))
    BY <1>11, <1>12 DEF Ordered
  <2>2. \A c \in ids : /\ Range(Outgoing(b, Old, c)) \subseteq Range(Outgoing(a, Old, c))
                       /\ Range(Incoming(b, New, c)) \subseteq Range(Incoming(a, New, c))
    BY <1>12
  <2> QED BY <2>1, <2>2, FewerOrdered
<1>14. ASSUME NEW c \in ids PROVE Before(Range(Outgoing(b, Old, c)), {p})
  BY <1>12 DEF Ordered, Before
<1>15. ASSUME NEW q \in ids PROVE Before({p}, Range(Incoming(b, New, q)))
  <2>1. CASE q = s
    BY <1>11, <1>12, <2>1
  <2>2. CASE q # s
    <3> SUFFICES ASSUME NEW m \in Range(Incoming(b, New, q)) PROVE Older(p, m)
      BY DEF Before
    <3>1. (m.type = "publish" => m.from = q) /\ (p.type = "publish" => p.from = s)
      BY <1>12, <2>2 DEF Ordered
    <3> QED BY <2>2, <3>1 DEF Older
  <2> QED BY <2>1, <2>2
<1> QED BY <1>13, <1>14, <1>15 DEF ComesNext

(* The loop of handle_publish: one message, once to each subscriber.       *)
LEMMA DeliverOrder ==
    ASSUME NEW ids, NEW P, NEW S, NEW Q, NEW b \in Reach(ids, P, S, Q), NEW p \in P,
           NEW Old \in [ids -> Seq(Replies(P))], NEW New \in [ids -> Seq(Replies(P))],
           Ordered(b, ids, Old, New), \A c \in ids : ComesNext(b, ids, Old, New, c, p)
    PROVE  Ordered(Deliver(b, p), ids, Old, New)
<1> DEFINE V == Reach(ids, P, S, Q)
           N == Len(b.subscribers)
           W == [n \in 0..N |->
                   {x \in V : /\ Ordered(x, ids, Old, New) /\ x.rx = b.rx
                              /\ \A j \in (n + 1)..N :
                                   x.tx[b.subscribers[j]] = b.tx[b.subscribers[j]]}]
<1>1. PICK to : DeliverSteps(to, b, p, V)
  BY DeliverRuns
<1>2. b.subscribers \in Seq(ids) /\ IsInjective(b.subscribers) /\ N \in Nat
  BY LenProperties DEF Reach, Brokers, Consistent
<1>3. p \in Replies(P)
  BY DEF Replies
<1>4. to[0] \in W[0]
  BY <1>1, <1>2 DEF DeliverSteps
<1>5. ASSUME NEW n \in 1..N, to[n - 1] \in W[n - 1] PROVE to[n] \in W[n]
  <2>1. PICK x, r, s : x = to[n - 1] /\ r = to[n] /\ s = b.subscribers[n]
    OBVIOUS
  <2>2. /\ n - 1 \in 0..N /\ n \in 0..N /\ (n - 1) + 1 = n /\ n \in n..N
        /\ \A j \in (n + 1)..N : j \in n..N /\ j \in 1..N /\ j # n
    BY <1>2
  <2>3. /\ x \in V /\ Ordered(x, ids, Old, New) /\ x.rx = b.rx
        /\ \A j \in n..N : x.tx[b.subscribers[j]] = b.tx[b.subscribers[j]]
    BY <1>5, <2>1, <2>2
  <2>4. r \in V /\ r = QueueTx(x, s, p)
    BY <1>1, <2>1, <2>2 DEF DeliverSteps
  <2>5. s \in ids /\ x.tx[s] = b.tx[s]
    BY <1>2, <2>1, <2>2, <2>3
  <2>6. ComesNext(x, ids, Old, New, s, p)
    BY <2>3, <2>5 DEF ComesNext, Outgoing, Incoming
  <2>7. /\ Ordered(r, ids, Old, New) /\ r.rx = x.rx
        /\ \A c \in ids : c # s => r.tx[c] = x.tx[c]
    <3>1. x \in Brokers(ids, P)
      BY <2>3 DEF Reach
    <3>2. r.rx = x.rx /\ \A c \in ids : c # s => r.tx[c] = x.tx[c]
      BY <2>4, <2>5, <3>1, QueueTxEffect
    <3> HIDE DEF W, N, V
    <3>3. Ordered(r, ids, Old, New)
      BY <1>3, <2>3, <2>4, <2>5, <2>6, <3>1, QueueTxOrder
    <3> QED BY <3>2, <3>3
  <2>8. ASSUME NEW j \in (n + 1)..N
        PROVE  r.tx[b.subscribers[j]] = b.tx[b.subscribers[j]]
    <3>1. b.subscribers[j] \in ids /\ b.subscribers[j] # s
      BY <1>2, <2>1, <2>2 DEF IsInjective
    <3> QED BY <2>2, <2>3, <2>7, <3>1
  <2> QED BY <2>1, <2>2, <2>3, <2>4, <2>7, <2>8
<1>6. N \in 0..N
  BY <1>2
<1>7. to[N] \in W[N] => Ordered(to[N], ids, Old, New)
  BY <1>6
<1>8. Deliver(b, p) = to[N]
  BY <1>1 DEF DeliverSteps
<1> HIDE DEF W, N
<1>9. \A n \in 0..N : to[n] \in W[n]
  BY <1>2, <1>4, <1>5, LoopHolds
<1> QED BY <1>6, <1>7, <1>8, <1>9

(* What does not touch a queue does not touch the order.                   *)
LEMMA SameQueuesOrdered ==
    ASSUME NEW ids, NEW b, NEW Old, NEW New, Ordered(b, ids, Old, New),
           NEW r, r.rx = b.rx, r.tx = b.tx
    PROVE  Ordered(r, ids, Old, New)
  BY DEF Ordered, Outgoing, Incoming

(* One packet of one session, with the answer and the deliveries.          *)
LEMMA HandlePacketOrder ==
    ASSUME NEW ids, NEW P, NEW S, NEW Q, NEW a \in Reach(ids, P, S, Q),
           NEW Old \in [ids -> Seq(Replies(P))], NEW New \in [ids -> Seq(Replies(P))],
           Ordered(a, ids, Old, New), NEW s \in ids, s \in Range(S), a.rx[s] # <<>>
    PROVE  Ordered(HandlePacket(a, s), ids, Old, New)
<1> DEFINE V == Reach(ids, P, S, Q)
           O(x) == Ordered(x, ids, Old, New)
           p == Head(a.rx[s])
           b == [a EXCEPT !.rx[s] = Tail(@)]
<1>1. p \in P /\ s \notin Q /\ b \in V
  BY DequeueReach
<1>2. O(b) /\ \A c \in ids : ComesNext(b, ids, Old, New, c, p)
  BY DequeueOrder
<1>3. /\ [type |-> "puback", seq |-> p.seq] \in Replies(P)
      /\ [type |-> "connack"] \in Replies(P) /\ [type |-> "suback"] \in Replies(P)
      /\ [type |-> "pingresp"] \in Replies(P)
  BY <1>1 DEF Replies
<1>4. HandlePacket(a, s) =
        CASE p.type = "connect" -> HandleConnect(b, s)
          [] p.type = "pingreq" -> QueueTx(b, s, [type |-> "pingresp"])
          [] p.type = "subscribe" -> QueueTx(Subscribe(b, s), s, [type |-> "suback"])
          [] p.type = "disconnect" -> [b EXCEPT !.state[s] = "Disconnected"]
          [] p.type = "publish" -> HandlePublish(b, s, p)
          [] OTHER -> b
  BY DEF HandlePacket
<1> HIDE DEF p, b
<1>5. ASSUME NEW v \in V, NEW m \in Replies(P), O(v), m.type # "publish"
      PROVE  O(QueueTx(v, s, m))
  <2>1. v \in Brokers(ids, P)
    BY DEF Reach
  <2>2. ComesNext(v, ids, Old, New, s, m)
    BY <1>5, AnswerIsNext
  <2> QED BY <1>5, <2>1, <2>2, QueueTxOrder
<1>6. ASSUME NEW v, v.rx = b.rx, v.tx = b.tx PROVE O(v)
  BY <1>2, <1>6, SameQueuesOrdered
<1>7. b \in Brokers(ids, P)
  BY <1>1 DEF Reach
<1>8. ASSUME NEW v \in States
      PROVE  [b EXCEPT !.state[s] = v] \in V /\ O([b EXCEPT !.state[s] = v])
  <2>1. [b EXCEPT !.state[s] = v] \in V
    BY <1>1, StateReach
  <2>2. [b EXCEPT !.state[s] = v].rx = b.rx /\ [b EXCEPT !.state[s] = v].tx = b.tx
    BY <1>7 DEF Brokers
  <2> QED BY <1>6, <2>1, <2>2
<1>9. Subscribe(b, s) \in V /\ O(Subscribe(b, s))
  <2>1. Subscribe(b, s).rx = b.rx /\ Subscribe(b, s).tx = b.tx
    BY <1>7 DEF Subscribe, Brokers
  <2>2. Subscribe(b, s) \in V
    BY <1>1, SubscribeReach
  <2> QED BY <1>6, <2>1, <2>2
<1>10. Deliver(b, p) \in V /\ O(Deliver(b, p))
  BY <1>1, <1>2, DeliverReach, DeliverOrder
<1> HIDE DEF V, O
<1>11. /\ O(HandleConnect(b, s)) /\ O([b EXCEPT !.state[s] = "Disconnected"])
  BY <1>3, <1>5, <1>8 DEF HandleConnect, States
<1>12. O(HandlePublish(b, s, p))
  BY <1>3, <1>5, <1>10 DEF HandlePublish
<1>13. O(QueueTx(b, s, [type |-> "pingresp"]))
  BY <1>1, <1>2, <1>3, <1>5
<1>14. O(QueueTx(Subscribe(b, s), s, [type |-> "suback"]))
  BY <1>3, <1>5, <1>9
<1>15. O(HandlePacket(a, s))
  BY <1>2, <1>4, <1>11, <1>12, <1>13, <1>14
<1> QED BY <1>15 DEF O

(* Emptying one session's receive queue, as far as it goes.                *)
LEMMA DrainOrder ==
    ASSUME NEW ids, NEW P, NEW S, NEW Q, NEW b \in Reach(ids, P, S, Q),
           NEW Old \in [ids -> Seq(Replies(P))], NEW New \in [ids -> Seq(Replies(P))],
           Ordered(b, ids, Old, New), NEW s \in ids, s \in Range(S)
    PROVE  Ordered(Drain(b, s), ids, Old, New)
<1> DEFINE V == Reach(ids, P, S, Q)
           W == {x \in V : Ordered(x, ids, Old, New)}
           N == Len(b.rx[s])
<1>1. PICK after : DrainSteps(after, b, s, V)
  BY DrainRuns
<1>2. N \in Nat
  <2>1. b.rx[s] \in Seq(P)
    BY DEF Reach, Brokers
  <2> QED BY <2>1, LenProperties
<1>3. ASSUME NEW x \in W PROVE Turn(x, s) \in W
  BY HandlePacketReach, HandlePacketOrder DEF Turn
<1>4. b \in W
  OBVIOUS
<1>5. \A x \in W : Ordered(x, ids, Old, New)
  OBVIOUS
<1>6. after[0] = b /\ (\A n \in 1..N : after[n] = Turn(after[n - 1], s)) /\ Drain(b, s) = after[N]
  BY <1>1 DEF DrainSteps
<1> HIDE DEF V, W, N
<1>7. \A n \in 1..N : after[n - 1] \in W => after[n] \in W
  BY <1>3, <1>6
<1>8. \A n \in 0..N : after[n] \in W
  BY <1>2, <1>4, <1>6, <1>7, LoopStays
<1>9. N \in 0..N
  BY <1>2
<1> QED BY <1>5, <1>6, <1>8, <1>9

(* The whole of process_all_session_packets.                               *)
LEMMA ProcessAllOrder ==
    ASSUME NEW ids, NEW P, NEW S, NEW Q, NEW b \in Reach(ids, P, S, Q),
           NEW Old \in [ids -> Seq(Replies(P))], NEW New \in [ids -> Seq(Replies(P))],
           Ordered(b, ids, Old, New)
    PROVE  Ordered(ProcessAll(b), ids, Old, New)
<1> DEFINE V == Reach(ids, P, S, Q)
           W == {x \in V : Ordered(x, ids, Old, New)}
           N == Len(b.sessions)
           v0 == [b EXCEPT !.result = "Ok"]
<1>1. PICK after : ProcessSteps(after, b, V)
  BY ProcessAllRuns
<1>2. b.sessions \in Seq(ids) /\ b.sessions = S /\ N \in Nat /\ b \in Brokers(ids, P)
  BY LenProperties DEF Reach, Brokers
<1>3. ASSUME NEW x \in W, NEW n \in 1..N PROVE Drain(x, b.sessions[n]) \in W
  <2>1. b.sessions[n] \in ids /\ b.sessions[n] \in Range(S)
    BY <1>2 DEF Range
  <2> QED BY <2>1, DrainReach, DrainOrder
<1>4. v0 \in W
  <2>1. "Ok" \in Results
    BY DEF Results
  <2>2. v0 \in V
    BY <2>1, StateReach
  <2>3. v0.rx = b.rx /\ v0.tx = b.tx
    BY <1>2 DEF Brokers
  <2> QED BY <2>2, <2>3, SameQueuesOrdered
<1>5. \A x \in W : Ordered(x, ids, Old, New)
  OBVIOUS
<1>6. /\ after[0] = v0 /\ ProcessAll(b) = after[N]
      /\ \A n \in 1..N : after[n] = Drain(after[n - 1], b.sessions[n])
  BY <1>1 DEF ProcessSteps
<1> HIDE DEF V, W, N, v0
<1>7. \A n \in 1..N : after[n - 1] \in W => after[n] \in W
  BY <1>3, <1>6
<1>8. \A n \in 0..N : after[n] \in W
  BY <1>2, <1>4, <1>6, <1>7, LoopStays
<1>9. N \in 0..N
  BY <1>2
<1> QED BY <1>5, <1>6, <1>8, <1>9

(* queue_packet_received_from_client adds the packet at the end of one     *)
(* queue, or nothing.                                                      *)
LEMMA QueueReceivedEffect ==
    ASSUME NEW ids, NEW P, NEW b \in Brokers(ids, P), NEW s \in ids, NEW p,
           NEW r, r = QueueReceived(b, s, p)
    PROVE  /\ r.tx = b.tx
           /\ \A c \in ids : c # s => r.rx[c] = b.rx[c]
           /\ r.rx[s] = b.rx[s] \/ r.rx[s] = Append(b.rx[s], p)
<1>1. CASE r.rx = b.rx /\ r.tx = b.tx
  BY <1>1
<1>2. CASE r = [b EXCEPT !.rx[s] = Append(@, p), !.result = "Ok"]
  <2> DEFINE rx == [b.rx EXCEPT ![s] = Append(@, p)]
  <2>1. r = [b EXCEPT !.rx = rx, !.result = "Ok"] /\ b.rx \in [ids -> Seq(P)]
    BY <1>2 DEF Brokers
  <2>2. /\ rx[s] = Append(b.rx[s], p) /\ \A c \in ids : c # s => rx[c] = b.rx[c]
    BY <2>1
  <2> HIDE DEF rx
  <2>3. r.rx = rx /\ r.tx = b.tx
    BY <2>1 DEF Brokers
  <2> QED BY <2>2, <2>3
<1>3. CASE \E v : r = [b EXCEPT !.result = v]
  BY <1>1, <1>3 DEF Brokers
<1> QED BY <1>2, <1>3 DEF QueueReceived

(* Of what is under way from the clients, p is taken in from client s. *)
TakenIn(ids, New, s, p, Rest) ==
    /\ New[s] = <<p>> \o Rest[s]
    /\ \A c \in ids : c # s => New[c] = Rest[c]

(* The next of a client's packets is queued, or, with the queue full or    *)
(* the session removed, dropped.                                           *)
LEMMA QueueReceivedOrder ==
    ASSUME NEW ids, NEW P, NEW b \in Brokers(ids, P), NEW Old, NEW s \in ids, NEW p \in P,
           NEW New, NEW Rest \in [ids -> Seq(Replies(P))], Ordered(b, ids, Old, New),
           TakenIn(ids, New, s, p, Rest),
           NEW r, r = QueueReceived(b, s, p)
    PROVE  Ordered(r, ids, Old, Rest)
<1>1. /\ r.tx = b.tx /\ \A c \in ids : c # s => r.rx[c] = b.rx[c]
      /\ r.rx[s] = b.rx[s] \/ r.rx[s] = Append(b.rx[s], p)
  BY QueueReceivedEffect
<1>2. /\ \A c \in ids : Outgoing(r, Old, c) = Outgoing(b, Old, c)
      /\ \A c \in ids : c # s => Incoming(r, Rest, c) = Incoming(b, New, c)
  BY <1>1 DEF Outgoing, Incoming, TakenIn
<1>3. PICK x, e, g : x = b.rx[s] /\ e = <<p>> /\ g = Rest[s]
  OBVIOUS
<1>4. x \in Seq(Replies(P)) /\ g \in Seq(Replies(P)) /\ p \in Replies(P)
  <2>1. P \subseteq Replies(P) /\ x \in Seq(P)
    BY <1>3 DEF Brokers, Replies
  <2>2. Seq(P) \subseteq Seq(Replies(P))
    BY <2>1
  <2> QED BY <1>3, <2>1, <2>2
<1>5. e \in Seq(Replies(P))
  BY <1>3, <1>4, SingleIncreasing
<1>6. PICK w : w = e \o g
  OBVIOUS
<1>7. w \in Seq(Replies(P)) /\ Incoming(b, New, s) = x \o w
  <2>1. w \in Seq(Replies(P))
    BY <1>4, <1>5, <1>6, ConcatProperties
  <2> QED BY <1>3, <1>6, <2>1, Zenon DEF Incoming, TakenIn
<1>8. CASE r.rx[s] = Append(b.rx[s], p)
  <2>1. Append(x, p) = x \o e
    BY <1>3, <1>4, AppendIsConcat
  <2>2. (x \o e) \o g = x \o (e \o g)
    BY <1>4, <1>5, ConcatAssociative
  <2>3. Incoming(r, Rest, s) = Incoming(b, New, s)
    BY <1>3, <1>6, <1>7, <1>8, <2>1, <2>2, Zenon DEF Incoming
  <2>4. \A c \in ids : Incoming(r, Rest, c) = Incoming(b, New, c)
    BY <1>2, <2>3
  <2> QED BY <1>2, <2>4 DEF Ordered
<1>9. CASE r.rx[s] = b.rx[s]
  <2>1. Incoming(r, Rest, s) = x \o g
    BY <1>3, <1>9 DEF Incoming
  <2>2. Increasing(x \o w)
    BY <1>7 DEF Ordered
  <2>3. Increasing(x) /\ Increasing(w) /\ Before(Range(x), Range(w))
    BY <1>4, <1>7, <2>2, ConcatIncreasing
  <2>4. Increasing(g) /\ Range(w) = Range(e) \cup Range(g)
    <3>1. Increasing(e \o g)
      BY <1>6, <2>3
    <3>2. Increasing(g) /\ Range(e \o g) = Range(e) \cup Range(g)
      BY <1>4, <1>5, <3>1, ConcatIncreasing
    <3> QED BY <1>6, <3>2
  <2>5. Before(Range(x), Range(g))
    BY <2>3, <2>4 DEF Before
  <2>6. Increasing(x \o g) /\ Range(x \o g) = Range(x) \cup Range(g)
    BY <1>4, <2>3, <2>4, <2>5, ConcatIncreasing
  <2>7. Range(x \o w) = Range(x) \cup Range(w)
    BY <1>4, <1>7, ConcatIncreasing
  <2>8. \A c \in ids : Increasing(Outgoing(r, Old, c)) /\ Increasing(Incoming(r, Rest, c))
    BY <1>2, <2>1, <2>6 DEF Ordered
  <2>9. \A c \in ids : /\ Range(Outgoing(r, Old, c)) \subseteq Range(Outgoing(b, Old, c))
                       /\ Range(Incoming(r, Rest, c)) \subseteq Range(Incoming(b, New, c))
    BY <1>2, <1>7, <2>1, <2>4, <2>6, <2>7
  <2> QED BY <2>8, <2>9, FewerOrdered
<1> QED BY <1>1, <1>8, <1>9

(* A whole round with the next packet of a client, whether it succeeds or  *)
(* stops at an error.                                                      *)
LEMMA RoundOrder ==
    ASSUME NEW ids, NEW P, NEW b, Sound(b, ids, P), NEW s \in ids, NEW p \in P,
           NEW Old \in [ids -> Seq(Replies(P))], NEW Rest \in [ids -> Seq(Replies(P))],
           NEW New, Ordered(b, ids, Old, New),
           TakenIn(ids, New, s, p, Rest)
    PROVE  Ordered(Round(b, s, p), ids, Old, Rest)
<1>1. b \in Reach(ids, P, b.sessions, {}) /\ b \in Brokers(ids, P)
  BY DEF Sound, Reach
<1>2. PICK r : r = QueueReceived(b, s, p)
  OBVIOUS
<1>3. r \in Reach(ids, P, b.sessions, {})
  BY <1>1, <1>2, QueueReceivedReach
<1>4. Ordered(r, ids, Old, Rest)
  BY <1>1, <1>2, QueueReceivedOrder
<1>5. Ordered(ProcessAll(r), ids, Old, Rest)
  BY <1>3, <1>4, ProcessAllOrder
<1> QED BY <1>2, <1>4, <1>5 DEF Round

(* mark_session_disconnected leaves the queues alone.                      *)
LEMMA MarkedQueues ==
    ASSUME NEW ids, NEW P, NEW b \in Brokers(ids, P), NEW s \in ids,
           NEW r, r = MarkSessionDisconnected(b, s)
    PROVE  r.rx = b.rx /\ r.tx = b.tx
BY DEF MarkSessionDisconnected, Brokers

(* register_new_session finds the queues of its new session empty.         *)
LEMMA RegisteredQueues ==
    ASSUME NEW ids, NEW P, NEW b \in Brokers(ids, P), NEW s \in ids,
           NEW r, r = RegisterNewSession(b, s)
    PROVE  r.rx = b.rx /\ r.tx = b.tx
BY DEF RegisterNewSession, Brokers

(* Dequeuing until there is nothing left empties one queue and no other.   *)
LEMMA DequeuedQueues ==
    ASSUME NEW ids, NEW P, NEW b \in Brokers(ids, P), NEW s \in ids,
           NEW r, r = DequeueAll(b, s)
    PROVE  r.rx = b.rx /\ r.tx = [b.tx EXCEPT ![s] = <<>>]
BY DEF DequeueAll, Brokers

(* remove_session drops both queues of its session.                        *)
LEMMA RemovedQueue ==
    ASSUME NEW ids, NEW P, NEW b \in Brokers(ids, P), NEW s \in ids,
           NEW r, r = RemoveSession(b, s)
    PROVE  r.rx = [b.rx EXCEPT ![s] = <<>>] /\ r.tx = [b.tx EXCEPT ![s] = <<>>]
BY DEF RemoveSession, Brokers

(* The cleanup task empties the queues of the sessions it removes.         *)
LEMMA RemovedQueues ==
    ASSUME NEW ids, NEW P, NEW b \in Brokers(ids, P), NEW gone,
           NEW r, r = RemoveSessions(b, gone)
    PROVE  /\ r.rx = [q \in ids |-> IF q \in gone THEN <<>> ELSE b.rx[q]]
           /\ r.tx = [q \in ids |-> IF q \in gone THEN <<>> ELSE b.tx[q]]
<1>1. b.rx \in [ids -> Seq(P)] /\ b.tx \in [ids -> Seq(Replies(P))]
  BY DEF Brokers
<1> QED BY <1>1 DEF RemoveSessions, Brokers

(* Both registries of r are those of b without the sessions gone. *)
OnlyLost(b, r, gone) ==
    \A q : /\ q \in Range(r.sessions) <=> q \in Range(b.sessions) /\ q \notin gone
           /\ q \in Range(r.subscribers) <=> q \in Range(b.subscribers) /\ q \notin gone

(* remove_session takes its session, and no other, off both registries.    *)
LEMMA RemovedListed ==
    ASSUME NEW ids, NEW P, NEW b, Sound(b, ids, P), NEW s, NEW r, r = RemoveSession(b, s)
    PROVE  OnlyLost(b, r, {s})
<1>1. PICK u, v, x, y : /\ u = b.subscribers /\ v = RemoveElement(u, s)
                        /\ x = b.sessions /\ y = RemoveElement(x, s)
  OBVIOUS
<1>2. u \in Seq(ids) /\ IsInjective(u) /\ x \in Seq(ids) /\ IsInjective(x)
  BY <1>1 DEF Sound, Brokers, Consistent
<1>3. Range(v) = Range(u) \ {s} /\ Range(y) = Range(x) \ {s}
  BY <1>1, <1>2, RemoveElementProperties
<1>4. r.subscribers = v /\ r.sessions = y
  BY <1>1 DEF RemoveSession, Brokers, Sound
<1> QED BY <1>1, <1>3, <1>4 DEF OnlyLost

(* So does the cleanup task with the sessions it removes.                  *)
LEMMA RemovedAllListed ==
    ASSUME NEW ids, NEW P, NEW b, Sound(b, ids, P), NEW gone, NEW r, r = RemoveSessions(b, gone)
    PROVE  OnlyLost(b, r, gone)
<1>1. PICK u, v, x, y :
        /\ u = b.subscribers /\ v = Kept(u, Range(u) \ gone)
        /\ x = b.sessions /\ y = Kept(x, Range(x) \ gone)
  OBVIOUS
<1>2. u \in Seq(ids) /\ IsInjective(u) /\ x \in Seq(ids) /\ IsInjective(x)
  BY <1>1 DEF Sound, Brokers, Consistent
<1>3. Range(v) = Range(u) \cap (Range(u) \ gone) /\ Range(y) = Range(x) \cap (Range(x) \ gone)
  BY <1>1, <1>2, KeptProperties
<1>4. r.subscribers = v /\ r.sessions = y
  BY <1>1 DEF RemoveSessions, Brokers, Sound
<1> QED BY <1>1, <1>3, <1>4 DEF OnlyLost

-----------------------------------------------------------------------------
(* A round that goes well with one packet: what it queues, and for whom. *)

(* queue_tx_packet that has not failed.                                    *)
LEMMA QueueTxOk ==
    ASSUME NEW ids, NEW P, NEW b \in Brokers(ids, P), NEW s \in ids, NEW m,
           NEW r, r = QueueTx(b, s, m), r.result = "Ok"
    PROVE  /\ b.result = "Ok" /\ r.rx = b.rx /\ r.subscribers = b.subscribers
           /\ r.tx[s] = Append(b.tx[s], m)
           /\ \A c \in ids : c # s => r.tx[c] = b.tx[c]
<1>1. b.result = "Ok"
  BY DEF QueueTx
<1>2. QueueResult(b, s, b.tx) = "Ok"
  <2> SUFFICES ASSUME QueueResult(b, s, b.tx) # "Ok" PROVE FALSE
    OBVIOUS
  <2>1. PICK v : v = QueueResult(b, s, b.tx)
    OBVIOUS
  <2>2. r = [b EXCEPT !.result = v]
    BY <1>1, <2>1 DEF QueueTx
  <2>3. r.result = v
    BY <2>2 DEF Brokers
  <2> QED BY <2>1, <2>3
<1>3. PICK tx : tx = [b.tx EXCEPT ![s] = Append(b.tx[s], m)]
  OBVIOUS
<1>4. r = [b EXCEPT !.tx[s] = Append(@, m)]
  BY <1>1, <1>2 DEF QueueTx
<1>5. r = [b EXCEPT !.tx = tx]
  BY <1>3, <1>4
<1>6. b.tx \in [ids -> Seq(Replies(P))]
  BY DEF Brokers
<1>7. tx[s] = Append(b.tx[s], m) /\ \A c \in ids : c # s => tx[c] = b.tx[c]
  BY <1>3, <1>6
<1>8. r.tx = tx /\ r.rx = b.rx /\ r.subscribers = b.subscribers
  BY <1>5 DEF Brokers
<1> QED BY <1>1, <1>7, <1>8

(* To whom p is delivered: the first n subscribers of b. *)
DeliveredTo(b, r, p, ids, n) ==
    /\ r.rx = b.rx /\ r.subscribers = b.subscribers
    /\ \A c \in ids : r.tx[c] = IF \E i \in 1..n : b.subscribers[i] = c
                                THEN Append(b.tx[c], p) ELSE b.tx[c]

(* The delivery loop that has not failed queues the message once for each  *)
(* subscriber.                                                             *)
LEMMA DeliverOk ==
    ASSUME NEW ids, NEW P, NEW S, NEW Q, NEW b \in Reach(ids, P, S, Q), NEW p \in P,
           NEW r, r = Deliver(b, p), r.result = "Ok"
    PROVE  /\ r.rx = b.rx /\ r.subscribers = b.subscribers
           /\ \A c \in ids : r.tx[c] = IF c \in Range(b.subscribers)
                                       THEN Append(b.tx[c], p) ELSE b.tx[c]
<1> DEFINE V == Reach(ids, P, S, Q)
           N == Len(b.subscribers)
           W == [n \in 0..N |-> {v \in V : v.result = "Ok" => DeliveredTo(b, v, p, ids, n)}]
<1>1. PICK to : DeliverSteps(to, b, p, V)
  BY DeliverRuns
<1>2. b.subscribers \in Seq(ids) /\ IsInjective(b.subscribers) /\ b \in Brokers(ids, P)
  BY DEF Reach, Brokers, Consistent
<1>3. N \in Nat /\ DOMAIN b.subscribers = 1..N
  BY <1>2, LenProperties
<1>4. \A n \in 0..N : W[n] = {v \in V : v.result = "Ok" => DeliveredTo(b, v, p, ids, n)}
  OBVIOUS
<1>5. to[0] \in W[0]
  <2>1. to[0] = b /\ b \in V
    BY <1>1 DEF DeliverSteps
  <2>2. DeliveredTo(b, b, p, ids, 0)
    BY DEF DeliveredTo
  <2> QED BY <1>3, <2>1, <2>2
<1> HIDE DEF W
<1>6. ASSUME NEW n \in 1..N, to[n - 1] \in W[n - 1] PROVE to[n] \in W[n]
  <2>0. n - 1 \in 0..N /\ n \in 0..N
    BY <1>3
  <2>1. PICK v, u, c : v = to[n - 1] /\ u = to[n] /\ c = b.subscribers[n]
    OBVIOUS
  <2>2. v \in V /\ u \in V /\ u = QueueTx(v, c, p) /\ c \in ids
    BY <1>1, <1>2, <2>0, <2>1 DEF DeliverSteps
  <2>3. ASSUME u.result = "Ok" PROVE DeliveredTo(b, u, p, ids, n)
    <3>1. v \in Brokers(ids, P)
      BY <2>2 DEF Reach
    <3>2. /\ v.result = "Ok" /\ u.rx = v.rx /\ u.subscribers = v.subscribers
          /\ u.tx[c] = Append(v.tx[c], p) /\ \A d \in ids : d # c => u.tx[d] = v.tx[d]
      BY <2>2, <2>3, <3>1, QueueTxOk
    <3>3. DeliveredTo(b, v, p, ids, n - 1)
      BY <1>4, <1>6, <2>0, <2>1, <3>2
    <3>4. \A i \in 1..(n - 1) : b.subscribers[i] # c
      BY <1>2, <1>3, <2>1 DEF IsInjective
    <3>5. u.tx[c] = Append(b.tx[c], p)
      BY <2>2, <3>2, <3>3, <3>4 DEF DeliveredTo
    <3>6. ASSUME NEW d \in ids
          PROVE  u.tx[d] = IF \E i \in 1..n : b.subscribers[i] = d
                           THEN Append(b.tx[d], p) ELSE b.tx[d]
      <4>1. CASE d = c
        <5>1. n \in 1..n /\ b.subscribers[n] = d
          BY <1>3, <2>1, <4>1
        <5> QED BY <3>5, <4>1, <5>1
      <4>2. CASE d # c
        <5>1. (\E i \in 1..n : b.subscribers[i] = d) <=>
                (\E i \in 1..(n - 1) : b.subscribers[i] = d)
          BY <1>3, <2>1, <4>2
        <5> QED BY <3>2, <3>3, <4>2, <5>1 DEF DeliveredTo
      <4> QED BY <4>1, <4>2
    <3> QED BY <3>2, <3>3, <3>6 DEF DeliveredTo
  <2> QED BY <1>4, <2>0, <2>1, <2>2, <2>3
<1>7. to[N] \in W[N] /\ N \in 0..N
  <2>1. \A n \in 0..N : to[n] \in W[n]
    BY <1>3, <1>5, <1>6, LoopHolds
  <2> QED BY <1>3, <2>1
<1>8. r = to[N]
  BY <1>1 DEF DeliverSteps
<1>9. DeliveredTo(b, r, p, ids, N)
  BY <1>4, <1>7, <1>8
<1>10. \A c : c \in Range(b.subscribers) <=> \E i \in 1..N : b.subscribers[i] = c
  BY <1>3 DEF Range
<1> QED BY <1>9, <1>10 DEF DeliveredTo

(* What one packet p of session s adds to the queues: a message to those   *)
(* of the subscribers, anything else at most an answer.                    *)
Handles(b, r, s, p, ids, P) ==
    /\ Range(b.subscribers) \subseteq Range(r.subscribers)
    /\ p.type = "publish" =>
         /\ r.subscribers = b.subscribers
         /\ \A c \in ids : r.tx[c] = IF c \in Range(b.subscribers)
                                     THEN Append(b.tx[c], p) ELSE b.tx[c]
    /\ p.type # "publish" =>
         \A c \in ids : \/ r.tx[c] = b.tx[c]
                        \/ \E m \in Replies(P) : /\ m.type # "publish"
                                                 /\ r.tx[c] = Append(b.tx[c], m)

(* subscribe adds a subscriber, or none, and leaves the queues alone.      *)
LEMMA SubscribeKeeps ==
    ASSUME NEW ids, NEW P, NEW b \in Brokers(ids, P), NEW s \in ids, NEW r, r = Subscribe(b, s)
    PROVE  r.rx = b.rx /\ r.tx = b.tx /\ Range(b.subscribers) \subseteq Range(r.subscribers)
<1>1. CASE r = [b EXCEPT !.subscribers = Append(@, s)]
  <2>1. r.rx = b.rx /\ r.tx = b.tx /\ r.subscribers = Append(b.subscribers, s)
    BY <1>1 DEF Brokers
  <2>2. b.subscribers \in Seq(ids)
    BY DEF Brokers
  <2>3. Range(Append(b.subscribers, s)) = Range(b.subscribers) \cup {s}
    BY <2>2, AppendElement
  <2> QED BY <2>1, <2>3
<1>2. CASE r = b \/ \E v : r = [b EXCEPT !.result = v]
  BY <1>2 DEF Brokers
<1> QED BY <1>1, <1>2 DEF Subscribe

(* handle_packet_from_client of a packet of QoS 0 that has not failed.     *)
LEMMA HandlePacketOk ==
    ASSUME NEW ids, NEW P, NEW S, NEW Q, NEW a \in Reach(ids, P, S, Q),
           NEW s \in ids, s \in Range(S), a.rx[s] # <<>>,
           NEW p, p = Head(a.rx[s]), p.qos = 0,
           NEW r, r = HandlePacket(a, s), r.result = "Ok"
    PROVE  /\ r.rx[s] = Tail(a.rx[s]) /\ \A c \in ids : c # s => r.rx[c] = a.rx[c]
           /\ Handles(a, r, s, p, ids, P)
<1> DEFINE b == [a EXCEPT !.rx[s] = Tail(@)]
<1>1. p \in P /\ s \notin Q /\ b \in Reach(ids, P, S, Q)
  BY DequeueReach
<1>2. /\ b.tx = a.tx /\ b.subscribers = a.subscribers
      /\ b.rx[s] = Tail(a.rx[s]) /\ \A c \in ids : c # s => b.rx[c] = a.rx[c]
  <2>1. a \in Brokers(ids, P)
    BY DEF Reach
  <2>2. a.rx \in [ids -> Seq(P)]
    BY <2>1 DEF Brokers
  <2>3. PICK q : q = [a.rx EXCEPT ![s] = Tail(a.rx[s])]
    OBVIOUS
  <2>4. b = [a EXCEPT !.rx = q]
    BY <2>3
  <2>5. q[s] = Tail(a.rx[s]) /\ \A c \in ids : c # s => q[c] = a.rx[c]
    BY <2>2, <2>3
  <2> HIDE DEF b
  <2>6. b.tx = a.tx /\ b.subscribers = a.subscribers /\ b.rx = q
    BY <2>1, <2>4 DEF Brokers
  <2> QED BY <2>5, <2>6
<1>3. r =
        CASE p.type = "connect" -> HandleConnect(b, s)
          [] p.type = "pingreq" -> QueueTx(b, s, [type |-> "pingresp"])
          [] p.type = "subscribe" -> QueueTx(Subscribe(b, s), s, [type |-> "suback"])
          [] p.type = "disconnect" -> [b EXCEPT !.state[s] = "Disconnected"]
          [] p.type = "publish" -> HandlePublish(b, s, p)
          [] OTHER -> b
  BY DEF HandlePacket
<1> HIDE DEF b
<1>4. b \in Brokers(ids, P)
  BY <1>1 DEF Reach
<1>5. ASSUME NEW v \in Reach(ids, P, S, Q), v.rx = b.rx, v.tx = b.tx,
             Range(b.subscribers) \subseteq Range(v.subscribers),
             NEW type \in {"connack", "pingresp", "suback"},
             r = QueueTx(v, s, [type |-> type]), p.type # "publish"
      PROVE  /\ r.rx = b.rx /\ Handles(b, r, s, p, ids, P)
  <2>1. v \in Brokers(ids, P)
    BY <1>5 DEF Reach
  <2>2. PICK m : m = [type |-> type]
    OBVIOUS
  <2>3. m \in Replies(P) /\ m.type # "publish"
    BY <2>2 DEF Replies
  <2>4. r = QueueTx(v, s, m) /\ r.result = "Ok"
    BY <1>5, <2>2
  <2>5. /\ r.rx = v.rx /\ r.subscribers = v.subscribers /\ r.tx[s] = Append(v.tx[s], m)
        /\ \A c \in ids : c # s => r.tx[c] = v.tx[c]
    BY <2>1, <2>4, QueueTxOk
  <2> QED BY <1>5, <2>3, <2>5 DEF Handles
<1>6. ASSUME NEW x \in States, NEW v, v = [b EXCEPT !.state[s] = x]
      PROVE  /\ v \in Reach(ids, P, S, Q) /\ v.rx = b.rx /\ v.tx = b.tx
             /\ v.subscribers = b.subscribers
  <2>1. v \in Reach(ids, P, S, Q)
    BY <1>1, <1>6, StateReach
  <2> QED BY <1>4, <1>6, <2>1 DEF Brokers
<1>7. "Connected" \in States /\ "Disconnected" \in States
  BY DEF States
<1>8. r.rx = b.rx /\ Handles(b, r, s, p, ids, P)
  <2>1. CASE p.type = "connect"
    <3>1. PICK v : v = [b EXCEPT !.state[s] = "Connected"]
      OBVIOUS
    <3>2. r = QueueTx(v, s, [type |-> "connack"])
      BY <1>3, <2>1, <3>1 DEF HandleConnect
    <3>3. /\ v \in Reach(ids, P, S, Q) /\ v.rx = b.rx /\ v.tx = b.tx
          /\ v.subscribers = b.subscribers
      BY <1>6, <1>7, <3>1
    <3> QED BY <1>5, <2>1, <3>2, <3>3
  <2>2. CASE p.type = "pingreq"
    <3>1. r = QueueTx(b, s, [type |-> "pingresp"])
      BY <1>3, <2>2
    <3> QED BY <1>1, <1>5, <2>2, <3>1
  <2>3. CASE p.type = "subscribe"
    <3>1. PICK v : v = Subscribe(b, s)
      OBVIOUS
    <3>2. r = QueueTx(v, s, [type |-> "suback"])
      BY <1>3, <2>3, <3>1
    <3>3. v \in Reach(ids, P, S, Q)
      BY <1>1, <3>1, SubscribeReach
    <3>4. v.rx = b.rx /\ v.tx = b.tx /\ Range(b.subscribers) \subseteq Range(v.subscribers)
      BY <1>4, <3>1, SubscribeKeeps
    <3> QED BY <1>5, <2>3, <3>2, <3>3, <3>4
  <2>4. CASE p.type = "disconnect"
    <3>1. r = [b EXCEPT !.state[s] = "Disconnected"]
      BY <1>3, <2>4
    <3>2. r.rx = b.rx /\ r.tx = b.tx /\ r.subscribers = b.subscribers
      BY <1>6, <1>7, <3>1
    <3> QED BY <2>4, <3>2 DEF Handles
  <2>5. CASE p.type = "publish"
    <3>1. r = Deliver(b, p)
      BY <1>3, <2>5 DEF HandlePublish
    <3>2. /\ r.rx = b.rx /\ r.subscribers = b.subscribers
          /\ \A c \in ids : r.tx[c] = IF c \in Range(b.subscribers)
                                      THEN Append(b.tx[c], p) ELSE b.tx[c]
      BY <1>1, <3>1, DeliverOk
    <3> QED BY <2>5, <3>2 DEF Handles
  <2>6. CASE p.type \notin {"connect", "pingreq", "subscribe", "disconnect", "publish"}
    <3>1. r = b
      BY <1>3, <2>6
    <3> QED BY <2>6, <3>1 DEF Handles
  <2> QED BY <2>1, <2>2, <2>3, <2>4, <2>5, <2>6
<1> QED BY <1>2, <1>8 DEF Handles

(* The while loop over a receive queue with nothing in it, or after an     *)
(* error, does nothing; with one packet it has one turn.                   *)
LEMMA DrainShort ==
    ASSUME NEW ids, NEW P, NEW S, NEW Q, NEW a \in Reach(ids, P, S, Q),
           NEW s \in ids, s \in Range(S), NEW r, r = Drain(a, s)
    PROVE  /\ a.rx[s] = <<>> \/ a.result # "Ok" => r = a
           /\ Len(a.rx[s]) = 1 /\ a.result = "Ok" => r = HandlePacket(a, s)
<1> DEFINE N == Len(a.rx[s])
<1>1. PICK after : DrainSteps(after, a, s, Reach(ids, P, S, Q))
  BY DrainRuns
<1>2. /\ after[0] = a /\ r = after[N]
      /\ \A n \in 1..N : after[n] = Turn(after[n - 1], s)
  BY <1>1 DEF DrainSteps
<1>3. a.rx[s] \in Seq(P) /\ N \in Nat
  <2>1. a.rx[s] \in Seq(P)
    BY DEF Reach, Brokers
  <2> QED BY <2>1, LenProperties
<1>4. ASSUME a.rx[s] = <<>> \/ a.result # "Ok" PROVE r = a
  <2>1. Turn(a, s) = a
    BY <1>4 DEF Turn
  <2> DEFINE V == {a}
  <2>2. after[0] \in V /\ \A n \in 1..N : after[n - 1] \in V => after[n] \in V
    BY <1>2, <2>1
  <2> HIDE DEF V, N
  <2>3. \A n \in 0..N : after[n] \in V
    BY <1>3, <2>2, LoopStays
  <2>4. N \in 0..N
    BY <1>3
  <2>5. after[N] \in V
    BY <2>3, <2>4
  <2> QED BY <1>2, <2>5 DEF V
<1>5. ASSUME N = 1, a.result = "Ok" PROVE r = HandlePacket(a, s)
  <2>1. 1 \in 1..N /\ 1 - 1 = 0
    BY <1>5
  <2>2. r = Turn(a, s)
    BY <1>2, <1>5, <2>1
  <2>3. Len(<<>>) = 0
    OBVIOUS
  <2>4. a.rx[s] # <<>>
    <3>1. ASSUME a.rx[s] = <<>> PROVE N = 0
      BY <2>3, <3>1, Zenon
    <3> HIDE DEF N
    <3> QED BY <1>5, <3>1
  <2> QED BY <1>5, <2>2, <2>4 DEF Turn
<1> QED BY <1>4, <1>5

(* process_all_session_packets that has not failed, when all that waits is *)
(* one packet p of session s.                                              *)
LEMMA ProcessSingle ==
    ASSUME NEW ids, NEW P, NEW S, NEW Q, NEW b \in Reach(ids, P, S, Q),
           NEW s \in ids, s \in Range(S), NEW p, p.qos = 0, b.rx[s] = <<p>>,
           \A c \in ids : c # s => b.rx[c] = <<>>,
           NEW r, r = ProcessAll(b), r.result = "Ok"
    PROVE  (\A c \in ids : r.rx[c] = <<>>) /\ Handles(b, r, s, p, ids, P)
<1> DEFINE V == Reach(ids, P, S, Q)
           N == Len(b.sessions)
           v0 == [b EXCEPT !.result = "Ok"]
           Done(v) == (\A c \in ids : v.rx[c] = <<>>) /\ Handles(b, v, s, p, ids, P)
           Seen(n) == \E i \in 1..n : b.sessions[i] = s
           W == [n \in 0..N |-> {v \in V : v.result = "Ok" =>
                                             IF Seen(n) THEN Done(v) ELSE v = v0}]
<1>1. PICK after : ProcessSteps(after, b, V)
  BY ProcessAllRuns
<1>2. /\ b.sessions \in Seq(ids) /\ b.sessions = S /\ N \in Nat /\ b \in Brokers(ids, P)
      /\ DOMAIN b.sessions = 1..N
  BY LenProperties DEF Reach, Brokers
<1>3. /\ v0 \in V /\ v0.rx = b.rx /\ v0.tx = b.tx /\ v0.subscribers = b.subscribers
      /\ v0.result = "Ok"
  <2>1. "Ok" \in Results
    BY DEF Results
  <2>2. v0 \in V
    BY <2>1, StateReach
  <2> QED BY <1>2, <2>2 DEF Brokers
<1>4. \A n \in 0..N : W[n] = {v \in V : v.result = "Ok" =>
                                          IF Seen(n) THEN Done(v) ELSE v = v0}
  OBVIOUS
<1>5. /\ after[0] = v0 /\ r = after[N] /\ \A n \in 0..N : after[n] \in V
      /\ \A n \in 1..N : after[n] = Drain(after[n - 1], b.sessions[n])
  BY <1>1 DEF ProcessSteps
<1> HIDE DEF W, v0
<1>6. after[0] \in W[0]
  <2>1. ~Seen(0) /\ 0 \in 0..N
    BY <1>2
  <2> QED BY <1>3, <1>4, <1>5, <2>1
<1>7. ASSUME NEW n \in 1..N, after[n - 1] \in W[n - 1] PROVE after[n] \in W[n]
  <2>0. n - 1 \in 0..N /\ n \in 0..N
    BY <1>2
  <2>1. PICK v, u, c : v = after[n - 1] /\ u = after[n] /\ c = b.sessions[n]
    OBVIOUS
  <2>2. v \in V /\ u \in V /\ u = Drain(v, c) /\ c \in ids /\ c \in Range(S)
    BY <1>2, <1>5, <2>0, <2>1 DEF Range
  <2>3. Seen(n) <=> Seen(n - 1) \/ c = s
    <3>1. \A i \in 1..n : i = n \/ i \in 1..(n - 1)
      BY <1>2
    <3>2. n \in 1..n /\ \A i \in 1..(n - 1) : i \in 1..n
      BY <1>2
    <3> QED BY <2>1, <3>1, <3>2
  <2>4. ASSUME u.result = "Ok" PROVE IF Seen(n) THEN Done(u) ELSE u = v0
    <3>1. v.result = "Ok"
      BY <2>2, <2>4, DrainShort
    <3>2. IF Seen(n - 1) THEN Done(v) ELSE v = v0
      BY <1>4, <1>7, <2>0, <2>1, <3>1
    <3> HIDE DEF Seen
    <3>3. CASE Seen(n - 1)
      <4>1. Done(v)
        BY <3>2, <3>3
      <4>2. v.rx[c] = <<>>
        BY <2>2, <4>1
      <4>3. u = v
        BY <2>2, <4>2, DrainShort
      <4> QED BY <2>3, <3>3, <4>1, <4>3
    <3>4. CASE ~Seen(n - 1) /\ c # s
      <4>1. v = v0 /\ v.rx[c] = <<>>
        BY <1>3, <2>2, <3>2, <3>4
      <4>2. u = v
        BY <2>2, <4>1, DrainShort
      <4> QED BY <2>3, <3>4, <4>1, <4>2
    <3>5. CASE ~Seen(n - 1) /\ c = s
      <4>1. v = v0 /\ v.rx[s] = <<p>>
        BY <1>3, <3>2, <3>5
      <4>2. /\ v.rx[s] # <<>> /\ Len(v.rx[s]) = 1 /\ Head(v.rx[s]) = p
            /\ Tail(v.rx[s]) = <<>>
        BY <4>1
      <4>3. u = HandlePacket(v, s)
        BY <2>2, <3>1, <3>5, <4>2, DrainShort
      <4>4. /\ u.rx[s] = <<>> /\ \A d \in ids : d # s => u.rx[d] = v.rx[d]
            /\ Handles(v, u, s, p, ids, P)
        <5>1. /\ u.rx[s] = Tail(v.rx[s]) /\ \A d \in ids : d # s => u.rx[d] = v.rx[d]
              /\ Handles(v, u, s, p, ids, P)
          BY <2>2, <2>4, <4>2, <4>3, HandlePacketOk
        <5> QED BY <4>2, <5>1
      <4>5. Handles(b, u, s, p, ids, P)
        BY <1>3, <4>1, <4>4 DEF Handles
      <4>6. \A d \in ids : u.rx[d] = <<>>
        BY <1>3, <4>1, <4>4
      <4> QED BY <2>3, <3>5, <4>5, <4>6
    <3> QED BY <3>3, <3>4, <3>5
  <2> HIDE DEF Seen
  <2> QED BY <1>4, <2>0, <2>1, <2>2, <2>4
<1>8. after[N] \in W[N] /\ N \in 0..N
  <2>1. \A n \in 0..N : after[n] \in W[n]
    BY <1>2, <1>6, <1>7, LoopHolds
  <2> QED BY <1>2, <2>1
<1>9. Seen(N)
  BY <1>2 DEF Range
<1> HIDE DEF Seen
<1> QED BY <1>4, <1>5, <1>8, <1>9

(* A round that goes well, of a broker that has nothing left to handle: it *)
(* handles the packet, and has nothing left to handle again.               *)
LEMMA RoundOk ==
    ASSUME NEW ids, NEW P, NEW b, Sound(b, ids, P), \A c \in ids : b.rx[c] = <<>>,
           NEW s \in ids, NEW p \in P, p.qos = 0,
           NEW r, r = Round(b, s, p), r.result = "Ok"
    PROVE  (\A c \in ids : r.rx[c] = <<>>) /\ Handles(b, r, s, p, ids, P)
<1>1. b \in Reach(ids, P, b.sessions, {}) /\ b \in Brokers(ids, P)
  BY DEF Sound, Reach
<1>2. PICK v : v = QueueReceived(b, s, p)
  OBVIOUS
<1>3. v.result = "Ok" /\ r = ProcessAll(v)
  BY <1>2 DEF Round
<1>4. v \in Reach(ids, P, b.sessions, {})
  BY <1>1, <1>2, QueueReceivedReach
<1>5. QueueResult(b, s, b.rx) = "Ok"
  <2> SUFFICES ASSUME QueueResult(b, s, b.rx) # "Ok" PROVE FALSE
    OBVIOUS
  <2>1. PICK e : e = QueueResult(b, s, b.rx)
    OBVIOUS
  <2>2. v = [b EXCEPT !.result = e]
    BY <1>2, <2>1 DEF QueueReceived
  <2>3. v.result = e
    BY <1>1, <2>2 DEF Brokers
  <2> QED BY <1>3, <2>1, <2>3
<1>6. s \in Range(b.sessions)
  BY <1>5 DEF QueueResult
<1>7. /\ v.rx[s] = <<p>> /\ \A c \in ids : c # s => v.rx[c] = <<>>
      /\ v.tx = b.tx /\ v.subscribers = b.subscribers
  <2>1. PICK rx : rx = [b.rx EXCEPT ![s] = Append(b.rx[s], p)]
    OBVIOUS
  <2>2. v = [b EXCEPT !.rx[s] = Append(@, p), !.result = "Ok"]
    BY <1>2, <1>5 DEF QueueReceived
  <2>3. v = [b EXCEPT !.rx = rx, !.result = "Ok"]
    BY <2>1, <2>2
  <2>4. b.rx \in [ids -> Seq(P)]
    BY <1>1 DEF Brokers
  <2>5. rx[s] = <<p>> /\ \A c \in ids : c # s => rx[c] = <<>>
    <3>1. b.rx[s] = <<>> /\ Append(<<>>, p) = <<p>>
      OBVIOUS
    <3>2. rx[s] = Append(<<>>, p)
      BY <2>1, <2>4, <3>1
    <3> QED BY <2>1, <2>4, <3>1, <3>2
  <2>6. v.rx = rx /\ v.tx = b.tx /\ v.subscribers = b.subscribers
    BY <1>1, <2>3 DEF Brokers
  <2> QED BY <2>5, <2>6
<1>8. (\A c \in ids : r.rx[c] = <<>>) /\ Handles(v, r, s, p, ids, P)
  BY <1>3, <1>4, <1>6, <1>7, ProcessSingle
<1> QED BY <1>7, <1>8 DEF Handles
=============================================================================
