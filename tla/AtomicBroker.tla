---------------------------- MODULE AtomicBroker ----------------------------
(***************************************************************************)
(* What the servers rely on: each call of PicoBroker, the whole of         *)
(* process_all_session_packets included, is one step with the effect       *)
(* module BrokerRound gives it.                                            *)
(***************************************************************************)
EXTENDS BrokerRound

CONSTANTS Ids, Packets

VARIABLE b

(* A call whose result the specification does not keep. *)
Call(after) == b' = [after EXCEPT !.result = b.result]

Init == b = EmptyBroker(Ids)

Next ==
    \/ b' = ProcessAll(b)
    \/ \E s \in Ids :
         \/ s \notin Range(b.sessions) /\ Call(RegisterNewSession(b, s))
         \/ Call(RemoveSession(b, s))
         \/ Call(MarkSessionDisconnected(b, s))
         \/ b.tx[s] # <<>> /\ Call([b EXCEPT !.tx[s] = Tail(@)])
         \/ \E p \in Packets : Call(QueueReceived(b, s, p))

Spec == Init /\ [][Next]_b
=============================================================================
