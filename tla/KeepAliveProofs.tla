-------------------------- MODULE KeepAliveProofs --------------------------
(***************************************************************************)
(* Theorems about KeepAlive, for every value of its constants.             *)
(***************************************************************************)
EXTENDS KeepAlive, SequenceTheorems, TLAPS

CleanupWaits == waiting \in {<<"cleanup">>, <<"handler", "cleanup">>, <<"cleanup", "handler">>}

(* What the registry has recorded: every packet the handler has read,      *)
(* except the one it is about to queue, and every packet read before the   *)
(* cleanup task read the clock, except one whose handler is ahead of the   *)
(* task in the mutex's queue.                                              *)
Recorded ==
    /\ handler_activity <= now
    /\ (registered /\ pc # "queue") => last_activity >= handler_activity
    /\ CleanupWaits => read_before_scan <= now
    /\ (/\ registered /\ CleanupWaits
        /\ ~(pc = "queue" /\ waiting = <<"handler", "cleanup">>))
       => last_activity >= read_before_scan

(* The inductive invariant. *)
KeepAliveInv == TypeOK /\ Recorded

(* The mutex's queue, by its five values.                                  *)
LEMMA MutexQueue ==
    ASSUME TypeOK
    PROVE  /\ Holds("handler") <=> waiting \in {<<"handler">>, <<"handler", "cleanup">>}
           /\ Holds("cleanup") <=> waiting \in {<<"cleanup">>, <<"cleanup", "handler">>}
           /\ Sleeping <=> waiting \in {<<>>, <<"handler">>}
<1>1. CASE waiting = <<>>
  BY <1>1 DEF Holds, Sleeping
<1>2. CASE waiting = <<"handler">>
  BY <1>2 DEF Holds, Sleeping
<1>3. CASE waiting = <<"cleanup">>
  BY <1>3 DEF Holds, Sleeping
<1>4. CASE waiting = <<"handler", "cleanup">>
  BY <1>4 DEF Holds, Sleeping
<1>5. CASE waiting = <<"cleanup", "handler">>
  BY <1>5 DEF Holds, Sleeping
<1> QED BY <1>1, <1>2, <1>3, <1>4, <1>5 DEF TypeOK

(* The queue of one task and a second one that asks for the lock.          *)
LEMMA AppendToOne ==
    ASSUME NEW a, NEW b
    PROVE  Append(<<a>>, b) = <<a, b>>
<1> DEFINE S == {a, b}
<1>1. <<a>> \in Seq(S) /\ Len(<<a>>) = 1 /\ <<a, b>> \in Seq(S) /\ Len(<<a, b>>) = 2
  OBVIOUS
<1>2. /\ Append(<<a>>, b) \in Seq(S) /\ Len(Append(<<a>>, b)) = 2
      /\ \A i \in 1..1 : Append(<<a>>, b)[i] = <<a>>[i]
      /\ Append(<<a>>, b)[2] = b
  BY <1>1, AppendProperties
<1>3. \A i \in 1..2 : Append(<<a>>, b)[i] = <<a, b>>[i]
  BY <1>2
<1> QED BY <1>1, <1>2, <1>3, SeqEqual

(* Asking for the lock, and giving it up.                                  *)
LEMMA MutexSteps ==
    /\ (waiting = <<"handler">> /\ Unlock) => waiting' = <<>>
    /\ (waiting = <<"cleanup">> /\ Unlock) => waiting' = <<>>
    /\ (waiting = <<"handler", "cleanup">> /\ Unlock) => waiting' = <<"cleanup">>
    /\ (waiting = <<"cleanup", "handler">> /\ Unlock) => waiting' = <<"handler">>
    /\ (waiting = <<>> /\ Lock("handler")) => waiting' = <<"handler">>
    /\ (waiting = <<>> /\ Lock("cleanup")) => waiting' = <<"cleanup">>
    /\ (waiting = <<"handler">> /\ Lock("cleanup")) => waiting' = <<"handler", "cleanup">>
    /\ (waiting = <<"cleanup">> /\ Lock("handler")) => waiting' = <<"cleanup", "handler">>
<1>1. (waiting = <<"handler">> /\ Unlock) => waiting' = <<>>
  BY DEF Unlock
<1>2. (waiting = <<"cleanup">> /\ Unlock) => waiting' = <<>>
  BY DEF Unlock
<1>3. (waiting = <<"handler", "cleanup">> /\ Unlock) => waiting' = <<"cleanup">>
  BY DEF Unlock
<1>4. (waiting = <<"cleanup", "handler">> /\ Unlock) => waiting' = <<"handler">>
  BY DEF Unlock
<1>5. (waiting = <<>> /\ Lock("handler")) => waiting' = <<"handler">>
  BY DEF Lock
<1>6. (waiting = <<>> /\ Lock("cleanup")) => waiting' = <<"cleanup">>
  BY DEF Lock
<1>7. (waiting = <<"handler">> /\ Lock("cleanup")) => waiting' = <<"handler", "cleanup">>
  BY AppendToOne DEF Lock
<1>8. (waiting = <<"cleanup">> /\ Lock("handler")) => waiting' = <<"cleanup", "handler">>
  BY AppendToOne DEF Lock
<1> QED BY <1>1, <1>2, <1>3, <1>4, <1>5, <1>6, <1>7, <1>8

(* No two values of the queue are the same.                                *)
LEMMA QueuesDiffer ==
    /\ <<"handler">> # <<>> /\ <<"cleanup">> # <<>>
    /\ <<"handler", "cleanup">> # <<>> /\ <<"cleanup", "handler">> # <<>>
    /\ <<"handler">> # <<"cleanup">>
    /\ <<"handler">> # <<"handler", "cleanup">> /\ <<"handler">> # <<"cleanup", "handler">>
    /\ <<"cleanup">> # <<"handler", "cleanup">> /\ <<"cleanup">> # <<"cleanup", "handler">>
    /\ <<"handler", "cleanup">> # <<"cleanup", "handler">>
  OBVIOUS

(* The initial state satisfies the invariant.                              *)
LEMMA KeepAliveInit == Init => KeepAliveInv
<1> SUFFICES ASSUME Init PROVE KeepAliveInv
  OBVIOUS
<1>1. TypeOK
  BY KeepAliveAssumption, QueuesDiffer, EmptySeq DEF Init, TypeOK
<1>2. Recorded
  BY DEF Init, Recorded, CleanupWaits
<1> QED BY <1>1, <1>2 DEF KeepAliveInv

(* Every step keeps the types.                                             *)
LEMMA KeepAliveType ==
    ASSUME TypeOK, [Next]_vars
    PROVE  TypeOK'
<1> USE DEF session, handler, cleanup
<1>1. CASE Register
  BY <1>1, MutexQueue, MutexSteps, QueuesDiffer, EmptySeq, KeepAliveAssumption DEF Register, TypeOK
<1>2. CASE ReadPacket
  <2>1. socket \in Seq(Packets \cup {Eof}) /\ socket # <<>>
    BY <1>2 DEF ReadPacket, TypeOK
  <2>2. Head(socket) \in Packets \cup {Eof} /\ Tail(socket) \in Seq(Packets \cup {Eof})
    BY <2>1
  <2> QED BY <1>2, <2>2, MutexQueue, MutexSteps, QueuesDiffer DEF ReadPacket, TypeOK
<1>3. CASE ReadEof
  BY <1>3, MutexQueue, MutexSteps, QueuesDiffer DEF ReadEof, TypeOK
<1>4. CASE KeepAliveTimeout
  BY <1>4, MutexQueue, MutexSteps, QueuesDiffer DEF KeepAliveTimeout, TypeOK
<1>5. CASE QueuePacket
  <2>1. packet \in Packets /\ Append(rx, packet) \in Seq(Packets)
    BY <1>5 DEF QueuePacket, TypeOK
  <2> QED BY <1>5, <2>1, MutexQueue, MutexSteps, QueuesDiffer DEF QueuePacket, TypeOK
<1>6. CASE ProcessPacket
  <2>1. Head(rx) \in Packets /\ Tail(rx) \in Seq(Packets)
    BY <1>6 DEF ProcessPacket, TypeOK
  <2>2. keep_alive' \in Nat
    BY <1>6, <2>1, KeepAliveAssumption DEF ProcessPacket, TypeOK, Packets
  <2>3. state' \in {"Connecting", "Connected", "Disconnected"}
    BY <1>6 DEF ProcessPacket, TypeOK
  <2> QED BY <1>6, <2>1, <2>2, <2>3 DEF ProcessPacket, TypeOK
<1>7. CASE RoundOk
  BY <1>7, MutexQueue, MutexSteps, QueuesDiffer DEF RoundOk, TypeOK
<1>8. CASE RoundFails
  BY <1>8 DEF RoundFails, TypeOK
<1>9. CASE HandleError
  BY <1>9, MutexQueue, MutexSteps, QueuesDiffer DEF HandleError, TypeOK
<1>10. CASE Remove
  BY <1>10, MutexQueue, MutexSteps, QueuesDiffer, EmptySeq DEF Remove, remove_session, TypeOK
<1>11. CASE StartScan
  BY <1>11, MutexQueue, MutexSteps, QueuesDiffer, KeepAliveAssumption DEF StartScan, TypeOK
<1>12. CASE Scan
  <2>1. /\ waiting' \in {<<>>, <<"handler">>}
        /\ waiting' = <<>> <=> waiting = <<"cleanup">>
    BY <1>12, MutexQueue, MutexSteps, QueuesDiffer DEF Scan, TypeOK
  <2>2. CASE remove_session
    BY <1>12, <2>1, <2>2, MutexQueue, QueuesDiffer, EmptySeq DEF Scan, remove_session, TypeOK
  <2>3. CASE UNCHANGED session
    BY <1>12, <2>1, <2>3, MutexQueue, QueuesDiffer DEF Scan, TypeOK
  <2> QED BY <1>12, <2>2, <2>3 DEF Scan
<1>13. CASE Tick
  BY <1>13 DEF Tick, TypeOK
<1>14. CASE ClientSends
  <2>1. socket' \in Seq(Packets \cup {Eof})
    BY <1>14 DEF ClientSends, TypeOK
  <2> QED BY <1>14, <2>1 DEF ClientSends, TypeOK
<1>15. CASE RegisterFails
  BY <1>15, MutexQueue, MutexSteps, QueuesDiffer DEF RegisterFails, TypeOK
<1>16. CASE UNCHANGED vars
  BY <1>16 DEF vars, TypeOK
<1> QED
  BY <1>1, <1>2, <1>3, <1>4, <1>5, <1>6, <1>7, <1>8, <1>9, <1>10, <1>11, <1>12, <1>13,
     <1>14, <1>15, <1>16 DEF Next

(* Every step keeps what is recorded: a packet read before the scan's      *)
(* clock reading is recorded before the scan, since its handler asked for  *)
(* the lock first.                                                         *)
LEMMA KeepAliveRecorded ==
    ASSUME TypeOK, Recorded, [Next]_vars
    PROVE  Recorded'
<1> USE MutexQueue, MutexSteps, QueuesDiffer DEF session, handler, cleanup, Recorded, CleanupWaits, TypeOK
<1>1. CASE Register
  BY <1>1 DEF Register
<1>2. CASE ReadPacket
  <2>1. /\ waiting \in {<<>>, <<"cleanup">>}
        /\ waiting' = <<"handler">> \/ waiting' = <<"cleanup", "handler">>
        /\ waiting' = <<"cleanup", "handler">> => waiting = <<"cleanup">>
    BY <1>2 DEF ReadPacket
  <2>2. /\ pc = "select" /\ pc' = "queue"
        /\ handler_activity' = now /\ now' = now
        /\ registered' = registered /\ last_activity' = last_activity
        /\ read_before_scan' = read_before_scan
    BY <1>2 DEF ReadPacket
  <2>3. CleanupWaits' => CleanupWaits
    BY <2>1
  <2>4. CleanupWaits' => read_before_scan' <= now'
    BY <2>2, <2>3
  <2>5. (registered' /\ CleanupWaits') => last_activity' >= read_before_scan'
    BY <2>2, <2>3
  <2> QED BY <2>2, <2>4, <2>5
<1>3. CASE ReadEof
  BY <1>3 DEF ReadEof
<1>4. CASE KeepAliveTimeout
  BY <1>4 DEF KeepAliveTimeout
<1>5. CASE QueuePacket
  BY <1>5 DEF QueuePacket
<1>6. CASE ProcessPacket
  BY <1>6 DEF ProcessPacket
<1>7. CASE RoundOk
  BY <1>7 DEF RoundOk
<1>8. CASE RoundFails
  BY <1>8 DEF RoundFails
<1>9. CASE HandleError
  BY <1>9 DEF HandleError
<1>10. CASE Remove
  BY <1>10 DEF Remove, remove_session
<1>11. CASE StartScan
  BY <1>11 DEF StartScan
<1>12. CASE Scan
  BY <1>12 DEF Scan, remove_session
<1>13. CASE Tick
  BY <1>13 DEF Tick
<1>14. CASE ClientSends
  BY <1>14 DEF ClientSends
<1>15. CASE RegisterFails
  BY <1>15 DEF RegisterFails
<1>16. CASE UNCHANGED vars
  BY <1>16 DEF vars
<1> QED
  BY <1>1, <1>2, <1>3, <1>4, <1>5, <1>6, <1>7, <1>8, <1>9, <1>10, <1>11, <1>12, <1>13,
     <1>14, <1>15, <1>16 DEF Next

(* The invariant holds throughout.                                         *)
LEMMA KeepAliveInvariant == Spec => []KeepAliveInv
<1>1. KeepAliveInv /\ [Next]_vars => KeepAliveInv'
  BY KeepAliveType, KeepAliveRecorded DEF KeepAliveInv
<1> QED BY <1>1, KeepAliveInit, PTL DEF Spec

(* The state of the connection and the mutex's queue fit together.         *)
THEOREM KeepAliveTypeCorrect == Spec => []TypeOK
<1>1. KeepAliveInv => TypeOK
  BY DEF KeepAliveInv
<1> QED BY <1>1, KeepAliveInvariant, PTL

(* The cleanup task never sweeps a session as expired whose handler read a *)
(* packet within the timeout, for any default, interval and queue size,    *)
(* and however long the tasks wait for the lock.                           *)
THEOREM OnlySilentSessionsExpire == Spec => ExpiredMeansSilent
<1>1. ASSUME KeepAliveInv, [Next]_vars,
             Holds("cleanup"), registered, ~registered', state # "Disconnected"
      PROVE  scan_time - read_before_scan > timeout(keep_alive)
  <2>1. Scan
    BY <1>1, MutexQueue, MutexSteps, QueuesDiffer
       DEF KeepAliveInv, TypeOK, Next, vars, session, handler, cleanup, Register, RegisterFails,
           ReadPacket, ReadEof, KeepAliveTimeout, QueuePacket, ProcessPacket, RoundOk,
           RoundFails, HandleError, Remove, StartScan, Tick, ClientSends
  <2>2. is_expired(scan_time)
    BY <1>1, <2>1 DEF Scan, session
  <2>3. last_activity >= read_before_scan
    BY <1>1, MutexQueue, MutexSteps, QueuesDiffer DEF KeepAliveInv, Recorded, CleanupWaits
  <2>4. /\ scan_time \in Nat /\ last_activity \in Nat /\ read_before_scan \in Nat
        /\ timeout(keep_alive) \in Nat
    BY <1>1 DEF KeepAliveInv, TypeOK, timeout
  <2> QED BY <2>2, <2>3, <2>4 DEF is_expired
<1>2. KeepAliveInv /\ [Next]_vars =>
        [(/\ Holds("cleanup")
          /\ registered /\ ~registered'
          /\ state # "Disconnected")
         => scan_time - read_before_scan > timeout(keep_alive)]_vars
  BY <1>1
<1> QED BY <1>2, KeepAliveInvariant, PTL DEF Spec, ExpiredMeansSilent
=============================================================================
