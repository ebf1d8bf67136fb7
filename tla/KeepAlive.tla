----------------------------- MODULE KeepAlive -----------------------------
(***************************************************************************)
(* The keep-alive of the Tokio server: one connection's handler task       *)
(* (handler.rs handle_connection) and the cleanup task (server.rs), which  *)
(* share the broker's mutex, with a clock that may move between any two of *)
(* their steps.                                                            *)
(*                                                                         *)
(* Of the broker this connection's session is kept.  The other sessions    *)
(* are there through what they can do to it: a round of processing started *)
(* by any handler takes packets of every session, and may end with an      *)
(* error at any place.  Sending packets and notifications is left out: it  *)
(* delays a handler, and a handler may be delayed anyway.                  *)
(***************************************************************************)
EXTENDS Integers, Sequences

CONSTANTS
    DEFAULT_KEEP_ALIVE,     \* config.default_keep_alive_secs
    CLEANUP_INTERVAL,       \* config.cleanup_interval_secs
    QUEUE_SIZE,
    KeepAlives,             \* what clients ask for in CONNECT, in seconds
    MaxTime,                \* bound: the clock, in seconds
    MaxUnread               \* bound: packets on their way to the handler

ASSUME KeepAliveAssumption ==
    /\ DEFAULT_KEEP_ALIVE \in Nat \ {0} /\ CLEANUP_INTERVAL \in Nat
    /\ QUEUE_SIZE \in Nat /\ MaxTime \in Nat /\ MaxUnread \in Nat
    /\ KeepAlives \subseteq Nat

VARIABLES
    now,                \* the clock
    registered, state, keep_alive, last_activity, rx,   \* the session
    waiting,            \* the mutex: its holder, then the tasks that wait
    pc,                 \* where the handler is
    socket,             \* what the client has sent and nobody has read
    packet,             \* the packet the handler has read, Eof while it has none
    handler_activity,   \* the handler's own last_activity
    wake,               \* when the cleanup task's sleep ends
    scan_time,          \* the cleanup task's current_time, while it scans
    read_before_scan    \* history: handler_activity when scan_time was read

session == <<registered, state, keep_alive, last_activity, rx>>
handler == <<pc, packet, handler_activity>>
cleanup == <<wake, scan_time, read_before_scan>>
vars == <<now, session, waiting, socket, handler, cleanup>>

Packets == [type : {"connect"}, keep_alive : KeepAlives]
    \cup [type : {"disconnect", "other"}]

(* The end of what can be read: the client has closed the connection, or   *)
(* sent what does not decode. The handler treats both alike.               *)
Eof == [type |-> "eof"]

timeout(ka) == (ka * 3) \div 2

-----------------------------------------------------------------------------
(* session.rs *)

(* Mutant: a subtraction that wraps around. *)
is_expired_Wrapping(current_time) ==
    /\ keep_alive # 0
    /\ (current_time - last_activity) % 2^16 > timeout(keep_alive)

(* ExpirationInfo::is_expired, with its saturating_sub. *)
is_expired(current_time) ==
    /\ keep_alive # 0
    /\ (IF current_time > last_activity THEN current_time - last_activity ELSE 0)
         > timeout(keep_alive)

remove_session ==
    /\ registered' = FALSE
    /\ state' = "Connecting"
    /\ keep_alive' = 0
    /\ last_activity' = 0
    /\ rx' = <<>>

-----------------------------------------------------------------------------
(* tokio::sync::Mutex hands the lock on in the order it was asked for. *)

Lock(task) == waiting' = Append(waiting, task)
Holds(task) == waiting # <<>> /\ Head(waiting) = task
Unlock == waiting' = Tail(waiting)

-----------------------------------------------------------------------------
(* The handler. *)

(* register_new_session, and on to the main loop. *)
Register ==
    /\ pc = "register"
    /\ Holds("handler")
    /\ registered' = TRUE
    /\ state' = "Connecting"
    /\ keep_alive' = DEFAULT_KEEP_ALIVE
    /\ last_activity' = now
    /\ rx' = <<>>
    /\ Unlock
    /\ pc' = "select"
    /\ handler_activity' = now
    /\ UNCHANGED <<now, socket, packet, cleanup>>

(* The registry is full: the connection is dropped. *)
RegisterFails ==
    /\ pc = "register"
    /\ Holds("handler")
    /\ Unlock
    /\ pc' = "closed"
    /\ UNCHANGED <<now, session, socket, packet, handler_activity, cleanup>>

(* read_packet returns a packet; broker.lock() is asked for at once. *)
ReadPacket ==
    /\ pc = "select"
    /\ socket # <<>> /\ Head(socket) # Eof
    /\ packet' = Head(socket)
    /\ socket' = Tail(socket)
    /\ handler_activity' = now
    /\ Lock("handler")
    /\ pc' = "queue"
    /\ UNCHANGED <<now, session, cleanup>>

(* read_packet returns None or an error. *)
ReadEof ==
    /\ pc = "select"
    /\ socket # <<>> /\ Head(socket) = Eof
    /\ Lock("handler")
    /\ pc' = "remove"
    /\ UNCHANGED <<now, session, socket, packet, handler_activity, cleanup>>

(* The sleep branch. *)
KeepAliveTimeout ==
    /\ pc = "select"
    /\ now - handler_activity >= timeout(DEFAULT_KEEP_ALIVE)
    /\ Lock("handler")
    /\ pc' = "remove"
    /\ UNCHANGED <<now, session, socket, packet, handler_activity, cleanup>>

(* queue_packet_received_from_client. *)
QueuePacket ==
    /\ pc = "queue"
    /\ Holds("handler")
    /\ last_activity' = IF registered THEN now ELSE last_activity
    /\ \/ /\ registered /\ Len(rx) < QUEUE_SIZE
          /\ rx' = Append(rx, packet)
          /\ pc' = "round"
       \/ /\ ~(registered /\ Len(rx) < QUEUE_SIZE)
          /\ pc' = "error"
          /\ UNCHANGED rx
    /\ packet' = Eof
    /\ UNCHANGED <<now, registered, state, keep_alive, waiting, socket,
                   handler_activity, cleanup>>

(* process_all_session_packets, this handler's or another's, takes a       *)
(* packet of the session.                                                  *)
ProcessPacket ==
    /\ registered /\ rx # <<>>
    /\ rx' = Tail(rx)
    /\ keep_alive' = IF Head(rx).type = "connect" THEN Head(rx).keep_alive ELSE keep_alive
    /\ state' = CASE Head(rx).type = "connect" -> "Connected"
                  [] Head(rx).type = "disconnect" -> "Disconnected"
                  [] OTHER -> state
    /\ UNCHANGED <<now, registered, last_activity, waiting, socket, handler, cleanup>>

(* The handler's round ends with Ok, and it goes back to the select. *)
RoundOk ==
    /\ pc = "round"
    /\ rx = <<>>
    /\ Unlock
    /\ pc' = "select"
    /\ UNCHANGED <<now, session, socket, packet, handler_activity, cleanup>>

(* It ends with an error, of this session's packet or of another's. *)
RoundFails ==
    /\ pc = "round"
    /\ pc' = "error"
    /\ UNCHANGED <<now, session, waiting, socket, packet, handler_activity,
                   cleanup>>

(* Mutant: without drop(broker_guard). *)
HandleError_NoDrop ==
    /\ pc = "error"
    /\ state' = IF registered THEN "Disconnected" ELSE state
    /\ pc' = "select"
    /\ UNCHANGED <<now, registered, keep_alive, last_activity, rx, waiting, socket,
                   packet, handler_activity, cleanup>>

(* The session is marked, the connection is kept. *)
HandleError ==
    /\ pc = "error"
    /\ state' = IF registered THEN "Disconnected" ELSE state
    /\ Unlock
    /\ pc' = "select"
    /\ UNCHANGED <<now, registered, keep_alive, last_activity, rx, socket, packet,
                   handler_activity, cleanup>>

Remove ==
    /\ pc = "remove"
    /\ Holds("handler")
    /\ remove_session
    /\ Unlock
    /\ pc' = "closed"
    /\ UNCHANGED <<now, socket, packet, handler_activity, cleanup>>

-----------------------------------------------------------------------------
(* The cleanup task. *)

Sleeping == \A i \in DOMAIN waiting : waiting[i] # "cleanup"

(* The task wakes, reads the clock, and asks for the lock. *)
StartScan ==
    /\ Sleeping
    /\ now >= wake
    /\ wake' = now + CLEANUP_INTERVAL
    /\ scan_time' = now
    /\ read_before_scan' = handler_activity
    /\ Lock("cleanup")
    /\ UNCHANGED <<now, session, socket, handler>>

(* With the lock: expired sessions go, then disconnected ones. *)
Scan ==
    /\ Holds("cleanup")
    /\ IF registered /\ (is_expired(scan_time) \/ state = "Disconnected")
       THEN remove_session
       ELSE UNCHANGED session
    /\ Unlock
    /\ scan_time' = 0
    /\ read_before_scan' = 0
    /\ UNCHANGED <<now, socket, handler, wake>>

-----------------------------------------------------------------------------

Tick ==
    /\ now < MaxTime
    /\ now' = now + 1
    /\ UNCHANGED <<session, waiting, socket, handler, cleanup>>

ClientSends ==
    /\ Len(socket) < MaxUnread
    /\ \A i \in DOMAIN socket : socket[i] # Eof
    /\ \E p \in Packets \cup {Eof} : socket' = Append(socket, p)
    /\ UNCHANGED <<now, session, waiting, handler, cleanup>>

Init ==
    /\ now = 0
    /\ registered = FALSE
    /\ state = "Connecting"
    /\ keep_alive = 0
    /\ last_activity = 0
    /\ rx = <<>>
    /\ waiting = <<"handler">>
    /\ pc = "register"
    /\ socket = <<>>
    /\ packet = Eof
    /\ handler_activity = 0
    /\ wake = CLEANUP_INTERVAL
    /\ scan_time = 0
    /\ read_before_scan = 0

Next ==
    \/ Register \/ RegisterFails \/ ReadPacket \/ ReadEof \/ KeepAliveTimeout
    \/ QueuePacket \/ ProcessPacket \/ RoundOk \/ RoundFails \/ HandleError
    \/ Remove
    \/ StartScan \/ Scan
    \/ Tick \/ ClientSends

Spec == Init /\ [][Next]_vars

-----------------------------------------------------------------------------
(* Properties. *)

(* Type correctness; the handler is in the mutex's queue exactly at the    *)
(* places where it waits for the lock or has it.                           *)
TypeOK ==
    /\ now \in Nat /\ wake \in Nat /\ scan_time \in Nat
    /\ registered \in BOOLEAN
    /\ state \in {"Connecting", "Connected", "Disconnected"}
    /\ keep_alive \in Nat /\ last_activity \in Nat
    /\ rx \in Seq(Packets)
    /\ waiting \in {<<>>, <<"handler">>, <<"cleanup">>, <<"handler", "cleanup">>,
                    <<"cleanup", "handler">>}
    /\ pc \in {"register", "select", "queue", "round", "error", "remove", "closed"}
    /\ pc \in {"select", "closed"} <=> waiting \in {<<>>, <<"cleanup">>}
    /\ pc \in {"round", "error"} => waiting \in {<<"handler">>, <<"handler", "cleanup">>}
    /\ socket \in Seq(Packets \cup {Eof}) /\ packet \in Packets \cup {Eof}
    /\ pc = "queue" <=> packet # Eof
    /\ handler_activity \in Nat /\ read_before_scan \in Nat

(* The cleanup task removes a session as expired only if its handler had   *)
(* read nothing, for more than the session's timeout, when the task read   *)
(* the clock: although it reads the clock before it waits for the lock,    *)
(* and a packet is recorded with the time at which the lock was got. A     *)
(* packet that nobody has read from the socket does not count as activity. *)
ExpiredMeansSilent ==
    [][(/\ Holds("cleanup")
        /\ registered /\ ~registered'
        /\ state # "Disconnected")
       => scan_time - read_before_scan > timeout(keep_alive)]_vars

(* session.rs:44: keep_alive=0 disables the keep-alive mechanism, and the  *)
(* session is only cleaned up when the TCP connection closes. So no timer  *)
(* closes the connection of a connected client that asked for 0.           *)
KeepAliveZeroDisables ==
    [][(/\ pc = "select" /\ pc' = "remove"
        /\ registered /\ state = "Connected" /\ keep_alive = 0)
       => socket # <<>> /\ Head(socket) = Eof]_vars
=============================================================================
