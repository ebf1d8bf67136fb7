---------------------------- MODULE TokioClient ----------------------------
(***************************************************************************)
(* The demonstration client (tokio_mqtt_client main.rs) against the Tokio  *)
(* server: it connects, waits for the CONNACK, publishes one message with  *)
(* QoS 0, sends DISCONNECT and shuts its socket down.  It is the client of *)
(* connection "me"; the other connections have the clients of TokioServer. *)
(***************************************************************************)
EXTENDS TokioServer

CONSTANT me

ASSUME ClientAssumption == me \in Connections /\ MaxSent[me] = 0 /\ "close" \notin Faults

VARIABLE step           \* what the client does next, or how it ended

system == <<vars, step>>

Message == [type |-> "publish", qos |-> 0, from |-> me, seq |-> 1]

(* write_all and flush of a packet; they fail on a closed connection. *)
Write(p, next) ==
    /\ IF Gone(me)
       THEN step' = "error" /\ UNCHANGED socket
       ELSE step' = next /\ socket' = [socket EXCEPT ![me] = Append(@, p)]
    /\ UNCHANGED <<shared, handler, received, sent, closed, stalled, failed>>

Connect == step = "connect" /\ pc[me] # "new" /\ Write([type |-> "connect"], "read_connack")

(* read_connack: any other packet is an error. *)
ReadConnack ==
    /\ step = "read_connack"
    /\ received[me] # <<>>
    /\ step' = IF Head(received[me]).type = "connack" THEN "publish" ELSE "error"
    /\ UNCHANGED vars

(* Mutant: a read of no bytes is not taken for the end. *)
ConnectionClosed_ReadsOn ==
    /\ step = "read_connack"
    /\ received[me] = <<>> /\ Gone(me)
    /\ UNCHANGED system

(* read_packet finds the connection closed by the server. *)
ConnectionClosed ==
    /\ step = "read_connack"
    /\ received[me] = <<>> /\ Gone(me)
    /\ step' = "error"
    /\ UNCHANGED vars

Publish == step = "publish" /\ Write(Message, "disconnect")

Disconnect == step = "disconnect" /\ Write([type |-> "disconnect"], "shutdown")

Shutdown ==
    /\ step = "shutdown"
    /\ closed' = [closed EXCEPT ![me] = TRUE]
    /\ step' = "ok"
    /\ UNCHANGED <<shared, handler, socket, received, sent, stalled, failed>>

-----------------------------------------------------------------------------

ClientStep ==
    Connect \/ ReadConnack \/ ConnectionClosed \/ Publish \/ Disconnect \/ Shutdown

SystemInit == Init /\ step = "connect"

SystemNext == (Next /\ UNCHANGED step) \/ ClientStep

(* The server's fairness, and the client is a task that is polled too. *)
SystemSpec ==
    /\ SystemInit /\ [][SystemNext]_system
    /\ \A c \in Connections : WF_vars(Accept(c)) /\ WF_vars(HandlerStep(c))
    /\ WF_vars(CleanupScan({}))
    /\ WF_system(ClientStep)

-----------------------------------------------------------------------------
(* Properties. *)

(* The client ends, and unless it was turned away it ends well: it gets    *)
(* its CONNACK, and nothing else before it.                                *)
ClientEndsWell == <>(step = "ok" \/ (step = "error" /\ pc[me] = "failed"))

(* main.rs logs "Message published successfully" once the packet is        *)
(* written.  Whoever is subscribed when the client is about to publish     *)
(* gets the message, although the client disconnects and closes at once.   *)
PublishedIsReceived ==
    \A c \in Connections :
        (step = "publish" /\ c \in Range(broker.subscribers))
            ~> (Message \in Range(received[c]) \/ failed)
=============================================================================
