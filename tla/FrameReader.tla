---------------------------- MODULE FrameReader ----------------------------
(***************************************************************************)
(* Packets out of a byte stream: read_packet of the Tokio server (io.rs),  *)
(* in the select! of handle_connection.  What the client has written       *)
(* arrives in pieces of any size, and read_packet may be cancelled at each *)
(* of its awaits, when another branch of the select! is taken; the read    *)
(* buffer outlives it.                                                     *)
(*                                                                         *)
(* A byte is a number.  The type byte and the body of the k-th packet are  *)
(* k's, which tells the packets apart; the length field is encoded as MQTT *)
(* does it, in base BASE (128), since where it ends is what matters here.  *)
(***************************************************************************)
EXTENDS Integers, SequencesExt

CONSTANTS
    BASE,               \* values of a length byte without its top bit
    Lengths,            \* remaining lengths of the packets clients send
    MaxPackets          \* bound: packets sent on the connection

ASSUME FrameAssumption ==
    /\ BASE \in Nat \ {0, 1} /\ MaxPackets \in Nat
    /\ Lengths \subseteq 0..(BASE * BASE * BASE * BASE - 1)

VARIABLES
    sent,           \* the packets the client has written, as frames
    closed,         \* the client has closed its side
    wire,           \* bytes written and not read
    buffer,         \* read_buffer
    total_len,      \* read_packet's local, 0 before it is known
    delivered,      \* packets read_packet has returned
    status          \* "open", or how the connection ended: "eof", "error"

vars == <<sent, closed, wire, buffer, total_len, delivered, status>>

-----------------------------------------------------------------------------
(* The length field. *)

(* What is left to encode before each digit (encoded >>= 7). *)
Encoded(n) ==
    LET b == n \div BASE
        c == b \div BASE
        d == c \div BASE
    IN <<n, b, c, d>>

(* utils.rs write_variable_length: digits from the lowest, each but the    *)
(* last with the top bit.                                                  *)
write_variable_length(n) ==
    LET size == CHOOSE k \in 1..4 :
                    Encoded(n)[k] < BASE /\ \A j \in 1..(k - 1) : Encoded(n)[j] >= BASE
    IN [i \in 1..size |-> (Encoded(n)[i] % BASE) + (IF i < size THEN BASE ELSE 0)]

(* The length field of b ends at byte i. *)
EndsAt(b, i) == b[i] < BASE /\ \A j \in 2..(i - 1) : b[j] >= BASE

(* io.rs parse_remaining_length: at most four bytes are looked at. *)
parse_remaining_length(b) ==
    IF \E i \in 2..5 : i <= Len(b) /\ EndsAt(b, i)
    THEN LET end == CHOOSE i \in 2..5 : i <= Len(b) /\ EndsAt(b, i)
             Digit(i) == IF i <= end THEN b[i] % BASE ELSE 0
         IN [result |-> "Ok", var_len_bytes |-> end - 1,
             remaining_len |-> Digit(2) + Digit(3) * BASE + Digit(4) * (BASE * BASE)
                                        + Digit(5) * (BASE * BASE * BASE)]
    ELSE [result |-> IF Len(b) >= 5 THEN "InvalidPacketLength" ELSE "IncompletePacket"]

-----------------------------------------------------------------------------
(* The client. *)

Frame(k, n) == <<k>> \o write_variable_length(n) \o [i \in 1..n |-> k]

ClientSends ==
    /\ ~closed
    /\ Len(sent) < MaxPackets
    /\ \E n \in Lengths :
         /\ sent' = Append(sent, Frame(Len(sent) + 1, n))
         /\ wire' = wire \o Frame(Len(sent) + 1, n)
    /\ UNCHANGED <<closed, buffer, total_len, delivered, status>>

(* The client closes, or is gone: any part of its last bytes still comes. *)
ClientCloses ==
    /\ ~closed
    /\ closed' = TRUE
    /\ \E n \in 0..Len(wire) : wire' = SubSeq(wire, 1, n)
    /\ UNCHANGED <<sent, buffer, total_len, delivered, status>>

-----------------------------------------------------------------------------
(* read_packet. *)

(* Mutant: one byte more. *)
MinHeader_Three == 3

(* The packet type and the shortest length field. *)
MinHeader == 2

(* socket.read_buf: some of what has arrived. *)
ReadBuf ==
    /\ wire # <<>>
    /\ \E n \in 1..Len(wire) :
         /\ buffer' = buffer \o SubSeq(wire, 1, n)
         /\ wire' = SubSeq(wire, n + 1, Len(wire))
    /\ UNCHANGED <<sent, closed, total_len, delivered, status>>

ReadHeader ==
    /\ status = "open" /\ total_len = 0
    /\ Len(buffer) < MinHeader
    /\ ReadBuf

(* Ok(None), whatever is in the buffer. *)
EndOfStream ==
    /\ status = "open" /\ total_len = 0
    /\ Len(buffer) < MinHeader
    /\ wire = <<>> /\ closed
    /\ status' = "eof"
    /\ UNCHANGED <<sent, closed, wire, buffer, total_len, delivered>>

ParseLength ==
    LET parsed == parse_remaining_length(buffer) IN
    /\ status = "open" /\ total_len = 0
    /\ Len(buffer) >= MinHeader
    /\ \/ /\ parsed.result = "Ok"
          /\ total_len' = 1 + parsed.var_len_bytes + parsed.remaining_len
          /\ UNCHANGED status
       \/ /\ parsed.result # "Ok"
          /\ status' = "error"
          /\ UNCHANGED total_len
    /\ UNCHANGED <<sent, closed, wire, buffer, delivered>>

ReadBody ==
    /\ status = "open" /\ total_len > 0
    /\ Len(buffer) < total_len
    /\ ReadBuf

EndInBody ==
    /\ status = "open" /\ total_len > 0
    /\ Len(buffer) < total_len
    /\ wire = <<>> /\ closed
    /\ status' = "error"
    /\ UNCHANGED <<sent, closed, wire, buffer, total_len, delivered>>

(* Another branch of the select! is taken while read_packet awaits bytes.  *)
(* Cancelled before the length is known, it has no local to lose.          *)
Cancel ==
    /\ status = "open" /\ total_len > 0
    /\ Len(buffer) < total_len
    /\ total_len' = 0
    /\ UNCHANGED <<sent, closed, wire, buffer, delivered, status>>

(* Mutant: clear() for advance(total_len). *)
Decode_Clear ==
    /\ status = "open" /\ total_len > 0
    /\ Len(buffer) >= total_len
    /\ delivered' = Append(delivered, SubSeq(buffer, 1, total_len))
    /\ buffer' = <<>>
    /\ total_len' = 0
    /\ UNCHANGED <<sent, closed, wire, status>>

(* Packet::decode of the whole frame, and advance: the excess is kept. *)
Decode ==
    /\ status = "open" /\ total_len > 0
    /\ Len(buffer) >= total_len
    /\ delivered' = Append(delivered, SubSeq(buffer, 1, total_len))
    /\ buffer' = SubSeq(buffer, total_len + 1, Len(buffer))
    /\ total_len' = 0
    /\ UNCHANGED <<sent, closed, wire, status>>

-----------------------------------------------------------------------------

Init ==
    /\ sent = <<>> /\ closed = FALSE /\ wire = <<>>
    /\ buffer = <<>> /\ total_len = 0 /\ delivered = <<>> /\ status = "open"

Next ==
    \/ ClientSends \/ ClientCloses
    \/ ReadHeader \/ EndOfStream \/ ParseLength \/ ReadBody \/ EndInBody \/ Cancel
    \/ Decode

Spec == Init /\ [][Next]_vars

(* The handler's task runs on. A select! picks among its ready branches at *)
(* random, so a read that is ready again and again is made.                *)
FairSpec ==
    /\ Spec
    /\ WF_vars(ReadHeader) /\ WF_vars(EndOfStream) /\ WF_vars(ParseLength)
    /\ SF_vars(ReadBody) /\ SF_vars(EndInBody) /\ WF_vars(Decode)

-----------------------------------------------------------------------------
(* Properties. *)

(* However the stream is cut into pieces and read_packet cancelled, the    *)
(* packets returned are the first ones sent, and what follows them is in   *)
(* the buffer and on the wire, in order, and complete while the client     *)
(* stays; only the end of the stream can be missing once it is gone.       *)
NothingLost ==
    LET stream == FlattenSeq(delivered) \o buffer \o wire IN
    /\ IsPrefix(delivered, sent)
    /\ IsPrefix(stream, FlattenSeq(sent))
    /\ closed \/ stream = FlattenSeq(sent)

(* Every packet that was sent is returned, the last one without waiting    *)
(* for more bytes, unless the connection has ended.                        *)
EveryPacketRead ==
    \A k \in 1..MaxPackets :
        (Len(sent) >= k /\ status = "open") ~> (Len(delivered) >= k \/ status # "open")

(* io.rs:39: "Read a complete MQTT packet from the stream". A client that  *)
(* writes well-formed packets and keeps the connection open gets no        *)
(* protocol error, wherever the network cuts its bytes.                    *)
WellFormedIsRead == status = "error" => closed
=============================================================================
