------------------------------- MODULE Codec -------------------------------
(***************************************************************************)
(* The packet codec (protocol/packets, protocol/utils.rs) and the path of  *)
(* a packet through it: a whole frame, as the servers' read_packet hands   *)
(* it over, is decoded; encode_frame of the Tokio server writes the packet *)
(* into a new buffer; the peer decodes what was written.                   *)
(*                                                                         *)
(* Bytes are numbers, a string is the sequence of its bytes.  All          *)
(* ProtocolErrors are one value, so the order of a decoder's early returns *)
(* does not show, what it accepts does.                                    *)
(***************************************************************************)
EXTENDS Integers, SequencesExt

CONSTANTS
    MAX_TOPIC_NAME_LENGTH, MAX_PAYLOAD_SIZE, MAX_CLIENT_ID_LENGTH,
    OverflowChecks,     \* usize subtraction below 0 panics (debug), or wraps
    Frames              \* the frames that arrive

ASSUME CodecAssumption ==
    /\ {MAX_TOPIC_NAME_LENGTH, MAX_PAYLOAD_SIZE, MAX_CLIENT_ID_LENGTH} \subseteq Nat
    /\ OverflowChecks \in BOOLEAN

VARIABLES
    frame,              \* the frame that arrived
    packet,             \* what decode made of it
    sent,               \* what encode_frame made of that
    relayed             \* what the peer's decoder makes of sent

vars == <<frame, packet, sent, relayed>>

Pending == [type |-> "pending"]     \* not computed yet
Error == [type |-> "error"]         \* any ProtocolError
Panic == [type |-> "panic"]
Absent == <<>>                      \* None, for an Option of a string
IsPacket(p) == p.type \notin {"pending", "error", "panic"}

-----------------------------------------------------------------------------
(* Numbers. *)

U16(n) == <<n \div 256, n % 256>>
U16At(b, o) == b[o + 1] * 256 + b[o + 2]
Bit(n, k) == (n \div 2^k) % 2 = 1

variable_length_length(n) ==
    IF n < 128 THEN 1 ELSE IF n < 16384 THEN 2 ELSE IF n < 2097152 THEN 3 ELSE 4

write_variable_length(n) ==
    LET size == variable_length_length(n)
    IN [i \in 1..size |-> ((n \div 128^(i - 1)) % 128) + (IF i < size THEN 128 ELSE 0)]

(* On b without its first byte; an error reads 0 bytes. *)
read_variable_length(b) ==
    LET ends == {i \in 1..4 : i < Len(b) /\ b[i + 1] < 128 /\ \A j \in 1..(i - 1) : b[j + 1] >= 128}
        read == CHOOSE i \in ends : TRUE
    IN IF ends = {} THEN [value |-> 0, read |-> 0]
       ELSE [value |-> FoldSeq(+, 0, [j \in 1..read |-> (b[j + 1] % 128) * 128^(j - 1)]),
             read |-> read]

-----------------------------------------------------------------------------
(* Length-prefixed fields, at offset o.  A reader that fails leaves the    *)
(* offset behind the end, where every later reader fails too.              *)

Failed(b) == [value |-> <<>>, offset |-> Len(b) + 1]

read_binary(b, o) ==
    IF o + 2 > Len(b) \/ o + 2 + U16At(b, o) > Len(b) THEN Failed(b)
    ELSE [value |-> SubSeq(b, o + 3, o + 2 + U16At(b, o)), offset |-> o + 2 + U16At(b, o)]

(* core::str::from_utf8, on bytes that are ASCII or 255 (never UTF-8). *)
from_utf8(s) == \A i \in DOMAIN s : s[i] < 128

(* HeaplessString::try_from: too long an input fails, and the length kept  *)
(* is a u8.                                                                *)
HeaplessString(s) == SubSeq(s, 1, Len(s) % 256)

(* read_string, and the string kept in N bytes. *)
read_string(b, o, N) ==
    LET s == read_binary(b, o)
    IN IF from_utf8(s.value) /\ Len(s.value) <= N
       THEN [s EXCEPT !.value = HeaplessString(s.value)] ELSE Failed(b)

(* write_string and write_binary. *)
write_string(s) == U16(Len(s)) \o s
write_if(flag, s) == IF flag THEN write_string(s) ELSE <<>>
read_if(flag, read, o) == IF flag THEN read ELSE [value |-> Absent, offset |-> o]

-----------------------------------------------------------------------------
(* Packet types with a fixed size, and what is in the bytes after the      *)
(* length: nothing, a packet id, or the two bytes of CONNACK.              *)

PubAckPacket   == [type |-> "puback",   PACKET_TYPE |-> 4,  PACKET_FLAGS |-> 0, PACKET_SIZE |-> 4]
PubRecPacket   == [type |-> "pubrec",   PACKET_TYPE |-> 5,  PACKET_FLAGS |-> 0, PACKET_SIZE |-> 4]
PubRelPacket   == [type |-> "pubrel",   PACKET_TYPE |-> 6,  PACKET_FLAGS |-> 2, PACKET_SIZE |-> 4]
PubCompPacket  == [type |-> "pubcomp",  PACKET_TYPE |-> 7,  PACKET_FLAGS |-> 0, PACKET_SIZE |-> 4]
UnsubAckPacket == [type |-> "unsuback", PACKET_TYPE |-> 11, PACKET_FLAGS |-> 0, PACKET_SIZE |-> 4]
PingReqPacket    == [type |-> "pingreq",    PACKET_TYPE |-> 12, PACKET_FLAGS |-> 0, PACKET_SIZE |-> 2]
PingRespPacket   == [type |-> "pingresp",   PACKET_TYPE |-> 13, PACKET_FLAGS |-> 0, PACKET_SIZE |-> 2]
DisconnectPacket == [type |-> "disconnect", PACKET_TYPE |-> 14, PACKET_FLAGS |-> 0, PACKET_SIZE |-> 2]
ConnAckPacket    == [type |-> "connack",    PACKET_TYPE |-> 2,  PACKET_FLAGS |-> 0, PACKET_SIZE |-> 4]

FixedSizeFormats ==
    {PubAckPacket, PubRecPacket, PubRelPacket, PubCompPacket, UnsubAckPacket,
     PingReqPacket, PingRespPacket, DisconnectPacket, ConnAckPacket}
FormatOf(type) == CHOOSE f \in FixedSizeFormats : f.type = type

header_first_byte(packet_type, flags) == packet_type * 16 + flags

(* What validate_remaining_length makes of a length: PACKET_SIZE less the  *)
(* size of the shortest length field may be below 0.                       *)
validate_remaining_length(f, n) ==
    LET expected == f.PACKET_SIZE - variable_length_length(n) - 1
    IN IF expected < 0 /\ OverflowChecks THEN "panic"
       ELSE IF n = expected THEN "Ok" ELSE "error"

encode_fixed(f, p) ==
    <<header_first_byte(f.PACKET_TYPE, f.PACKET_FLAGS), f.PACKET_SIZE - 2>> \o
    (IF f = ConnAckPacket THEN <<IF p.session_present THEN 1 ELSE 0, p.return_code>>
     ELSE IF f.PACKET_SIZE = 4 THEN U16(p.packet_id) ELSE <<>>)

(* The bytes after the length are taken from a fixed place. *)
decode_fixed(f, b) ==
    LET length == read_variable_length(b)
        valid == validate_remaining_length(f, length.value)
    IN IF Len(b) < f.PACKET_SIZE \/ length.read = 0 \/ valid = "error" THEN Error
       ELSE IF valid = "panic" THEN Panic
       ELSE IF f.PACKET_SIZE = 2 THEN [type |-> f.type]
       ELSE IF f # ConnAckPacket THEN [type |-> f.type, packet_id |-> U16At(b, 2)]
       ELSE IF b[3] \in 0..1 /\ b[4] \in 0..5
       THEN [type |-> f.type, session_present |-> b[3] = 1, return_code |-> b[4]]
       ELSE Error

-----------------------------------------------------------------------------
(* The other packet types. *)

from_u8(qos) == qos \in 0..2        \* QoS::from_u8

encode_SubAck(p) == <<header_first_byte(9, 0), 3>> \o U16(p.packet_id) \o <<p.granted_qos>>

decode_SubAck(b) ==
    LET length == read_variable_length(b) IN
    IF Len(b) >= 5 /\ length.read > 0 /\ length.value = 3 /\ from_u8(b[5])
    THEN [type |-> "suback", packet_id |-> U16At(b, 2), granted_qos |-> b[5]]
    ELSE Error

(* Mutant: the length field is taken to have its shortest form. *)
start_offset_Shortest(length) == 1 + variable_length_length(length.value)

(* Where the body starts, by the bytes read for the length. *)
start_offset(length) == 1 + length.read

(* What follows header and length of a packet of variable size. *)
WithLength(first_byte, body) == <<first_byte>> \o write_variable_length(Len(body)) \o body

encode_Subscribe(p) ==
    WithLength(header_first_byte(8, 2),
        U16(p.packet_id) \o write_string(p.topic_filter) \o <<p.requested_qos>>)

decode_Subscribe(b) ==
    LET length == read_variable_length(b)
        start == start_offset(length)
        filter == read_string(b, start + 2, MAX_TOPIC_NAME_LENGTH)
    IN IF /\ length.read > 0 /\ start + 2 <= Len(b) /\ U16At(b, start) # 0
          /\ filter.offset + 1 <= Len(b) /\ filter.value # <<>>
          /\ from_u8(b[filter.offset + 1])
          /\ filter.offset + 1 - start = length.value
       THEN [type |-> "subscribe", packet_id |-> U16At(b, start),
             topic_filter |-> filter.value, requested_qos |-> b[filter.offset + 1]]
       ELSE Error

encode_Unsubscribe(p) ==
    WithLength(header_first_byte(10, 2), U16(p.packet_id) \o write_string(p.topic_filter))

decode_Unsubscribe(b) ==
    LET length == read_variable_length(b)
        start == start_offset(length)
        filter == read_string(b, start + 2, MAX_TOPIC_NAME_LENGTH)
    IN IF /\ length.read > 0 /\ start + 2 <= Len(b) /\ U16At(b, start) # 0
          /\ filter.offset <= Len(b) /\ filter.value # <<>>
          /\ filter.offset - start = length.value
       THEN [type |-> "unsubscribe", packet_id |-> U16At(b, start),
             topic_filter |-> filter.value]
       ELSE Error

(* Mutant: RETAIN is taken from the wrong bit. *)
from_nibble_WrongBit(n) == [dup |-> Bit(n, 3), qos |-> (n \div 2) % 4, retain |-> Bit(n, 1)]

(* PublishFlags. *)
from_nibble(n) == [dup |-> Bit(n, 3), qos |-> (n \div 2) % 4, retain |-> Bit(n, 0)]

(* Mutant: DUP is shifted by 2. *)
to_nibble_WrongShift(p) == (IF p.dup THEN 4 ELSE 0) + p.qos * 2 + (IF p.retain THEN 1 ELSE 0)

to_nibble(p) == (IF p.dup THEN 8 ELSE 0) + p.qos * 2 + (IF p.retain THEN 1 ELSE 0)

encode_Publish(p) ==
    WithLength(header_first_byte(3, to_nibble(p)),
        write_string(p.topic_name) \o
        (IF p.qos = 0 THEN <<>> ELSE U16(p.packet_id)) \o p.payload)

(* Mutant: start_offset is taken before the length field is skipped. *)
payload_end_FromHeader(length) == 1 + length.value

payload_end(length) == 1 + length.read + length.value

(* The payload is the slice up to the end the length gives; a slice whose  *)
(* end is before its start panics.                                         *)
decode_Publish(b) ==
    LET flags == from_nibble(b[1] % 16)
        length == read_variable_length(b)
        start == start_offset(length)
        topic == read_string(b, start, MAX_TOPIC_NAME_LENGTH)
        offset == topic.offset + (IF flags.qos = 0 THEN 0 ELSE 2)
        end == payload_end(length)
    IN IF \/ ~from_u8(flags.qos) \/ length.read = 0
          \/ topic.offset > Len(b) \/ topic.value = <<>>
          \/ flags.qos # 0 /\ (offset > Len(b) \/ U16At(b, topic.offset) = 0)
          \/ end > Len(b)
       THEN Error
       ELSE IF offset > end THEN Panic
       ELSE IF end - offset > MAX_PAYLOAD_SIZE THEN Error
       ELSE [type |-> "publish", topic_name |-> topic.value,
             packet_id |-> IF flags.qos = 0 THEN 0 ELSE U16At(b, topic.offset),
             payload |-> SubSeq(b, offset + 1, end),
             qos |-> flags.qos, dup |-> flags.dup, retain |-> flags.retain]

MQTT_PROTOCOL_NAME == <<77, 81, 84, 84>>
MQTT_3_1_1_PROTOCOL_LEVEL == 4

(* ConnectFlags, by the number of their bit. *)
ConnectFlags == [RESERVED |-> 0, CLEAN_SESSION |-> 1, WILL_FLAG |-> 2,
                 PASSWORD |-> 6, USERNAME |-> 7]

(* An optional field is there exactly when its flag is: only decode and    *)
(* the client (no option) make a ConnectPacket.                            *)
encode_Connect(p) ==
    WithLength(header_first_byte(1, 0),
        write_string(MQTT_PROTOCOL_NAME) \o <<MQTT_3_1_1_PROTOCOL_LEVEL, p.connect_flags>> \o
        U16(p.keep_alive) \o write_string(p.client_id) \o
        write_if(Bit(p.connect_flags, ConnectFlags.WILL_FLAG), p.will_topic) \o
        write_if(Bit(p.connect_flags, ConnectFlags.WILL_FLAG), p.will_payload) \o
        write_if(Bit(p.connect_flags, ConnectFlags.USERNAME), p.username) \o
        write_if(Bit(p.connect_flags, ConnectFlags.PASSWORD), p.password))

decode_Connect(b) ==
    LET length == read_variable_length(b)
        start == start_offset(length)
        name == read_binary(b, start)
        flags == b[name.offset + 2]
        will == Bit(flags, ConnectFlags.WILL_FLAG)
        client_id == read_string(b, name.offset + 4, MAX_CLIENT_ID_LENGTH)
        will_topic == read_if(will, read_string(b, client_id.offset, MAX_TOPIC_NAME_LENGTH),
                              client_id.offset)
        will_payload == read_if(will, read_binary(b, will_topic.offset), will_topic.offset)
        username == read_if(Bit(flags, ConnectFlags.USERNAME),
                            read_string(b, will_payload.offset, MAX_TOPIC_NAME_LENGTH),
                            will_payload.offset)
        password == read_if(Bit(flags, ConnectFlags.PASSWORD),
                            read_binary(b, username.offset), username.offset)
    IN IF /\ length.read > 0
          /\ name.offset + 4 <= Len(b) /\ name.value = MQTT_PROTOCOL_NAME
          /\ b[name.offset + 1] = MQTT_3_1_1_PROTOCOL_LEVEL
          /\ ~Bit(flags, ConnectFlags.RESERVED)
          /\ client_id.value = <<>> => Bit(flags, ConnectFlags.CLEAN_SESSION)
          /\ will => will_topic.value # <<>>
          /\ Len(will_payload.value) <= MAX_PAYLOAD_SIZE
          /\ Len(password.value) <= MAX_TOPIC_NAME_LENGTH
          /\ password.offset <= Len(b)
          /\ password.offset - start = length.value
       THEN [type |-> "connect", connect_flags |-> flags,
             keep_alive |-> U16At(b, name.offset + 2), client_id |-> client_id.value,
             will_topic |-> will_topic.value, will_payload |-> will_payload.value,
             username |-> username.value, password |-> password.value]
       ELSE Error

-----------------------------------------------------------------------------
(* Packet: the dispatch on the type. *)

encode(p) ==
    CASE p.type = "connect" -> encode_Connect(p)
      [] p.type = "publish" -> encode_Publish(p)
      [] p.type = "subscribe" -> encode_Subscribe(p)
      [] p.type = "suback" -> encode_SubAck(p)
      [] p.type = "unsubscribe" -> encode_Unsubscribe(p)
      [] OTHER -> encode_fixed(FormatOf(p.type), p)

decode(b) ==
    LET packet_type == b[1] \div 16 IN
    CASE packet_type \in {0, 15} -> Error
      [] packet_type = 1 -> decode_Connect(b)
      [] packet_type = 3 -> decode_Publish(b)
      [] packet_type = 8 -> decode_Subscribe(b)
      [] packet_type = 9 -> decode_SubAck(b)
      [] packet_type = 10 -> decode_Unsubscribe(b)
      [] OTHER -> decode_fixed(CHOOSE f \in FixedSizeFormats : f.PACKET_TYPE = packet_type, b)

(* encode into a buffer of n bytes: the fields are checked to fit, except  *)
(* the four bytes of CONNECT after the protocol name.                      *)
encode_into(p, n) ==
    LET bytes == encode(p)
        unchecked == 7 + read_variable_length(bytes).read
    IN IF Len(bytes) <= n THEN [type |-> "frame", bytes |-> bytes]
       ELSE IF p.type = "connect" /\ n \in {0} \cup unchecked..(unchecked + 3) THEN Panic
       ELSE Error

(* Mutant: no room for the topic. *)
encode_frame_PayloadOnly(p) == encode_into(p, 5 + MAX_PAYLOAD_SIZE)

(* Tokio server, io.rs; the Tokio client's encode_packet is the same.      *)
encode_frame(p) == encode_into(p, 5 + MAX_PAYLOAD_SIZE + MAX_TOPIC_NAME_LENGTH)

-----------------------------------------------------------------------------

Init ==
    /\ frame \in Frames
    /\ packet = Pending /\ sent = Pending /\ relayed = Pending

Decode ==
    /\ packet = Pending
    /\ packet' = decode(frame)
    /\ UNCHANGED <<frame, sent, relayed>>

EncodeFrame ==
    /\ sent = Pending
    /\ IsPacket(packet)
    /\ sent' = encode_frame(packet)
    /\ UNCHANGED <<frame, packet, relayed>>

DecodeRelayed ==
    /\ relayed = Pending
    /\ sent.type = "frame"
    /\ relayed' = decode(sent.bytes)
    /\ UNCHANGED <<frame, packet, sent>>

Next == Decode \/ EncodeFrame \/ DecodeRelayed

Spec == Init /\ [][Next]_vars

-----------------------------------------------------------------------------
(* Properties. *)

(* The peer gets the packet the broker decoded: encode and decode agree on *)
(* the place and the size of every field, for every type.                  *)
RelayIntact == relayed # Pending => relayed = packet

(* The frame a client would write for the same header, length and body. *)
Canonical(b) ==
    LET length == read_variable_length(b)
    IN <<b[1]>> \o write_variable_length(length.value)
          \o SubSeq(b, 2 + length.read, Len(b))

(* The flags of b are the ones its type must have, if it has any. *)
ProperFlags(b) ==
    LET packet_type == b[1] \div 16
    IN packet_type # 3 => b[1] % 16 = IF packet_type \in {6, 8, 10} THEN 2 ELSE 0

(* Decoding loses nothing: an accepted frame with the shortest length      *)
(* field, written again, is the same frame.                                *)
WrittenBackUnchanged ==
    sent.type = "frame" /\ frame = Canonical(frame) /\ ProperFlags(frame) =>
        sent.bytes = frame

(* No whole frame, however damaged, makes a decoder index or slice outside *)
(* of it; what can panic is the length check of the fixed-size packets,    *)
(* for a length whose field alone, with the first byte, is longer than the *)
(* packet, where subtraction is checked: from 128 for PINGREQ, PINGRESP    *)
(* and DISCONNECT, from 2^21 for the packets of four bytes.                *)
PanicsOnlyOnUnderflow ==
    /\ sent # Panic /\ relayed # Panic
    /\ packet = Panic =>
         /\ OverflowChecks
         /\ \E f \in FixedSizeFormats :
              /\ f.PACKET_TYPE = frame[1] \div 16
              /\ 1 + variable_length_length(read_variable_length(frame).value) > f.PACKET_SIZE

(* encode_frame makes room for a type, a length field and the longest      *)
(* topic and payload, not for the topic's own length and the packet id: of *)
(* what decode accepts and a server may write, only a PUBLISH with a       *)
(* packet id, and within a length field's size of both limits, is lost.    *)
OnlyLongestDropped ==
    sent = Error /\ packet.type # "connect" =>
        /\ packet.type = "publish" /\ packet.qos > 0
        /\ Len(packet.topic_name) + Len(packet.payload) >
             MAX_TOPIC_NAME_LENGTH + MAX_PAYLOAD_SIZE - variable_length_length(MAX_PAYLOAD_SIZE)

(* What a frame means does not depend on how many bytes its length field   *)
(* takes, as the protocol has it: CONNECT, PUBLISH, SUBSCRIBE and          *)
(* UNSUBSCRIBE are decoded by the size of the field that was read.         *)
LengthFieldSizeIrrelevant ==
    /\ packet # Pending
    /\ frame[1] \div 16 \in {1, 3, 8, 10}
    /\ read_variable_length(frame).read > 0
    => packet = decode(Canonical(frame))
=============================================================================
