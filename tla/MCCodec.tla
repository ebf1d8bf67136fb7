------------------------------ MODULE MCCodec ------------------------------
(***************************************************************************)
(* Frames for module Codec: every first byte with every short body, and    *)
(* CONNECT, SUBSCRIBE and PUBLISH frames as clients write them, cut short, *)
(* extended, or with one byte changed, and fixed-size types with long      *)
(* bodies.                                                                 *)
(***************************************************************************)
EXTENDS Codec

A == 97
Repeat(c, n) == [i \in 1..n |-> c]

(* Every type, and every set of flags for PUBLISH. *)
FirstBytes == {16 * t + f : t \in 0..15, f \in {0, 2, 15}} \cup 48..63

ShortBodies == UNION {[1..n -> {0, 1, 2}] : n \in 0..4} \cup [1..2 -> {0, 1, 5, 6, A, 255}]
LongBodies == {Repeat(0, n) : n \in 126..129}

(* The length field, in its shortest form and one byte longer. *)
LengthFields(n) ==
    {write_variable_length(n)} \cup (IF n < 128 THEN {<<n + 128, 0>>} ELSE {})

FramesOf(first_byte, body) == {<<first_byte>> \o l \o body : l \in LengthFields(Len(body))}

ConnectBodies ==
    {write_string(MQTT_PROTOCOL_NAME) \o <<4, flags, 0, 60>> \o write_string(id)
        \o write_if(Bit(flags, 2), topic) \o write_if(Bit(flags, 2), <<1>>)
        \o write_if(Bit(flags, 7), <<A>>) \o write_if(Bit(flags, 6), <<A, 7>>) :
     flags \in {0, 2, 3, 4, 46, 128, 64, 194, 198},
     id \in {<<>>, <<A>>, Repeat(A, MAX_CLIENT_ID_LENGTH), Repeat(A, MAX_CLIENT_ID_LENGTH + 1)},
     topic \in {<<A>>, Repeat(A, MAX_TOPIC_NAME_LENGTH + 1)}}

(* One byte changed, or the end cut off or extended. *)
Damaged(body) ==
    {[body EXCEPT ![i] = v] : i \in DOMAIN body, v \in {0, 3, 5, 255}}
    \cup {SubSeq(body, 1, n) : n \in 0..Len(body)} \cup {Append(body, 0)}

PublishBodies ==
    {write_string(Repeat(A, t)) \o id \o Repeat(A, n) :
     t \in {1, MAX_TOPIC_NAME_LENGTH, MAX_TOPIC_NAME_LENGTH + 1},
     id \in {<<>>, <<0, 7>>, <<1, 0>>},
     n \in {0, 1, MAX_PAYLOAD_SIZE - 2, MAX_PAYLOAD_SIZE, MAX_PAYLOAD_SIZE + 1,
            125, 126, 127, 128, 129}}
PublishFrames == UNION {FramesOf(48 + flags, body) : flags \in 0..7, body \in PublishBodies}

SubscribeBodies ==
    {<<0, 9>> \o write_string(Repeat(A, t)) \o qos :
     t \in {1, MAX_TOPIC_NAME_LENGTH, MAX_TOPIC_NAME_LENGTH + 1}, qos \in {<<>>, <<1>>}}

DamagedFrames(first_byte, bodies) ==
    {<<first_byte>> \o write_variable_length(Len(d)) \o d : d \in UNION {Damaged(c) : c \in bodies}}
    \cup UNION {FramesOf(first_byte, c) : c \in bodies}

(* Lengths on both sides of where their field gets longer.                 *)
LongLengths == {127, 128, 16383, 16384, 2097151, 2097152}

(* Fixed-size packets with a long body. Only two bytes of it are here:     *)
(* decoders of these types look at no more, and compare the length of the  *)
(* frame with nothing but PACKET_SIZE.                                     *)
LongFixedFrames ==
    {<<header_first_byte(f.PACKET_TYPE, f.PACKET_FLAGS)>>
        \o write_variable_length(n) \o <<0, 0>> : f \in FixedSizeFormats, n \in LongLengths}

MCFrames ==
    UNION {FramesOf(first, body) : first \in FirstBytes, body \in ShortBodies \cup LongBodies}
    \cup DamagedFrames(16, ConnectBodies) \cup PublishFrames
    \cup DamagedFrames(130, SubscribeBodies) \cup DamagedFrames(162, SubscribeBodies)
    \cup LongFixedFrames
=============================================================================
