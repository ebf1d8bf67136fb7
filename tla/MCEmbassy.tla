----------------------------- MODULE MCEmbassy -----------------------------
(* Instances of EmbassyServer.  The first connection publishes, the others *)
(* subscribe.  A PINGREQ is two bytes; a SUBSCRIBE has a body; the length  *)
(* of a PUBLISH, from 128 on, takes a unit more; "huge" exceeds rx_buffer. *)
EXTENDS EmbassyServer

MCLayout ==
    [pingreq   |-> [head |-> 2, total |-> 2],
     subscribe |-> [head |-> 2, total |-> 3],
     publish   |-> [head |-> 3, total |-> 4],
     malformed |-> [head |-> 2, total |-> 2],
     huge      |-> [head |-> 2, total |-> 7]]

PublisherFirst ==
    [s \in Sessions |-> IF s = 1 THEN {"publish"} ELSE {"subscribe"}]
AllPackets ==
    [s \in Sessions |-> {"pingreq", "subscribe", "publish", "malformed", "huge"}]
Pinging == [s \in Sessions |-> {"pingreq"}]
Publishing == [s \in Sessions |-> {"publish"}]

One == [s \in Sessions |-> 1]
Two == [s \in Sessions |-> 2]
Three == [s \in Sessions |-> 3]
ThreeThenOne == [s \in Sessions |-> IF s = 1 THEN 3 ELSE 1]
=============================================================================
