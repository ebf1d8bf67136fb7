------------------------------ MODULE MCClient ------------------------------
(* The client, a subscriber, and a connection that may take its place.     *)
EXTENDS TokioClient

CONSTANTS subscriber, third

Three == {me, subscriber, third}
Subscribing == [c \in Connections |-> {"subscribe"}]
OnlyTheSubscriber == [c \in Connections |-> IF c = subscriber THEN 1 ELSE 0]
=============================================================================
