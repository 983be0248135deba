----------------------------- MODULE MCHandler -----------------------------
(* Small instances of SubscriptionHandler: a WebSocket w with a subscription  *)
(* w1 and a gRPC stream g with g1, both to k1.                                *)
EXTENDS SubscriptionHandler

CONSTANTS w, g, w1, g1, k1

MCChannelOf == [id \in Ids |-> IF id = w1 THEN w ELSE g]
MCKeyOf == [id \in Ids |-> k1]
=============================================================================
