------------------------- MODULE MCHeartbeatConsumer -------------------------
(* A small instance of HeartbeatConsumer for TLC: with at most two missed  *)
(* heartbeats an interval of 5 wraps around at 8, and 0 panics.            *)
EXTENDS HeartbeatConsumer

Intervals == {0, 2, 5}
=============================================================================
