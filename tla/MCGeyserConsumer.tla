--------------------------- MODULE MCGeyserConsumer ---------------------------
(* Small instances of GeyserConsumer for TLC. *)
EXTENDS GeyserConsumer

EveryMethod == Consumers \cup Commands
=============================================================================
