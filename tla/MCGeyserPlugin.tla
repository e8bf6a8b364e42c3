---------------------------- MODULE MCGeyserPlugin ----------------------------
(* Small instances of GeyserPlugin for TLC. *)
EXTENDS GeyserPlugin, MCGeyserService

MCSlots == {0, 1, 2}
CapOneNoEntry == [t \in Topics |-> IF t = "slot_entry" THEN 0 ELSE 1]

(* Account updates of two slots, which two threads may send in either      *)
(* order, and one notification of each other topic.                        *)
EveryTopic ==
    {N("account", k1, k1, 1), N("account", k1, k1, 2)}
        \cup {N(t, k1, k1, 1) : t \in Topics \ {"account"}}
=============================================================================
