----------------------------- MODULE MCEndToEnd -----------------------------
(* Small instances of EndToEnd for TLC. *)
EXTENDS EndToEnd, MCGeyserPlugin

CapTwo == [t \in Topics |-> 2]

(* Updates of one account in two slots. *)
TwoSlots == {0, 1}
UpdatesOfTwoSlots == {N("account", k1, k1, slot) : slot \in TwoSlots}
=============================================================================
