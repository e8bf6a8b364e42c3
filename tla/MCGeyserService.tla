--------------------------- MODULE MCGeyserService ---------------------------
(* Small instances of GeyserService for TLC. *)
EXTENDS GeyserService

CONSTANTS k1, vote, bad

R(kind, keys, skip_votes) == [kind |-> kind, keys |-> keys, skip_votes |-> skip_votes]
N(topic, pubkey, owner, slot) ==
    [topic |-> topic, pubkey |-> pubkey, owner |-> owner, slot |-> slot, seq |-> 1]

MCKey == {k1, vote}
MCMalformedKey == {bad}
MCOneSlot == {0}
MCOneVersion == {1}

(* Every channel holds one update ... *)
CapOne == [t \in Topics |-> 1]
(* ... or two, but the slot-entry channel, whose size could not be read. *)
CapUnreadEntrySize == [t \in Topics |-> IF t = "slot_entry" THEN 0 ELSE 2]

(* The three subscriptions of the account channel and malformed requests. *)
AccountRequests ==
    {R("account", {k1}, FALSE), R("program", {vote}, FALSE), R("program", {bad}, FALSE),
     R("account", {k1, bad}, FALSE), R("partial", {}, TRUE), R("partial", {}, FALSE)}

(* One update each filter tells apart: k1 owned by the vote program, and   *)
(* the vote program's own account.                                         *)
AccountNotifications ==
    {N("account", k1, vote, 0), N("account", vote, k1, 0)}

BroadcastRequests ==
    {R(k, {}, FALSE) : k \in {"slot", "slot_entry", "block", "transaction"}}
BroadcastNotifications ==
    {N(t, k1, k1, 0) : t \in Topics \ {"account"}}

EveryRequest == AccountRequests \cup BroadcastRequests
EveryNotification == AccountNotifications \cup BroadcastNotifications

(* Two kinds whose buffers one update, k1 owned by the vote program, fills. *)
TwoKinds == {R("account", {k1}, FALSE), R("partial", {}, FALSE)}

PartialRequests == {R("partial", {}, FALSE)}
AccountOnly == {R("account", {k1}, FALSE)}
(* An update no subscription of AccountOnly matches. *)
OtherAccount == {N("account", vote, k1, 0)}
OneNotification == {N("account", k1, vote, 0)}
=============================================================================
