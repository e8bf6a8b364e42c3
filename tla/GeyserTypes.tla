----------------------------- MODULE GeyserTypes -----------------------------
(***************************************************************************)
(* The data the geyser gRPC plugin passes around, reduced to what its      *)
(* control flow tells apart: which of the five update channels a           *)
(* notification belongs to, the account and owner keys the subscription    *)
(* filters look at, the slot that feeds highest_write_slot, and the write  *)
(* version a client orders the writes of a slot by.                        *)
(***************************************************************************)
EXTENDS Integers, FiniteSets

CONSTANTS
    Key,            \* 32-byte keys: account addresses and owning programs
    MalformedKey,   \* byte strings of any other length
    VoteProgram,    \* solana_program::vote::program::id()
    Slot,           \* slot numbers, 0 included (highest_write_slot starts at 0)
    WriteVersion    \* write versions of account updates (seq)

ASSUME KeyAssumption == VoteProgram \in Key /\ Key \cap MalformedKey = {}
ASSUME SlotAssumption == Slot \subseteq Nat /\ 0 \in Slot
ASSUME WriteVersionAssumption == WriteVersion \subseteq Nat

(* One kind per streaming RPC; the account channel feeds three of them. *)
AccountKinds == {"account", "program", "partial"}
Kinds == AccountKinds \cup {"slot", "slot_entry", "block", "transaction"}
Topics == {"account", "slot", "slot_entry", "block", "transaction"}

TopicOf(kind) == IF kind \in AccountKinds THEN "account" ELSE kind

(* An RPC request.  keys is the set of accounts or programs asked for;    *)
(* skip_votes is the flag of SubscribePartialAccountUpdatesRequest.       *)
Request == [kind : Kinds, keys : SUBSET (Key \cup MalformedKey), skip_votes : BOOLEAN]

NoRequest == [kind |-> "none", keys |-> {}, skip_votes |-> FALSE]

Notification == [topic : Topics, pubkey : Key, owner : Key, slot : Slot,
                 seq : WriteVersion]

(* What a subscription asks to receive.                                    *)
Wants(r, n) ==
    /\ r.kind \in Kinds
    /\ n.topic = TopicOf(r.kind)
    /\ r.kind = "account" => n.pubkey \in r.keys
    /\ r.kind = "program" => n.owner \in r.keys
    /\ r.kind = "partial" => ~(r.skip_votes /\ n.owner = VoteProgram)

=============================================================================
