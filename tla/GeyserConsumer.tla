---------------------------- MODULE GeyserConsumer ----------------------------
(***************************************************************************)
(* The clients' read loops: GeyserConsumer's methods (client/src/          *)
(* geyser_consumer.rs) and the commands of the CLI (cli/src/main.rs).      *)
(* consume_account_updates numbers the writes of each account within a     *)
(* slot and refuses updates that are too old or out of order; the other    *)
(* loops pass every message on, to the application or to the terminal.     *)
(* consume_partial_account_updates, which keeps time, is HeartbeatConsumer. *)
(*                                                                         *)
(* The server is the environment: it sends updates of any slot in any      *)
(* order (geyser.proto says so), an error, or the end of the stream, after *)
(* which every read yields None.                                           *)
(***************************************************************************)
EXTENDS Integers, Sequences, FiniteSets

CONSTANTS
    Methods,                \* the loops that are looked at
    Slot,                   \* slot numbers
    Pubkey,                 \* accounts
    WriteVersion,           \* values of an update's seq
    MaxRootedSlotDistance,  \* max_rooted_slot_distance
    CacheSize,              \* ACCOUNT_WRITE_SEQS_CACHE_SIZE
    MaxMessages             \* bound on the updates that are numbered

Consumers == {"consume_account_updates", "consume_slot_updates", "consume_slot_entry_updates"}

(* The commands that print "exiting" at the end of the stream and go on    *)
(* reading, and those that do end there.                                   *)
Spinning == {"PartialAccounts", "Transactions", "Blocks"}
Commands == {"Slots", "Programs", "Accounts"} \cup Spinning

ASSUME ConsumerAssumption ==
    /\ Methods \subseteq Consumers \cup Commands
    /\ Slot \subseteq Nat /\ 0 \in Slot
    /\ WriteVersion \subseteq Nat
    /\ MaxRootedSlotDistance \in Nat
    /\ CacheSize \in Nat \ {0}
    /\ MaxMessages \in Nat

VARIABLES
    method,     \* which loop this is
    pc,         \* where the loop is, or how it returned
    exit,       \* the shared exit flag
    rooted,     \* highest_rooted_slot, written by another task
    app,        \* the application still holds the receiver of the updates
    oldest,     \* oldest_write_slot, from the response header
    used,       \* the LRU cache's slots: when each was last used, 0 if it is not in
    seqs,       \* the cache's entries: slot and account to AccountWriteSeq
    forwarded,  \* updates consume_account_updates sent to the application
    ended,      \* the server has ended the stream
    late        \* messages handed on since the exit flag was set

cacheVars == <<oldest, used, seqs, forwarded>>
vars == <<method, pc, exit, rooted, app, cacheVars, ended, late>>

Update == [slot : Slot, pubkey : Pubkey, seq : WriteVersion]
NoSeq == [global_seq |-> -1, slot_seq |-> -1]
AccountWriteSeq == [global_seq : WriteVersion, slot_seq : Nat]
NoSeqs == [p \in Pubkey |-> NoSeq]

Errors == {"ServerError", "MalformedResponse", "StreamClosed", "StaleAccountUpdate",
           "OutOfOrderSeqAccountUpdate", "ConsumerChannelDisconnected", "panicked"}
Returned == Errors \cup {"ok"}

Init ==
    /\ method \in Methods
    /\ pc = "subscribing"
    /\ exit = FALSE
    /\ rooted = 0
    /\ app = TRUE
    /\ oldest = 0
    /\ used = [s \in Slot |-> 0]
    /\ seqs = [s \in Slot |-> NoSeqs]
    /\ forwarded = <<>>
    /\ ended = FALSE
    /\ late = 0

-----------------------------------------------------------------------------
(* The other tasks of the application, and the server.                     *)

RaiseRooted(slot) ==
    /\ method = "consume_account_updates"
    /\ slot > rooted
    /\ rooted' = slot
    /\ UNCHANGED <<method, pc, exit, app, cacheVars, ended, late>>

SetExit ==
    /\ method \in Consumers
    /\ ~exit
    /\ exit' = TRUE
    /\ UNCHANGED <<method, pc, rooted, app, cacheVars, ended, late>>

DropReceiver ==
    /\ method \in Consumers
    /\ app
    /\ app' = FALSE
    /\ UNCHANGED <<method, pc, exit, rooted, cacheVars, ended, late>>

EndStream ==
    /\ pc # "subscribing"
    /\ ~ended
    /\ ended' = TRUE
    /\ UNCHANGED <<method, pc, exit, rooted, app, cacheVars, late>>

-----------------------------------------------------------------------------
(* The loops.                                                              *)

Return(result) ==
    /\ pc' = result
    /\ UNCHANGED <<method, exit, rooted, app, cacheVars, ended, late>>

(* Back to the head of the loop: only a consumer looks at the exit flag there. *)
LoopHead == IF method \in Consumers THEN "check" ELSE "select"

(* The RPC answers; consume_account_updates keeps the highest-write-slot   *)
(* header.                                                                 *)
Subscribed(slot) ==
    /\ pc = "subscribing"
    /\ oldest' = IF method = "consume_account_updates" THEN slot ELSE oldest
    /\ pc' = LoopHead
    /\ UNCHANGED <<method, exit, rooted, app, used, seqs, forwarded, ended, late>>

(* A failed call, or a header that is missing or malformed. *)
SubscribeError ==
    /\ pc = "subscribing"
    /\ \/ method \in Consumers /\ Return("ServerError")
       \/ method = "consume_account_updates" /\ Return("MalformedResponse")
       \/ method \in Commands /\ Return("panicked")

(* Fault: the flag is looked at before the loop only. *)
CheckExitNever ==
    /\ pc = "check"
    /\ Return("select")

(* while !exit *)
CheckExit ==
    /\ pc = "check"
    /\ Return(IF exit THEN "ok" ELSE "select")

(* Fault: the tick does not lead back to the exit flag. *)
TickIgnored ==
    /\ pc = "select"
    /\ method = "consume_account_updates"
    /\ Return("select")

(* The one-second tick wakes the select. *)
Tick ==
    /\ pc = "select"
    /\ method = "consume_account_updates"
    /\ Return("check")

(* Fault: the end of the stream is taken for a message that was not there yet. *)
ReceiveEndIgnored ==
    /\ pc = "select"
    /\ ended
    /\ Return(LoopHead)

(* message() yields Ok(None). *)
ReceiveEnd ==
    /\ pc = "select"
    /\ ended
    /\ \/ method \in Consumers /\ Return("StreamClosed")
       \/ method \in Commands \ Spinning /\ Return("ok")
       \/ method \in Spinning /\ Return("select")

(* message() yields Err, and the stream has nothing more: Slots prints the *)
(* error and goes on, the other commands expect.                           *)
ReceiveError ==
    /\ pc = "select"
    /\ ~ended
    /\ ended' = TRUE
    /\ \/ method \in Consumers /\ pc' = "ServerError"
       \/ method = "Slots" /\ pc' = "select"
       \/ method \in Commands \ {"Slots"} /\ pc' = "panicked"
    /\ UNCHANGED <<method, exit, rooted, app, cacheVars, late>>

(* A message is sent to the application, or its channel is closed. *)
HandOn ==
    /\ pc' = IF app THEN LoopHead ELSE "ConsumerChannelDisconnected"
    /\ late' = IF app /\ exit THEN late + 1 ELSE late
    /\ UNCHANGED <<method, exit, rooted, app, ended>>

(* consume_slot_updates, consume_slot_entry_updates and the commands. *)
PassOn ==
    /\ pc = "select"
    /\ ~ended
    /\ method # "consume_account_updates"
    /\ HandOn
    /\ UNCHANGED cacheVars

-----------------------------------------------------------------------------
(* process_update.                                                         *)

(* Fault: the subtraction of the two u64 wraps around (here modulo 2^16). *)
OldestToleratedWrapped == (rooted - MaxRootedSlotDistance) % 65536

(* highest_rooted_slot.checked_sub(max_rooted_slot_distance).unwrap_or_default() *)
OldestTolerated ==
    IF rooted >= MaxRootedSlotDistance THEN rooted - MaxRootedSlotDistance ELSE 0

Stale(u) == u.slot < oldest \/ u.slot < OldestTolerated

Cached == {s \in Slot : used[s] > 0}

(* Fault: one slot too many is kept. *)
EvictedOverfull(slot) ==
    IF slot \in Cached \/ Cardinality(Cached) <= CacheSize
    THEN {}
    ELSE {s \in Cached : \A x \in Cached : used[s] <= used[x]}

(* get_or_insert_mut: a new slot in a full cache evicts the least recently *)
(* used one.                                                               *)
Evicted(slot) ==
    IF slot \in Cached \/ Cardinality(Cached) < CacheSize
    THEN {}
    ELSE {s \in Cached : \A x \in Cached : used[s] <= used[x]}

(* The AccountWriteSeq process_update compares u with: or_insert starts it *)
(* at u's own seq.                                                         *)
WriteSeq(u) ==
    IF seqs[u.slot][u.pubkey] = NoSeq
    THEN [global_seq |-> u.seq, slot_seq |-> 0]
    ELSE seqs[u.slot][u.pubkey]

(* Fault: the order of seqs is not looked at. *)
OutOfOrderNever(u) == FALSE

OutOfOrder(u) == u.seq < WriteSeq(u).global_seq

(* Fault: slot_seq stays. *)
CountedNot(u) == WriteSeq(u)

(* The entry after u: only slot_seq moves. *)
Counted(u) == [global_seq |-> WriteSeq(u).global_seq, slot_seq |-> WriteSeq(u).slot_seq + 1]

Forward(u) ==
    /\ used' = [s \in Slot |-> IF s = u.slot THEN Len(forwarded) + 1
                               ELSE IF s \in Evicted(u.slot) THEN 0 ELSE used[s]]
    /\ seqs' = [s \in Slot |-> IF s = u.slot THEN [seqs[s] EXCEPT ![u.pubkey] = Counted(u)]
                               ELSE IF s \in Evicted(u.slot) THEN NoSeqs ELSE seqs[s]]
    /\ forwarded' = IF app
                    THEN Append(forwarded, [slot |-> u.slot, pubkey |-> u.pubkey, seq |-> u.seq,
                                            slot_seq |-> WriteSeq(u).slot_seq])
                    ELSE forwarded
    /\ HandOn
    /\ UNCHANGED oldest

(* process_account_update on the next message. *)
ProcessUpdate(u) ==
    /\ pc = "select"
    /\ ~ended
    /\ method = "consume_account_updates"
    /\ Len(forwarded) < MaxMessages
    /\ \/ Stale(u) /\ Return("StaleAccountUpdate")
       \/ ~Stale(u) /\ OutOfOrder(u) /\ Return("OutOfOrderSeqAccountUpdate")
       \/ ~Stale(u) /\ ~OutOfOrder(u) /\ Forward(u)

-----------------------------------------------------------------------------
Next ==
    \/ \E slot \in Slot : RaiseRooted(slot) \/ Subscribed(slot)
    \/ SetExit
    \/ DropReceiver
    \/ EndStream
    \/ SubscribeError
    \/ CheckExit
    \/ Tick
    \/ ReceiveEnd
    \/ ReceiveError
    \/ PassOn
    \/ \E u \in Update : ProcessUpdate(u)

Spec == Init /\ [][Next]_vars

(* The task is scheduled and its tick fires whenever it waits; select!     *)
(* picks at random among its ready branches, so the end of the stream,     *)
(* which is ready at every wait, is not put off for ever by the tick.  The *)
(* server owes the client nothing, not even an answer to the call.         *)
FairSpec == Spec /\ WF_vars(CheckExit) /\ WF_vars(Tick) /\ SF_vars(ReceiveEnd)

-----------------------------------------------------------------------------
(* Properties.                                                             *)

TypeOK ==
    /\ method \in Methods
    /\ pc \in {"subscribing", "check", "select"} \cup Returned
    /\ exit \in BOOLEAN
    /\ rooted \in Slot
    /\ app \in BOOLEAN
    /\ oldest \in Slot
    /\ used \in [Slot -> Nat]
    /\ IsFiniteSet(Cached) /\ Cardinality(Cached) <= CacheSize
    /\ seqs \in [Slot -> [Pubkey -> AccountWriteSeq \cup {NoSeq}]]
    /\ forwarded \in Seq([slot : Slot, pubkey : Pubkey, seq : WriteVersion, slot_seq : Nat])
    /\ ended \in BOOLEAN
    /\ late \in Nat

SameAccount(i, j) ==
    forwarded[i].slot = forwarded[j].slot /\ forwarded[i].pubkey = forwarded[j].pubkey

(* No slot can have been evicted: the updates fit in the cache. *)
FitsCache == Cardinality({forwarded[i].slot : i \in 1..Len(forwarded)}) <= CacheSize

(* The application can tell the writes of an account within a slot apart:  *)
(* they are numbered 0, 1, 2, ... in the order they are forwarded, however *)
(* slots are interleaved, as long as the slots in use fit in the cache     *)
(* (process_update; a slot that is evicted starts again at 0).             *)
Numbered ==
    FitsCache => \A j \in 1..Len(forwarded) :
        forwarded[j].slot_seq = Cardinality({i \in 1..(j - 1) : SameAccount(i, j)})

(* The order that the seq check does enforce: nothing older than the first *)
(* write that was seen of the account in the slot is forwarded.            *)
FirstSeqIsFloor ==
    FitsCache => \A i, j \in 1..Len(forwarded) :
        i < j /\ SameAccount(i, j) /\ forwarded[i].slot_seq = 0 => forwarded[i].seq <= forwarded[j].seq

(* Near the start of the chain, with a rooted slot within the tolerated    *)
(* distance of 0 and a header of 0, no update is too old: the subtraction  *)
(* must not underflow to a limit that every slot is below, however the     *)
(* application's task raises the rooted slot meanwhile (process_update).   *)
NoneStaleAtGenesis ==
    oldest = 0 /\ rooted <= MaxRootedSlotDistance => pc # "StaleAccountUpdate"

(* Once the exit flag is set a consumer hands on at most the message it    *)
(* was already waiting for: each of the three loops looks at the flag      *)
(* again before it reads on, tick or no tick.                              *)
AtMostOneLate == late <= 1

(* Setting the exit flag ends consume_account_updates, on a silent stream  *)
(* too: the tick makes sure the flag is looked at.                         *)
ExitHonoured ==
    exit /\ method = "consume_account_updates" /\ pc \in {"check", "select"} ~> pc \in Returned

(* A loop whose stream the server has ended returns, whatever was read     *)
(* before and however often the tick fires; the three commands of Spinning *)
(* do not, and poll the ended stream for ever.                             *)
EndNoticed == ended /\ method \notin Spinning ~> pc \in Returned

(* Module documentation: "Account updates received out of order will       *)
(* trigger an error", so what was forwarded is in order of seq.            *)
SeqsInOrder ==
    \A i, j \in 1..Len(forwarded) : i < j /\ SameAccount(i, j) => forwarded[i].seq <= forwarded[j].seq

=============================================================================
