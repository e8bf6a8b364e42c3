------------------------------ MODULE EndToEnd ------------------------------
(***************************************************************************)
(* The whole path of an account update: validator threads, the plugin, the *)
(* service with all its clients, and one client that is an application's   *)
(* consume_account_updates (GeyserConsumer).  Between the two lies a gRPC  *)
(* response stream: what tonic wrote is read in the same order, then the   *)
(* end of the response or, at any point, a transport error.                *)
(*                                                                         *)
(* A step is one of the server's, which the client does not see, or one of *)
(* the client's, which takes what the server wrote and changes nothing     *)
(* there.  The application is a patient one: it keeps the receiver, does   *)
(* not set the exit flag and leaves highest_rooted_slot at 0, so whatever  *)
(* ends its loop comes from the server.                                    *)
(***************************************************************************)
EXTENDS GeyserPlugin

CONSTANTS
    App,                    \* the subscription of the application
    MaxRootedSlotDistance,  \* max_rooted_slot_distance
    CacheSize               \* ACCOUNT_WRITE_SEQS_CACHE_SIZE

ASSUME AppAssumption ==
    /\ App \in Uuid
    /\ MaxRootedSlotDistance \in Nat
    /\ CacheSize \in Nat \ {0}

VARIABLES
    (* see GeyserConsumer *)
    method, pc, exit, rooted, app, oldest, used, seqs, forwarded, ended, late,
    read,       \* how many of the messages in got[App] the client has read
    delivered,  \* positions in updates that the application was sent
    base        \* length of updates when the response to App was built

consumerVars == <<method, pc, exit, rooted, app, oldest, used, seqs, forwarded, ended, late>>
clientVars == <<consumerVars, read, delivered>>
endVars == <<allVars, clientVars, base>>

C == INSTANCE GeyserConsumer WITH
        Methods <- {"consume_account_updates"}, Pubkey <- Key, MaxMessages <- MaxUpdates

EInit ==
    /\ PInit
    /\ C!Init
    /\ read = 0
    /\ delivered = <<>>
    /\ base = 0

-----------------------------------------------------------------------------
(* The server, its other clients and the validator.  The application calls *)
(* subscribe_account_updates once, and waits for the answer.               *)
ServerSide ==
    /\ PNext
    /\ stream[App] = "idle" /\ stream'[App] # "idle" =>
          pc = "subscribing" /\ req'[App].kind \in {"none", "account"}
    /\ base' = IF stream[App] = "requested" /\ stream'[App] = "open" THEN Len(updates) ELSE base
    /\ UNCHANGED clientVars

(* The response, whose header is always there. *)
Subscribed ==
    /\ stream[App] \in {"open", "dropping", "gone"}
    /\ C!Subscribed(header[App])
    /\ UNCHANGED <<allVars, read, delivered, base>>

(* The server refused the call, or the network lost it. *)
SubscribeError ==
    /\ C!SubscribeError
    /\ pc' = "ServerError"
    /\ UNCHANGED <<allVars, read, delivered, base>>

AppUpdate(n) == [slot |-> n.slot, pubkey |-> n.pubkey, seq |-> n.seq]

(* Fault: a message is read again. *)
ReceiveUpdateAgain ==
    /\ read < Len(got[App])
    /\ C!ProcessUpdate(AppUpdate(updates[got[App][read + 1]]))
    /\ delivered' = IF forwarded' = forwarded THEN delivered
                    ELSE Append(delivered, got[App][read + 1])
    /\ UNCHANGED <<allVars, read, base>>

(* The next message of the response goes through process_account_update. *)
ReceiveUpdate ==
    /\ read < Len(got[App])
    /\ C!ProcessUpdate(AppUpdate(updates[got[App][read + 1]]))
    /\ read' = read + 1
    /\ delivered' = IF forwarded' = forwarded THEN delivered
                    ELSE Append(delivered, got[App][read + 1])
    /\ UNCHANGED <<allVars, base>>

(* Everything was read and the server has ended the response. *)
EndOfResponse ==
    /\ stream[App] \in {"dropping", "gone"}
    /\ read = Len(got[App])
    /\ C!EndStream
    /\ UNCHANGED <<allVars, read, delivered, base>>

(* Fault: a loop that found its stream closed reads on. *)
ClientLoopRetrying ==
    /\ \/ C!CheckExit \/ C!Tick \/ C!ReceiveEnd \/ C!ReceiveError
       \/ /\ pc = "StreamClosed"
          /\ pc' = "check"
          /\ UNCHANGED <<method, exit, rooted, app, oldest, used, seqs, forwarded, ended, late>>
    /\ UNCHANGED <<allVars, read, delivered, base>>

(* The rest of the client's loop. *)
ClientLoop ==
    /\ C!CheckExit \/ C!Tick \/ C!ReceiveEnd \/ C!ReceiveError
    /\ UNCHANGED <<allVars, read, delivered, base>>

ClientSide == Subscribed \/ SubscribeError \/ ReceiveUpdate \/ EndOfResponse \/ ClientLoop

ENext == ServerSide \/ ClientSide

ESpec == EInit /\ [][ENext]_endVars

(* The server's threads run (PFairness), tonic keeps writing App's         *)
(* response, and the connection carries it to its end or breaks.  The      *)
(* client's task is scheduled; its select! picks at random, so a message   *)
(* or an end that waits is not put off for ever by the tick.               *)
EFairness ==
    /\ PFairness
    /\ WF_vars(PollNext(App)) /\ WF_vars(EndOfStream(App))
    /\ WF_endVars(EndOfResponse)
    /\ WF_consumerVars(C!CheckExit) /\ WF_consumerVars(C!Tick)
    /\ SF_endVars(ReceiveUpdate) /\ SF_consumerVars(C!ReceiveEnd)

EFairSpec == ESpec /\ EFairness

-----------------------------------------------------------------------------
(* Properties.                                                             *)

AppFeed == INSTANCE LossyFeed WITH
              updates <- updates, req <- req, got <- [got EXCEPT ![App] = delivered]

(* End to end: what the application is handed is a subsequence of the log  *)
(* of accepted updates, of the accounts it asked for, in order and nothing *)
(* twice, through channels, filters, buffers, the response and the         *)
(* client's own checks.                                                    *)
AppFeedSpec == AppFeed!Spec

(* The highest-write-slot header at work: the application never sees an    *)
(* update of a slot older than one the plugin had accepted before it       *)
(* answered the call, although validator threads raise the slot and send   *)
(* in two steps, and the response is built while they do.                  *)
NothingOlder ==
    \A d \in 1..Len(delivered) : \A i \in 1..base :
        updates[i].topic = "account" => updates[i].slot <= updates[delivered[d]].slot

(* Seen from the client, this server is one of those GeyserConsumer is     *)
(* ready for: what it writes, with its header and its end, drives the loop *)
(* through steps of consume_account_updates only.  So what is shown of the *)
(* loop against any server holds here.                                     *)
ConsumerSpec == C!Spec

Handed(d) == updates[delivered[d]]

SameWrite(d, e) == Handed(d).slot = Handed(e).slot /\ Handed(d).pubkey = Handed(e).pubkey

(* The number that comes with an update (slot_seq of process_update) tells *)
(* how many of the validator's writes of that account in that slot the     *)
(* application was handed before, through every loss on the way, as long   *)
(* as the slots fit in the client's cache.                                 *)
HandedNumbered ==
    /\ Len(forwarded) = Len(delivered)
    /\ C!FitsCache => \A d \in 1..Len(delivered) :
          forwarded[d].slot_seq = Cardinality({e \in 1..(d - 1) : SameWrite(e, d)})

(* Unloading the plugin ends the application's loop, whatever is still     *)
(* queued, buffered or unread: the event loop returns and drops the        *)
(* subscriber's sender, the response ends, and the client notices.         *)
UnloadReachesApp ==
    plugin \in {"signalled", "panicked"} /\ pc \in {"check", "select"} ~> pc \in C!Returned

(* Module documentation of the client: "updates for older slots are        *)
(* discarded"; so behind a validator that delivers slots in order a client *)
(* that tolerates any slot never meets the stale-update error.             *)
StaleDiscarded ==
    (\A i, j \in 1..Len(updates) : i < j => updates[i].slot <= updates[j].slot)
        => pc # "StaleAccountUpdate"

=============================================================================
