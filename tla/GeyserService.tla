---------------------------- MODULE GeyserService ----------------------------
(***************************************************************************)
(* GeyserService (server/src/server.rs) and the SubscriptionStream it      *)
(* hands to tonic (server/src/subscription_stream.rs).                     *)
(*                                                                         *)
(* Five actors interleave: the validator threads that fill the five update *)
(* channels, the single event-loop thread, the tokio tasks that run the    *)
(* subscribe RPCs, the task that tonic polls each stream from, and the     *)
(* small task each stream spawns to report its own end.  One iteration of  *)
(* the event loop's select! is one action: its handlers only try_send, so  *)
(* no step of it blocks, and a receiver that goes away while a handler     *)
(* runs is seen by at most one of its sends.                               *)
(***************************************************************************)
EXTENDS GeyserTypes, Sequences

CONSTANTS
    Uuid,                   \* Uuid::new_v4(): every subscription gets its own
    TokenHolders,           \* calls that carry the configured access token
    Requests,               \* requests clients may send
    Notifications,          \* notifications the validator may produce
    ChannelCap,             \* per topic, *_update_buffer_size of its crossbeam channel
    SubscriberBufferSize,   \* subscriber_buffer_size of the tokio channels
    MaxUpdates              \* bound on the length of the log of updates

ASSUME RequestsAssumption == Requests \subseteq Request
ASSUME NotificationsAssumption == Notifications \subseteq Notification
ASSUME CapacityAssumption ==
    /\ ChannelCap \in [Topics -> Nat]       \* 0 makes a rendezvous channel
    /\ SubscriberBufferSize \in Nat \ {0}   \* tokio's channel(0) panics
    /\ MaxUpdates \in Nat

VARIABLES
    (* between the validator and the event loop *)
    updates,    \* every notification accepted by a channel, oldest first
    chan,       \* per topic, the channel: positions in updates
    connected,  \* the plugin still holds the senders of chan
    highest_write_slot,
    (* the service handle and its event loop *)
    svc,        \* the server still runs with a handle of the GeyserService
    loop,       \* "none" before new(), then "running", then "exited"
    added,      \* subscription_added channel (unbounded)
    closed,     \* subscription_closed channel (unbounded)
    subs,       \* the seven subscription maps, by kind
    (* per subscription *)
    req,        \* the request, once it has been handed to the event loop
    stream,     \* where the RPC and its SubscriptionStream are
    header,     \* highest-write-slot header of the response
    task,       \* the task SubscriptionStream::new spawns
    buf,        \* the subscriber's tokio channel
    got         \* what the client was sent: positions in updates

loopVars == <<loop, added, closed, subs>>
upstreamVars == <<updates, chan, connected, highest_write_slot>>
subscriptionVars == <<req, stream, header, task, buf, got>>
vars == <<upstreamVars, svc, loopVars, subscriptionVars>>

(* Messages of a subscriber channel: a positive number is a position in   *)
(* updates.                                                               *)
Heartbeat == 0
BrokenConnection == -1
Message == Nat \cup {Heartbeat, BrokenConnection}

StreamStates ==
    {"idle",                \* the client has not called yet
     "invalid_argument",    \* the RPC failed: malformed key
     "unauthenticated",     \* the interceptor refused the call
     "internal",            \* the RPC failed: the event loop is gone
     "requested",           \* event sent, handler still running
     "open",                \* response returned, stream being polled
     "dropping",            \* Drop ran, the receiver is not yet dropped
     "gone"}                \* the receiver is dropped

TaskStates == {"none", "waiting", "signalled", "done", "aborted"}

ClosedEvent == [kind : Kinds, uuid : Uuid]

-----------------------------------------------------------------------------
Init ==
    /\ updates = <<>>
    /\ chan = [t \in Topics |-> <<>>]
    /\ connected = FALSE
    /\ highest_write_slot = 0
    /\ svc = FALSE
    /\ loop = "none"
    /\ added = <<>>
    /\ closed = <<>>
    /\ subs = [k \in Kinds |-> {}]
    /\ req = [s \in Uuid |-> NoRequest]
    /\ stream = [s \in Uuid |-> "idle"]
    /\ header = [s \in Uuid |-> 0]
    /\ task = [s \in Uuid |-> "none"]
    /\ buf = [s \in Uuid |-> <<>>]
    /\ got = [s \in Uuid |-> <<>>]

(* GeyserService::new: the loop thread starts on the receivers it is given. *)
New ==
    /\ loop = "none"
    /\ loop' = "running"
    /\ svc' = TRUE
    /\ connected' = TRUE
    /\ UNCHANGED <<updates, chan, highest_write_slot, added, closed, subs, subscriptionVars>>

-----------------------------------------------------------------------------
(* The validator side, as the plugin drives it.                            *)

(* Fault: a plain store instead of fetch_max. *)
FetchMaxStore(slot) ==
    /\ connected
    /\ highest_write_slot' = slot
    /\ UNCHANGED <<updates, chan, connected, svc, loopVars, subscriptionVars>>

(* fetch_max on the shared highest_write_slot. *)
FetchMax(slot) ==
    /\ connected
    /\ highest_write_slot' = IF slot > highest_write_slot THEN slot ELSE highest_write_slot
    /\ UNCHANGED <<updates, chan, connected, svc, loopVars, subscriptionVars>>

(* Fault: the loop holds no sender of its own, and only clients keep it. *)
ServiceDroppedByClients == \A s \in Uuid : stream[s] \notin {"requested", "open"}

(* The service, and with it the added sender, is held by the server and by *)
(* each connection that is still being served.                             *)
ServiceDropped == ~svc /\ \A s \in Uuid : stream[s] \notin {"requested", "open"}

(* A channel of capacity 0 holds nothing: try_send succeeds only while the *)
(* event loop is blocked in its select!, which then has chosen this        *)
(* branch.  chan[t] is what was handed over.                               *)
Rendezvous(t) == ChannelCap[t] = 0

(* So many updates are on their way to the loop at most. *)
Capacity(t) == IF Rendezvous(t) THEN 1 ELSE ChannelCap[t]

Blocked ==
    /\ added = <<>>
    /\ closed = <<>>
    /\ \A t \in Topics : chan[t] = <<>>
    /\ ~ServiceDropped

HandedOver(t) == Rendezvous(t) /\ chan[t] # <<>>

(* The loop is free to choose among its ready branches. *)
Selecting == \A t \in Topics : ~HandedOver(t)

(* try_send on a bounded crossbeam channel: Full drops the notification,   *)
(* and a channel whose receiver is gone refuses it.                        *)
Accepts(t) ==
    /\ connected
    /\ loop = "running"
    /\ IF Rendezvous(t) THEN Blocked ELSE Len(chan[t]) < ChannelCap[t]

Publish(n) ==
    /\ Accepts(n.topic)
    /\ Len(updates) < MaxUpdates
    /\ updates' = Append(updates, n)
    /\ chan' = [chan EXCEPT ![n.topic] = Append(@, Len(updates) + 1)]
    /\ UNCHANGED <<connected, highest_write_slot, svc, loopVars, subscriptionVars>>

(* The plugin's data, with the five senders, is dropped. *)
DropSenders ==
    /\ connected
    /\ connected' = FALSE
    /\ UNCHANGED <<updates, chan, highest_write_slot, svc, loopVars, subscriptionVars>>

(* The tonic server ends and its runtime shuts down: no new RPC starts, and *)
(* tasks stop at their next await.                                          *)
DropService ==
    /\ svc
    /\ svc' = FALSE
    /\ UNCHANGED <<upstreamVars, loopVars, subscriptionVars>>

-----------------------------------------------------------------------------
(* The RPC handlers.                                                       *)

ValidPubkeys(keys) == keys \subseteq Key

Fail(s, status) ==
    /\ stream' = [stream EXCEPT ![s] = status]
    /\ UNCHANGED <<upstreamVars, svc, loopVars, req, header, task, buf, got>>

(* Fault: the result of try_send is not looked at. *)
AddSubscriptionUnchecked(s, r) ==
    /\ added' = IF loop = "running" THEN Append(added, s) ELSE added
    /\ req' = [req EXCEPT ![s] = r]
    /\ stream' = [stream EXCEPT ![s] = "requested"]
    /\ UNCHANGED <<upstreamVars, svc, loop, closed, subs, header, task, buf, got>>

(* Fault: the event is sent once more. *)
AddSubscriptionTwice(s, r) ==
    IF loop # "running"
    THEN Fail(s, "internal")
    ELSE /\ added' = added \o <<s, s>>
         /\ req' = [req EXCEPT ![s] = r]
         /\ stream' = [stream EXCEPT ![s] = "requested"]
         /\ UNCHANGED <<upstreamVars, svc, loop, closed, subs, header, task, buf, got>>

(* subscription_added_tx.try_send fails only when the loop has returned. *)
AddSubscription(s, r) ==
    IF loop # "running"
    THEN Fail(s, "internal")
    ELSE /\ added' = Append(added, s)
         /\ req' = [req EXCEPT ![s] = r]
         /\ stream' = [stream EXCEPT ![s] = "requested"]
         /\ UNCHANGED <<upstreamVars, svc, loop, closed, subs, header, task, buf, got>>

(* AccessTokenChecker runs before every handler; without a configured     *)
(* token every call passes.                                               *)
Unauthenticated(s) ==
    /\ svc
    /\ stream[s] = "idle"
    /\ s \notin TokenHolders
    /\ Fail(s, "unauthenticated")

Calls(s, r, kind) == svc /\ stream[s] = "idle" /\ s \in TokenHolders /\ r.kind = kind

SubscribeAccountUpdates(s, r) ==
    /\ Calls(s, r, "account")
    /\ IF ValidPubkeys(r.keys) THEN AddSubscription(s, r) ELSE Fail(s, "invalid_argument")

SubscribeProgramUpdates(s, r) ==
    /\ Calls(s, r, "program")
    /\ IF ValidPubkeys(r.keys) THEN AddSubscription(s, r) ELSE Fail(s, "invalid_argument")

SubscribePartialAccountUpdates(s, r) == Calls(s, r, "partial") /\ AddSubscription(s, r)

SubscribeSlotUpdates(s, r) == Calls(s, r, "slot") /\ AddSubscription(s, r)

SubscribeSlotEntryUpdates(s, r) == Calls(s, r, "slot_entry") /\ AddSubscription(s, r)

SubscribeTransactionUpdates(s, r) == Calls(s, r, "transaction") /\ AddSubscription(s, r)

SubscribeBlockUpdates(s, r) == Calls(s, r, "block") /\ AddSubscription(s, r)

Subscribe(s, r) ==
    \/ SubscribeAccountUpdates(s, r)
    \/ SubscribeProgramUpdates(s, r)
    \/ SubscribePartialAccountUpdates(s, r)
    \/ SubscribeSlotUpdates(s, r)
    \/ SubscribeSlotEntryUpdates(s, r)
    \/ SubscribeTransactionUpdates(s, r)
    \/ SubscribeBlockUpdates(s, r)

(* The rest of the handler, which the event loop may run ahead of: build   *)
(* the SubscriptionStream (on a runtime that is shut down the spawned task *)
(* is dropped at once) and read the slot for the header.                   *)
Respond(s) ==
    /\ stream[s] = "requested"
    /\ stream' = [stream EXCEPT ![s] = "open"]
    /\ task' = [task EXCEPT ![s] = IF svc THEN "waiting" ELSE "aborted"]
    /\ header' = [header EXCEPT ![s] = highest_write_slot]
    /\ UNCHANGED <<upstreamVars, svc, loopVars, req, buf, got>>

-----------------------------------------------------------------------------
(* SubscriptionStream.                                                     *)

(* Fault: the newest message first. *)
PollNextNewest(s) ==
    /\ stream[s] = "open"
    /\ buf[s] # <<>>
    /\ LET m == buf[s][Len(buf[s])]
       IN  /\ buf' = [buf EXCEPT ![s] = SubSeq(@, 1, Len(@) - 1)]
           /\ got' = IF m > Heartbeat THEN [got EXCEPT ![s] = Append(@, m)] ELSE got
    /\ UNCHANGED <<upstreamVars, svc, loopVars, req, stream, header, task>>

(* poll_next yields the next message and tonic writes it to the client. *)
PollNext(s) ==
    /\ stream[s] = "open"
    /\ buf[s] # <<>>
    /\ buf' = [buf EXCEPT ![s] = Tail(@)]
    /\ got' = IF Head(buf[s]) > Heartbeat THEN [got EXCEPT ![s] = Append(@, Head(buf[s]))] ELSE got
    /\ UNCHANGED <<upstreamVars, svc, loopVars, req, stream, header, task>>

(* s is known to the event loop, or will be once it has read its event;    *)
(* either holds the sender of the subscriber's channel.                    *)
Registered(s) ==
    \/ \E i \in 1..Len(added) : added[i] = s
    \/ \E k \in Kinds : s \in subs[k]

(* Drop for SubscriptionStream: the signal goes out first ... *)
BeginDrop(s) ==
    /\ stream' = [stream EXCEPT ![s] = "dropping"]
    /\ task' = [task EXCEPT ![s] = IF @ = "waiting" THEN "signalled" ELSE @]
    /\ UNCHANGED <<upstreamVars, svc, loopVars, req, header, buf, got>>

(* The client goes away, or its connection fails. *)
DropStream(s) == stream[s] = "open" /\ BeginDrop(s)

(* poll_next yields None once the last sender is dropped and the channel   *)
(* is drained; tonic ends the response and drops the stream.               *)
EndOfStream(s) == stream[s] = "open" /\ buf[s] = <<>> /\ ~Registered(s) /\ BeginDrop(s)

(* After the signal, and only then, is the field that holds the receiver dropped. *)
DropReceiver(s) ==
    /\ stream[s] = "dropping"
    /\ stream' = [stream EXCEPT ![s] = "gone"]
    /\ buf' = [buf EXCEPT ![s] = <<>>]
    /\ UNCHANGED <<upstreamVars, svc, loopVars, req, header, task, got>>

(* The spawned task wakes up and reports the end of the stream. *)
CloseTask(s) ==
    /\ task[s] = "signalled"
    /\ task' = [task EXCEPT ![s] = "done"]
    /\ closed' = IF loop = "running"
                 THEN Append(closed, [kind |-> req[s].kind, uuid |-> s])
                 ELSE closed
    /\ UNCHANGED <<upstreamVars, svc, loop, added, subs, req, stream, header, buf, got>>

(* A runtime that is shut down drops the task at its await point. *)
AbortTask(s) ==
    /\ ~svc
    /\ task[s] \in {"waiting", "signalled"}
    /\ task' = [task EXCEPT ![s] = "aborted"]
    /\ UNCHANGED <<upstreamVars, svc, loopVars, req, stream, header, buf, got>>

-----------------------------------------------------------------------------
(* The event loop.                                                         *)

(* TokioTrySendError::Closed: the receiver has been dropped. *)
Disconnected(s) == stream[s] = "gone"

(* Fault: one message too many. *)
TrySendOverfull(q, s, m) ==
    IF Disconnected(s) \/ Len(q) > SubscriberBufferSize THEN q ELSE Append(q, m)

(* The subscriber's channel q after try_send(m); Full and Closed leave it. *)
TrySend(q, s, m) ==
    IF Disconnected(s) \/ Len(q) >= SubscriberBufferSize THEN q ELSE Append(q, m)

(* Fault: a full buffer counts as a broken connection. *)
FailedSendsFull(targets) ==
    {s \in targets : Disconnected(s) \/ Len(buf[s]) >= SubscriberBufferSize}

FailedSends(targets) == {s \in targets : Disconnected(s)}

(* Send m to every target, then drop_subscriptions on the maps of kinds:   *)
(* every failed subscription is removed and offered a final error.         *)
SendAndDrop(m, targets, kinds) ==
    LET failed == FailedSends(targets)
        sent == [s \in Uuid |-> IF s \in targets THEN TrySend(buf[s], s, m) ELSE buf[s]]
    IN  /\ buf' = [s \in Uuid |-> IF s \in failed THEN TrySend(sent[s], s, BrokenConnection)
                                                  ELSE sent[s]]
        /\ subs' = [k \in Kinds |-> IF k \in kinds THEN subs[k] \ failed ELSE subs[k]]

(* Fault: failed heartbeats are not followed by drop_subscriptions. *)
SendHeartbeatsNoDrop ==
    /\ loop = "running"
    /\ Selecting
    /\ SendAndDrop(Heartbeat, subs["partial"], {})
    /\ UNCHANGED <<upstreamVars, svc, loop, added, closed, req, stream, header, task, got>>

(* Fault: the heartbeat goes to another map. *)
SendHeartbeatsElsewhere ==
    /\ loop = "running"
    /\ Selecting
    /\ SendAndDrop(Heartbeat, subs["slot"], {"slot"})
    /\ UNCHANGED <<upstreamVars, svc, loop, added, closed, req, stream, header, task, got>>

SendHeartbeats ==
    /\ loop = "running"
    /\ Selecting
    /\ SendAndDrop(Heartbeat, subs["partial"], {"partial"})
    /\ UNCHANGED <<upstreamVars, svc, loop, added, closed, req, stream, header, task, got>>

(* Fault: every kind is inserted into the account map. *)
HandleSubscriptionAddedOneMap ==
    /\ loop = "running"
    /\ Selecting
    /\ added # <<>>
    /\ added' = Tail(added)
    /\ subs' = [subs EXCEPT !["account"] = @ \cup {Head(added)}]
    /\ UNCHANGED <<upstreamVars, svc, loop, closed, subscriptionVars>>

HandleSubscriptionAdded ==
    /\ loop = "running"
    /\ Selecting
    /\ added # <<>>
    /\ added' = Tail(added)
    /\ subs' = [subs EXCEPT ![req[Head(added)].kind] = @ \cup {Head(added)}]
    /\ UNCHANGED <<upstreamVars, svc, loop, closed, subscriptionVars>>

(* Removing an id the map does not hold is a no-op. *)
HandleSubscriptionClosed ==
    /\ loop = "running"
    /\ Selecting
    /\ closed # <<>>
    /\ closed' = Tail(closed)
    /\ subs' = [subs EXCEPT ![Head(closed).kind] = @ \ {Head(closed).uuid}]
    /\ UNCHANGED <<upstreamVars, svc, loop, added, subscriptionVars>>

Receive(t) ==
    /\ loop = "running"
    /\ Selecting \/ HandedOver(t)
    /\ chan[t] # <<>>
    /\ chan' = [chan EXCEPT ![t] = Tail(@)]
    /\ UNCHANGED <<updates, connected, highest_write_slot, svc, loop, added, closed,
                   req, stream, header, task, got>>

(* The subscriptions of each of the three maps an account update goes to.  *)
AccountTargets(update) == {s \in subs["account"] : update.pubkey \in req[s].keys}

(* Fault: the account's address is compared instead of its owner. *)
ProgramTargetsByPubkey(update) == {s \in subs["program"] : update.pubkey \in req[s].keys}

ProgramTargets(update) == {s \in subs["program"] : update.owner \in req[s].keys}

PartialTargets(update) ==
    {s \in subs["partial"] : ~(req[s].skip_votes /\ update.owner = VoteProgram)}

HandleAccountUpdateEvent ==
    /\ Receive("account")
    /\ LET i == Head(chan["account"])
           u == updates[i]
       IN  SendAndDrop(i, AccountTargets(u) \cup ProgramTargets(u) \cup PartialTargets(u),
                       AccountKinds)

(* The four other handlers send the update to every subscription of a map. *)
Broadcast(t) ==
    /\ Receive(t)
    /\ SendAndDrop(Head(chan[t]), subs[t], {t})

HandleSlotUpdateEvent == Broadcast("slot")

HandleSlotEntryUpdateEvent == Broadcast("slot_entry")

HandleBlockUpdateEvent == Broadcast("block")

HandleTransactionUpdateEvent == Broadcast("transaction")

(* Fault: the error is logged and the loop goes on. *)
ReturnIgnored == loop = "running" /\ Selecting /\ UNCHANGED vars

(* Fault: the senders of the subscribers outlive the loop. *)
ReturnLeakingSenders ==
    /\ loop = "running"
    /\ Selecting
    /\ loop' = "exited"
    /\ chan' = [t \in Topics |-> <<>>]
    /\ UNCHANGED <<updates, connected, highest_write_slot, svc, added, closed, subs, subscriptionVars>>

(* A handler got RecvError and the thread returns: the receivers, with     *)
(* what was still queued, and the subscription maps are dropped.           *)
Return ==
    /\ loop = "running"
    /\ Selecting
    /\ loop' = "exited"
    /\ chan' = [t \in Topics |-> <<>>]
    /\ added' = <<>>
    /\ closed' = <<>>
    /\ subs' = [k \in Kinds |-> {}]
    /\ UNCHANGED <<updates, connected, highest_write_slot, svc, subscriptionVars>>

(* Each handler of an update channel fails once the channel is empty and   *)
(* its sender is gone, whatever the other channels still hold.             *)
UpdateRecvError(t) == ~connected /\ chan[t] = <<>> /\ Return

AddedRecvError == ServiceDropped /\ added = <<>> /\ Return

(* Every stream's task holds a sender of its own. *)
ClosedRecvError ==
    /\ ServiceDropped
    /\ \A s \in Uuid : task[s] \notin {"waiting", "signalled"}
    /\ closed = <<>>
    /\ Return

-----------------------------------------------------------------------------
EventLoop ==
    \/ SendHeartbeats
    \/ HandleSubscriptionAdded
    \/ HandleSubscriptionClosed
    \/ HandleAccountUpdateEvent
    \/ HandleSlotUpdateEvent
    \/ HandleSlotEntryUpdateEvent
    \/ HandleBlockUpdateEvent
    \/ HandleTransactionUpdateEvent
    \/ \E t \in Topics : UpdateRecvError(t)
    \/ AddedRecvError
    \/ ClosedRecvError

Client(s) ==
    \/ Unauthenticated(s)
    \/ \E r \in Requests : Subscribe(s, r)
    \/ Respond(s)
    \/ PollNext(s)
    \/ DropStream(s)
    \/ EndOfStream(s)
    \/ DropReceiver(s)
    \/ CloseTask(s)
    \/ AbortTask(s)

Upstream ==
    \/ New
    \/ \E slot \in Slot : FetchMax(slot)
    \/ \E n \in Notifications : Publish(n)
    \/ DropSenders
    \/ DropService

Next ==
    \/ EventLoop
    \/ \E s \in Uuid : Client(s)
    \/ Upstream

Spec == Init /\ [][Next]_vars

(* select! picks at random among the ready branches, so a branch that      *)
(* stays ready is taken; the tick is always ready again; a tokio task that *)
(* was woken runs; a drop that began completes.  Nothing obliges a client, *)
(* the validator or the owner of the server to act.                        *)
Fairness ==
    /\ WF_vars(SendHeartbeats)
    /\ WF_vars(HandleSubscriptionAdded)
    /\ WF_vars(HandleSubscriptionClosed)
    /\ WF_vars(HandleAccountUpdateEvent)
    /\ WF_vars(HandleSlotUpdateEvent)
    /\ WF_vars(HandleSlotEntryUpdateEvent)
    /\ WF_vars(HandleBlockUpdateEvent)
    /\ WF_vars(HandleTransactionUpdateEvent)
    /\ \A t \in Topics : WF_vars(UpdateRecvError(t))
    /\ WF_vars(AddedRecvError)
    /\ WF_vars(ClosedRecvError)
    /\ \A s \in Uuid : WF_vars(Respond(s)) /\ WF_vars(DropReceiver(s)) /\ WF_vars(CloseTask(s))

FairSpec == Spec /\ Fairness

(* In addition every client keeps reading its stream. *)
ReadingSpec == FairSpec /\ \A s \in Uuid : WF_vars(PollNext(s)) /\ WF_vars(EndOfStream(s))

-----------------------------------------------------------------------------
(* Properties.                                                             *)

TypeOK ==
    /\ updates \in Seq(Notification)
    /\ chan \in [Topics -> Seq(Nat)]
    /\ \A t \in Topics : Len(chan[t]) <= Capacity(t)
    /\ connected \in BOOLEAN
    /\ highest_write_slot \in Slot
    /\ svc \in BOOLEAN
    /\ loop \in {"none", "running", "exited"}
    /\ added \in Seq(Uuid)
    /\ closed \in Seq(ClosedEvent)
    /\ subs \in [Kinds -> SUBSET Uuid]
    /\ req \in [Uuid -> Request \cup {NoRequest}]
    /\ stream \in [Uuid -> StreamStates]
    /\ header \in [Uuid -> Slot]
    /\ task \in [Uuid -> TaskStates]
    /\ buf \in [Uuid -> Seq(Message)]
    /\ \A s \in Uuid : Len(buf[s]) <= SubscriberBufferSize
    /\ got \in [Uuid -> Seq(Nat)]

(* As long as the event loop runs, a client whose stream is open is        *)
(* subscribed: a full buffer, a late close event of another stream, a      *)
(* heartbeat or a failed send to somebody else never removes it            *)
(* (drop_subscriptions, handle_subscription_closed).                       *)
NoLiveDrop ==
    loop = "running" => \A s \in Uuid : stream[s] = "open" => Registered(s)

(* Clean-up of closed subscriptions, the event loop's second duty: once    *)
(* the stream of s is gone, the event loop eventually forgets s.           *)
Reaped(s) == stream[s] = "gone" ~> ~Registered(s)

(* A partial subscription is always cleaned up, even when its close event  *)
(* overtakes its added event (they travel on different channels) or is     *)
(* never sent: the next heartbeat fails and drop_subscriptions removes it. *)
PartialReaped == \A s \in Uuid : stream[s] = "gone" /\ req[s].kind = "partial" ~> ~Registered(s)

(* The same for every kind of subscription, as the comments of event_loop  *)
(* ("Cleanup closed subscriptions") and SubscriptionStream say.            *)
AllReaped == \A s \in Uuid : Reaped(s)

(* The maps hold s. *)
Mapped(s) == \E k \in Kinds : s \in subs[k]

(* An entry is removed for good, and only when its stream is on its way    *)
(* out or the loop returns: no event that is still queued, late or failed  *)
(* brings it back (handle_subscription_added, handle_subscription_closed,  *)
(* drop_subscriptions).                                                    *)
RemovedForGood ==
    [][\A s \in Uuid :
         /\ Mapped(s) /\ ~Mapped(s)' =>
               ~Registered(s)' /\ (stream[s] \in {"dropping", "gone"} \/ loop' = "exited")
         /\ stream[s] # "idle" /\ ~Registered(s) => ~Registered(s)']_vars

(* Once the loop has returned it is over: no update is accepted, no call   *)
(* is answered with a stream, no sender is left that could keep one open   *)
(* and the buffers only drain, although the server may run on and the      *)
(* plugin's senders may still be held (the RecvError arms of event_loop,   *)
(* try_send in the subscribe RPCs).                                        *)
OverAfterReturn ==
    [][loop = "exited" =>
         /\ loop' = "exited"
         /\ updates' = updates
         /\ \A s \in Uuid :
               /\ ~Registered(s)'
               /\ stream[s] = "idle" => stream'[s] # "requested"
               /\ Len(buf'[s]) <= Len(buf[s])]_vars

(* s has a heartbeat waiting for it, or is no longer being served. *)
PingedOrEnded(s) ==
    \/ \E i \in 1..Len(buf[s]) : buf[s][i] = Heartbeat
    \/ stream[s] # "open"
    \/ loop = "exited"

(* A partial subscriber that keeps reading is pinged, although updates may *)
(* fill its buffer and push heartbeats out: the updates are finitely many  *)
(* here (MaxUpdates), so once they pause a heartbeat gets through.         *)
PartialPinged == \A s \in Uuid : stream[s] = "open" /\ req[s].kind = "partial" ~> PingedOrEnded(s)

(* Dropping the plugin's senders stops the event loop, whatever clients do *)
(* and whatever is still queued.                                           *)
LoopStops == loop = "running" /\ ~connected ~> loop = "exited"

(* When the event loop returns, every client that keeps reading sees its   *)
(* stream end: nobody is left waiting on a sender that is never dropped.   *)
StreamsEnd == \A s \in Uuid : loop = "exited" ~> stream[s] \notin {"requested", "open"}

-----------------------------------------------------------------------------
(* The inductive invariant behind NoLiveDrop and FeedSpec.                 *)

Rejected == {"idle", "unauthenticated", "invalid_argument", "internal"}

(* Before a subscription is accepted there is no trace of it. *)
RejectedInv ==
    \A s \in Uuid : stream[s] \in Rejected =>
        /\ req[s] = NoRequest
        /\ task[s] = "none"
        /\ buf[s] = <<>>
        /\ got[s] = <<>>

AcceptedInv ==
    /\ \A s \in Uuid : stream[s] \notin Rejected => req[s] \in Request
    /\ \A i \in 1..Len(added) : stream[added[i]] \notin Rejected
    /\ \A k \in Kinds : \A s \in subs[k] : stream[s] \notin Rejected /\ req[s].kind = k

(* Only a stream that is being dropped is ever reported as closed. *)
ClosedInv ==
    /\ \A s \in Uuid : task[s] \in {"signalled", "done"} => stream[s] \in {"dropping", "gone"}
    /\ \A i \in 1..Len(closed) : stream[closed[i].uuid] \in {"dropping", "gone"}

LiveInv ==
    /\ loop = "none" => \A s \in Uuid : stream[s] = "idle"
    /\ loop = "none" => ~svc
    /\ loop = "running" => \A s \in Uuid : stream[s] \in {"requested", "open"} => Registered(s)

(* A channel holds positions of its own topic, oldest first. *)
ChanInv ==
    \A t \in Topics :
        /\ \A i \in 1..Len(chan[t]) :
              chan[t][i] \in 1..Len(updates) /\ updates[chan[t][i]].topic = t
        /\ \A i, j \in 1..Len(chan[t]) : i < j => chan[t][i] < chan[t][j]

(* Everything i is older than what the channel of s still holds. *)
BeforeChan(s, i) ==
    \A t \in Topics : t = TopicOf(req[s].kind) =>
        \A j \in 1..Len(chan[t]) : i < chan[t][j]

(* What s was sent precedes what its buffer holds, which precedes what the *)
(* channel of its topic holds.                                             *)
BufInv ==
    \A s \in Uuid :
        /\ \A i \in 1..Len(buf[s]) : buf[s][i] > Heartbeat =>
              /\ buf[s][i] \in 1..Len(updates)
              /\ Wants(req[s], updates[buf[s][i]])
              /\ BeforeChan(s, buf[s][i])
              /\ \A j \in 1..Len(got[s]) : got[s][j] < buf[s][i]
        /\ \A i, j \in 1..Len(buf[s]) :
              i < j /\ buf[s][i] > Heartbeat /\ buf[s][j] > Heartbeat => buf[s][i] < buf[s][j]

GotInv ==
    \A s \in Uuid : \A i \in 1..Len(got[s]) :
        got[s][i] \in 1..Len(updates) /\ BeforeChan(s, got[s][i])

(* Sent, buffered and queued updates of a subscriber are one increasing    *)
(* sequence, and every accepted subscription is where its state says.      *)
DeliveryInv ==
    RejectedInv /\ AcceptedInv /\ ClosedInv /\ LiveInv /\ ChanInv /\ BufInv /\ GotInv

Feed == INSTANCE LossyFeed WITH updates <- updates, req <- req, got <- got

(* Through channels, filters, full buffers, disconnects and shutdown, each *)
(* client is sent a subsequence of the log of accepted updates: only what  *)
(* it asked for, in order, nothing twice.                                  *)
FeedSpec == Feed!Spec

=============================================================================
