------------------------- MODULE GeyserServiceProofs -------------------------
(***************************************************************************)
(* Proofs about GeyserService, for every set of clients, every request,    *)
(* every capacity and an unbounded number of updates (MaxUpdates is any    *)
(* natural number).                                                        *)
(***************************************************************************)
EXTENDS GeyserService, TLAPS

USE DEF loopVars, upstreamVars, subscriptionVars

-----------------------------------------------------------------------------
(* The effect of a handler on the subscribers' channels and the maps: a    *)
(* channel is left alone or, if its receiver lives and it has room, gets   *)
(* the message; the error of drop_subscriptions is only ever offered to a  *)
(* receiver that is gone, so it never arrives.                             *)
LEMMA SendEffect ==
    ASSUME TypeOK, NEW m, NEW targets \in SUBSET Uuid, NEW kinds,
           SendAndDrop(m, targets, kinds)
    PROVE  /\ buf' \in [Uuid -> Seq(Message \cup {m})]
           /\ subs' \in [Kinds -> SUBSET Uuid]
           /\ \A s \in Uuid :
                 \/ buf'[s] = buf[s]
                 \/ /\ s \in targets
                    /\ stream[s] # "gone"
                    /\ Len(buf[s]) < SubscriberBufferSize
                    /\ buf'[s] = Append(buf[s], m)
           /\ \A k \in Kinds : subs'[k] \subseteq subs[k]
           /\ \A k \in Kinds : \A s \in subs[k] : stream[s] # "gone" => s \in subs'[k]
<1> USE CapacityAssumption
<1>1. \A s \in Uuid :
         \/ buf'[s] = buf[s]
         \/ /\ s \in targets
            /\ stream[s] # "gone"
            /\ Len(buf[s]) < SubscriberBufferSize
            /\ buf'[s] = Append(buf[s], m)
  BY DEF SendAndDrop, FailedSends, TrySend, Disconnected, TypeOK
<1>2. \A s \in Uuid : buf'[s] \in Seq(Message \cup {m})
  <2> SUFFICES ASSUME NEW s \in Uuid PROVE buf'[s] \in Seq(Message \cup {m})
    OBVIOUS
  <2>1. buf[s] \in Seq(Message)
    BY DEF TypeOK
  <2>2. buf[s] \in Seq(Message \cup {m})
    BY <2>1
  <2>3. Append(buf[s], m) \in Seq(Message \cup {m})
    BY <2>2
  <2> QED
    BY <1>1, <2>2, <2>3
<1>3. buf' \in [Uuid -> Seq(Message \cup {m})]
  BY <1>2 DEF SendAndDrop
<1>4. subs' \in [Kinds -> SUBSET Uuid]
  BY DEF SendAndDrop, TypeOK
<1>5. \A k \in Kinds : subs'[k] \subseteq subs[k]
  BY DEF SendAndDrop
<1>6. \A k \in Kinds : \A s \in subs[k] : stream[s] # "gone" => s \in subs'[k]
  BY DEF SendAndDrop, FailedSends, Disconnected
<1> QED
  BY <1>1, <1>3, <1>4, <1>5, <1>6

-----------------------------------------------------------------------------
(* Type correctness.                                                       *)

(* Every channel, a rendezvous channel too, passes an update at a time. *)
LEMMA CapacityPositive == \A t \in Topics : Capacity(t) \in Nat /\ Capacity(t) > 0
  BY CapacityAssumption DEF Capacity, Rendezvous

(* Nothing runs before GeyserService::new: the initial state is well typed. *)
LEMMA InitType == Init => TypeOK
<1> SUFFICES ASSUME Init PROVE TypeOK
  OBVIOUS
<1>1. connected \in BOOLEAN /\ svc \in BOOLEAN
  BY Zenon DEF Init
<1>2. chan \in [Topics -> Seq(Nat)] /\ \A t \in Topics : Len(chan[t]) <= Capacity(t)
  BY CapacityPositive DEF Init
<1>3. buf \in [Uuid -> Seq(Message)] /\ \A s \in Uuid : Len(buf[s]) <= SubscriberBufferSize
  BY CapacityAssumption DEF Init
<1> QED
  BY <1>1, <1>2, <1>3, SlotAssumption DEF Init, TypeOK, StreamStates, TaskStates

(* What the event loop sends: an update it took off a channel, or a        *)
(* heartbeat, to some subscriptions.                                       *)
LEMMA SendType ==
    ASSUME TypeOK, NEW m \in Message, NEW targets \in SUBSET Uuid, NEW kinds,
           SendAndDrop(m, targets, kinds)
    PROVE  /\ buf' \in [Uuid -> Seq(Message)]
           /\ \A s \in Uuid : Len(buf'[s]) <= SubscriberBufferSize
           /\ subs' \in [Kinds -> SUBSET Uuid]
<1>1. Message \cup {m} = Message
  OBVIOUS
<1>2. buf' \in [Uuid -> Seq(Message)]
  BY <1>1, SendEffect
<1>3. \A s \in Uuid : Len(buf'[s]) <= SubscriberBufferSize
  <2> SUFFICES ASSUME NEW s \in Uuid PROVE Len(buf'[s]) <= SubscriberBufferSize
    OBVIOUS
  <2>1. buf[s] \in Seq(Message) /\ Len(buf[s]) <= SubscriberBufferSize
    BY DEF TypeOK
  <2>2. CASE buf'[s] = buf[s]
    BY <2>1, <2>2
  <2>3. CASE buf'[s] = Append(buf[s], m) /\ Len(buf[s]) < SubscriberBufferSize
    BY <2>1, <2>3, CapacityAssumption
  <2> QED
    BY <2>2, <2>3, SendEffect
<1> QED
  BY <1>2, <1>3, SendEffect

(* Taking an update off a channel keeps the channels well typed. *)
LEMMA ReceiveType ==
    ASSUME TypeOK, NEW t \in Topics, Receive(t)
    PROVE  /\ chan' \in [Topics -> Seq(Nat)]
           /\ \A u \in Topics : Len(chan'[u]) <= Capacity(u)
           /\ Head(chan[t]) \in Message
<1>1. chan[t] \in Seq(Nat) /\ chan[t] # <<>>
  BY DEF TypeOK, Receive
<1>2. Tail(chan[t]) \in Seq(Nat) /\ Head(chan[t]) \in Nat /\ Len(Tail(chan[t])) = Len(chan[t]) - 1
  BY <1>1
<1>3. chan' = [chan EXCEPT ![t] = Tail(chan[t])]
  BY DEF Receive
<1> QED
  BY <1>1, <1>2, <1>3, CapacityPositive DEF TypeOK, Message

(* A handler that takes an update, sends it and drops what failed keeps all types. *)
LEMMA HandlerType ==
    ASSUME TypeOK, NEW t \in Topics, Receive(t),
           NEW targets \in SUBSET Uuid, NEW kinds,
           SendAndDrop(Head(chan[t]), targets, kinds)
    PROVE  TypeOK'
<1>1. Head(chan[t]) \in Message
  BY ReceiveType
<1>2. /\ buf' \in [Uuid -> Seq(Message)]
      /\ \A s \in Uuid : Len(buf'[s]) <= SubscriberBufferSize
      /\ subs' \in [Kinds -> SUBSET Uuid]
  BY <1>1, SendType
<1>3. /\ chan' \in [Topics -> Seq(Nat)]
      /\ \A u \in Topics : Len(chan'[u]) <= Capacity(u)
  BY ReceiveType
<1>4. UNCHANGED <<updates, connected, highest_write_slot, svc, loop, added, closed,
                  req, stream, header, task, got>>
  BY DEF Receive
<1> QED
  BY <1>2, <1>3, <1>4 DEF TypeOK

(* Every iteration of event_loop keeps all types and both buffer bounds. *)
LEMMA EventLoopType == TypeOK /\ EventLoop => TypeOK'
<1> SUFFICES ASSUME TypeOK, EventLoop PROVE TypeOK'
  OBVIOUS
<1>1. CASE SendHeartbeats
  <2>1. SendAndDrop(Heartbeat, subs["partial"], {"partial"})
    BY <1>1 DEF SendHeartbeats
  <2>2. Heartbeat \in Message /\ subs["partial"] \in SUBSET Uuid
    BY DEF Message, TypeOK, Kinds, AccountKinds
  <2>3. /\ buf' \in [Uuid -> Seq(Message)]
        /\ \A s \in Uuid : Len(buf'[s]) <= SubscriberBufferSize
        /\ subs' \in [Kinds -> SUBSET Uuid]
    BY <2>1, <2>2, SendType
  <2> QED
    BY <1>1, <2>3 DEF SendHeartbeats, TypeOK
<1>2. CASE HandleSubscriptionAdded
  <2>1. Head(added) \in Uuid /\ Tail(added) \in Seq(Uuid)
    BY <1>2 DEF HandleSubscriptionAdded, TypeOK
  <2> QED
    BY <1>2, <2>1 DEF HandleSubscriptionAdded, TypeOK
<1>3. CASE HandleSubscriptionClosed
  <2>1. Tail(closed) \in Seq(ClosedEvent)
    BY <1>3 DEF HandleSubscriptionClosed, TypeOK
  <2> QED
    BY <1>3, <2>1 DEF HandleSubscriptionClosed, TypeOK
<1>4. CASE HandleAccountUpdateEvent
  <2> DEFINE u == updates[Head(chan["account"])]
             targets == AccountTargets(u) \cup ProgramTargets(u) \cup PartialTargets(u)
  <2>1. Receive("account") /\ SendAndDrop(Head(chan["account"]), targets, AccountKinds)
    BY <1>4 DEF HandleAccountUpdateEvent
  <2>2. targets \in SUBSET Uuid
    BY DEF TypeOK, AccountTargets, ProgramTargets, PartialTargets, Kinds, AccountKinds
  <2>3. "account" \in Topics
    BY DEF Topics
  <2> HIDE DEF targets
  <2> QED
    BY <2>1, <2>2, <2>3, HandlerType
<1>5. ASSUME NEW t \in {"slot", "slot_entry", "block", "transaction"}, Broadcast(t)
      PROVE  TypeOK'
  <2>1. t \in Topics /\ subs[t] \in SUBSET Uuid
    BY DEF Topics, Kinds, TypeOK
  <2> QED
    BY <1>5, <2>1, HandlerType DEF Broadcast
<1>6. CASE Return
  <2>1. chan' \in [Topics -> Seq(Nat)] /\ \A t \in Topics : Len(chan'[t]) <= Capacity(t)
    BY <1>6, CapacityPositive DEF Return
  <2> QED
    BY <1>6, <2>1 DEF Return, TypeOK
<1> QED
  BY <1>1, <1>2, <1>3, <1>4, <1>5, <1>6
  DEF EventLoop, HandleSlotUpdateEvent, HandleSlotEntryUpdateEvent, HandleBlockUpdateEvent,
      HandleTransactionUpdateEvent, UpdateRecvError, AddedRecvError, ClosedRecvError

(* A close event names the kind of its request, which is well typed only   *)
(* because the task of a stream exists after its request was accepted.     *)
LEMMA ClientType == ASSUME NEW s \in Uuid, TypeOK, DeliveryInv, Client(s) PROVE TypeOK'
<1> USE DEF StreamStates, TaskStates
<1>1. ASSUME NEW status \in {"unauthenticated", "invalid_argument", "internal"}, Fail(s, status)
      PROVE  TypeOK'
  BY <1>1 DEF Fail, TypeOK
<1>2. ASSUME NEW r \in Requests, AddSubscription(s, r) PROVE TypeOK'
  <2>1. r \in Request
    BY RequestsAssumption
  <2>2. CASE Fail(s, "internal")
    BY <1>1, <2>2
  <2>3. CASE ~Fail(s, "internal")
    <3>1. added' = Append(added, s) /\ Append(added, s) \in Seq(Uuid)
      BY <1>2, <2>3 DEF AddSubscription, TypeOK
    <3>2. /\ req' = [req EXCEPT ![s] = r] /\ stream' = [stream EXCEPT ![s] = "requested"]
          /\ UNCHANGED <<updates, chan, connected, highest_write_slot, svc, loop, closed, subs,
                         header, task, buf, got>>
      BY <1>2, <2>3 DEF AddSubscription
    <3>3. /\ req' \in [Uuid -> Request \cup {NoRequest}]
          /\ stream' \in [Uuid -> StreamStates]
      BY <2>1, <3>2 DEF TypeOK, StreamStates
    <3> QED
      BY <3>1, <3>2, <3>3 DEF TypeOK
  <2> QED
    BY <2>2, <2>3
<1>3. ASSUME NEW r \in Requests, Subscribe(s, r) PROVE TypeOK'
  BY <1>1, <1>2, <1>3
  DEF Subscribe, SubscribeAccountUpdates, SubscribeProgramUpdates,
      SubscribePartialAccountUpdates, SubscribeSlotUpdates, SubscribeSlotEntryUpdates,
      SubscribeTransactionUpdates, SubscribeBlockUpdates
<1>4. CASE Respond(s)
  BY <1>4 DEF Respond, TypeOK
<1>5. CASE PollNext(s)
  <2>1. buf[s] \in Seq(Message) /\ buf[s] # <<>> /\ Len(buf[s]) <= SubscriberBufferSize
    BY <1>5 DEF PollNext, TypeOK
  <2>2. /\ Tail(buf[s]) \in Seq(Message)
        /\ Len(Tail(buf[s])) = Len(buf[s]) - 1
        /\ Head(buf[s]) \in Message
    BY <2>1
  <2>3. /\ buf' \in [Uuid -> Seq(Message)]
        /\ \A x \in Uuid : Len(buf'[x]) <= SubscriberBufferSize
    BY <1>5, <2>1, <2>2, CapacityAssumption DEF PollNext, TypeOK
  <2>4. got' \in [Uuid -> Seq(Nat)]
    <3>1. CASE Head(buf[s]) > Heartbeat
      <4>1. Head(buf[s]) \in Nat
        BY <2>2, <3>1 DEF Message, Heartbeat, BrokenConnection
      <4>2. Append(got[s], Head(buf[s])) \in Seq(Nat)
        BY <4>1 DEF TypeOK
      <4> QED
        BY <1>5, <3>1, <4>2 DEF PollNext, TypeOK
    <3>2. CASE ~(Head(buf[s]) > Heartbeat)
      BY <1>5, <3>2 DEF PollNext, TypeOK
    <3> QED
      BY <3>1, <3>2
  <2> QED
    BY <1>5, <2>3, <2>4 DEF PollNext, TypeOK
<1>6. CASE DropStream(s) \/ EndOfStream(s)
  BY <1>6 DEF DropStream, EndOfStream, BeginDrop, TypeOK
<1>7. CASE DropReceiver(s)
  <2>1. buf' = [buf EXCEPT ![s] = <<>>]
    BY <1>7 DEF DropReceiver
  <2>2. buf' \in [Uuid -> Seq(Message)] /\ \A x \in Uuid : Len(buf'[x]) <= SubscriberBufferSize
    BY <2>1, CapacityAssumption DEF TypeOK
  <2> QED
    BY <1>7, <2>2 DEF DropReceiver, TypeOK
<1>8. CASE CloseTask(s)
  <2>1. req[s].kind \in Kinds
    BY <1>8 DEF CloseTask, DeliveryInv, RejectedInv, AcceptedInv, TypeOK, Request
  <2>2. [kind |-> req[s].kind, uuid |-> s] \in ClosedEvent
    BY <2>1 DEF ClosedEvent
  <2>3. closed' \in Seq(ClosedEvent)
    BY <1>8, <2>2 DEF CloseTask, TypeOK
  <2> QED
    BY <1>8, <2>3 DEF CloseTask, TypeOK
<1>9. CASE AbortTask(s)
  BY <1>9 DEF AbortTask, TypeOK
<1>10. CASE Unauthenticated(s)
  BY <1>1, <1>10 DEF Unauthenticated
<1> QED
  BY <1>3, <1>4, <1>5, <1>6, <1>7, <1>8, <1>9, <1>10 DEF Client

(* What the validator, the plugin and the server do keeps all types. *)
LEMMA UpstreamType == TypeOK /\ Upstream => TypeOK'
<1> SUFFICES ASSUME TypeOK, Upstream PROVE TypeOK'
  OBVIOUS
<1>1. CASE New
  <2>1. svc' \in BOOLEAN /\ connected' \in BOOLEAN
    BY <1>1, Zenon DEF New
  <2> QED
    BY <1>1, <2>1 DEF New, TypeOK
<1>2. ASSUME NEW slot \in Slot, FetchMax(slot) PROVE TypeOK'
  BY <1>2 DEF FetchMax, TypeOK
<1>3. ASSUME NEW n \in Notifications, Publish(n) PROVE TypeOK'
  <2>1. n \in Notification /\ n.topic \in Topics
    BY NotificationsAssumption DEF Notification
  <2>2. updates' \in Seq(Notification)
    BY <1>3, <2>1 DEF Publish, TypeOK
  <2>3. chan[n.topic] \in Seq(Nat) /\ Len(updates) + 1 \in Nat /\ Len(chan[n.topic]) < Capacity(n.topic)
    BY <1>3, <2>1 DEF Publish, Accepts, TypeOK, Capacity, Blocked
  <2>4. /\ Append(chan[n.topic], Len(updates) + 1) \in Seq(Nat)
        /\ Len(Append(chan[n.topic], Len(updates) + 1)) = Len(chan[n.topic]) + 1
    BY <2>3
  <2>5. chan' \in [Topics -> Seq(Nat)] /\ \A t \in Topics : Len(chan'[t]) <= Capacity(t)
    BY <1>3, <2>1, <2>3, <2>4, CapacityPositive DEF Publish, TypeOK
  <2> QED
    BY <1>3, <2>2, <2>5 DEF Publish, TypeOK
<1>4. CASE DropSenders
  <2>1. connected' \in BOOLEAN
    BY <1>4, Zenon DEF DropSenders
  <2> QED
    BY <1>4, <2>1 DEF DropSenders, TypeOK
<1>5. CASE DropService
  <2>1. svc' \in BOOLEAN
    BY <1>5, Zenon DEF DropService
  <2> QED
    BY <1>5, <2>1 DEF DropService, TypeOK
<1> QED
  BY <1>1, <1>2, <1>3, <1>4, <1>5 DEF Upstream

(* Type correctness is inductive with DeliveryInv, which gives closed events their kind. *)
LEMMA NextType == TypeOK /\ DeliveryInv /\ [Next]_vars => TypeOK'
<1>1. TypeOK /\ UNCHANGED vars => TypeOK'
  BY DEF TypeOK, vars
<1> QED
  BY <1>1, EventLoopType, ClientType, UpstreamType DEF Next

-----------------------------------------------------------------------------
(* The inductive invariant.                                                *)

(* The empty service satisfies the delivery invariant. *)
LEMMA InitDelivery == Init => DeliveryInv
<1> SUFFICES ASSUME Init PROVE DeliveryInv
  OBVIOUS
<1>1. RejectedInv /\ ClosedInv /\ ChanInv /\ BufInv /\ GotInv
  BY DEF Init, RejectedInv, ClosedInv, ChanInv, BufInv, GotInv
<1>2. AcceptedInv
  BY DEF Init, AcceptedInv, Rejected
<1>3. LiveInv
  BY DEF Init, LiveInv
<1> QED
  BY <1>1, <1>2, <1>3 DEF DeliveryInv

(* The order of updates concerns the log, the channels, the buffers and    *)
(* the requests only.                                                      *)
LEMMA OrderFrame ==
    ASSUME ChanInv, BufInv, GotInv, UNCHANGED <<updates, chan, req, buf, got>>
    PROVE  ChanInv' /\ BufInv' /\ GotInv'
  BY DEF ChanInv, BufInv, GotInv, BeforeChan

(* A new update is later than everything channels, buffers and clients hold. *)
LEMMA UpstreamDelivery == TypeOK /\ DeliveryInv /\ Upstream => DeliveryInv'
<1> SUFFICES ASSUME TypeOK, DeliveryInv, Upstream PROVE DeliveryInv'
  OBVIOUS
<1> USE DEF DeliveryInv
<1>1. RejectedInv' /\ AcceptedInv' /\ ClosedInv'
  BY DEF Upstream, New, FetchMax, Publish, DropSenders, DropService,
         RejectedInv, AcceptedInv, ClosedInv
<1>2. LiveInv'
  <2>1. CASE New
    BY <2>1 DEF New, LiveInv
  <2>2. CASE ~New
    BY <2>2 DEF Upstream, FetchMax, Publish, DropSenders, DropService, LiveInv, Registered
  <2> QED
    BY <2>1, <2>2
<1>3. ASSUME NEW n \in Notifications, Publish(n) PROVE ChanInv' /\ BufInv' /\ GotInv'
  <2>1. n \in Notification /\ n.topic \in Topics
    BY NotificationsAssumption DEF Notification
  <2>2. /\ updates \in Seq(Notification)
        /\ updates' = Append(updates, n)
        /\ chan \in [Topics -> Seq(Nat)]
        /\ chan' = [chan EXCEPT ![n.topic] = Append(chan[n.topic], Len(updates) + 1)]
        /\ UNCHANGED <<req, buf, got>>
    BY <1>3 DEF Publish, TypeOK
  <2>3. /\ Len(updates) \in Nat
        /\ Len(updates') = Len(updates) + 1
        /\ updates'[Len(updates) + 1] = n
        /\ \A i \in 1..Len(updates) : updates'[i] = updates[i]
    BY <2>2
  <2>4. \A t \in Topics : /\ Len(chan[t]) \in Nat
                          /\ \A i \in 1..Len(chan[t]) : chan[t][i] \in Nat
    BY <2>2
  <2>5. ASSUME NEW t \in Topics
        PROVE  \/ chan'[t] = chan[t]
               \/ /\ t = n.topic
                  /\ Len(chan'[t]) = Len(chan[t]) + 1
                  /\ chan'[t][Len(chan[t]) + 1] = Len(updates) + 1
                  /\ \A i \in 1..Len(chan[t]) : chan'[t][i] = chan[t][i]
    BY <2>1, <2>2, <2>4
  <2>6. ChanInv'
    <3> SUFFICES ASSUME NEW t \in Topics
                 PROVE  /\ \A i \in 1..Len(chan'[t]) :
                             chan'[t][i] \in 1..Len(updates') /\ updates'[chan'[t][i]].topic = t
                        /\ \A i, j \in 1..Len(chan'[t]) : i < j => chan'[t][i] < chan'[t][j]
      BY Zenon DEF ChanInv
    <3>1. /\ \A i \in 1..Len(chan[t]) :
               chan[t][i] \in 1..Len(updates) /\ updates[chan[t][i]].topic = t
          /\ \A i, j \in 1..Len(chan[t]) : i < j => chan[t][i] < chan[t][j]
      BY DEF ChanInv
    <3>2. CASE chan'[t] = chan[t]
      BY <2>3, <3>1, <3>2
    <3>3. CASE ~(chan'[t] = chan[t])
      <4> DEFINE L == Len(chan[t])
      <4>1. /\ t = n.topic
            /\ Len(chan'[t]) = L + 1
            /\ chan'[t][L + 1] = Len(updates) + 1
            /\ \A i \in 1..L : chan'[t][i] = chan[t][i]
        BY <2>5, <3>3
      <4>2. L \in Nat
        BY <2>4
      <4>3. \A i \in 1..Len(chan'[t]) : i \in 1..L \/ i = L + 1
        BY <4>1, <4>2
      <4> HIDE DEF L
      <4>4. \A i \in 1..L : /\ chan'[t][i] \in 1..Len(updates)
                            /\ updates'[chan'[t][i]].topic = t
        <5> SUFFICES ASSUME NEW i \in 1..L
                     PROVE  chan'[t][i] \in 1..Len(updates) /\ updates'[chan'[t][i]].topic = t
          OBVIOUS
        <5>1. chan[t][i] \in 1..Len(updates) /\ updates[chan[t][i]].topic = t
          BY <3>1 DEF L
        <5>2. chan'[t][i] = chan[t][i]
          BY <4>1
        <5>3. updates'[chan[t][i]] = updates[chan[t][i]]
          BY <2>3, <5>1
        <5> QED
          BY <5>1, <5>2, <5>3
      <4>5. \A i, j \in 1..L : i < j => chan'[t][i] < chan'[t][j]
        BY <3>1, <4>1 DEF L
      <4>6. /\ Len(updates') = Len(updates) + 1 /\ Len(updates) \in Nat
            /\ updates'[Len(updates) + 1].topic = t
        BY <2>3, <4>1
      <4>7. ASSUME NEW i \in 1..Len(chan'[t])
            PROVE  chan'[t][i] \in 1..Len(updates') /\ updates'[chan'[t][i]].topic = t
        <5>1. CASE i \in 1..L
          BY <4>4, <4>6, <5>1
        <5>2. CASE i = L + 1
          BY <4>1, <4>6, <5>2
        <5> QED
          BY <4>3, <5>1, <5>2
      <4>8. ASSUME NEW i \in 1..Len(chan'[t]), NEW j \in 1..Len(chan'[t]), i < j
            PROVE  chan'[t][i] < chan'[t][j]
        <5>1. i \in 1..L
          BY <4>1, <4>2, <4>8
        <5>2. CASE j \in 1..L
          BY <4>5, <4>8, <5>1, <5>2
        <5>3. CASE j = L + 1
          BY <4>1, <4>4, <4>6, <5>1, <5>3
        <5> QED
          BY <4>3, <5>2, <5>3
      <4> QED
        BY <4>7, <4>8
    <3> QED
      BY <3>2, <3>3
  <2>7. ASSUME NEW s \in Uuid, NEW i \in 1..Len(updates), BeforeChan(s, i) PROVE BeforeChan(s, i)'
    <3> SUFFICES ASSUME NEW t \in Topics, t = TopicOf(req[s].kind), NEW j \in 1..Len(chan'[t])
                 PROVE  i < chan'[t][j]
      BY <2>2 DEF BeforeChan
    <3>1. \A k \in 1..Len(chan[t]) : i < chan[t][k]
      BY <2>7 DEF BeforeChan
    <3>2. Len(chan[t]) \in Nat
      BY <2>4
    <3>3. CASE chan'[t] = chan[t]
      BY <3>1, <3>3
    <3>4. CASE ~(chan'[t] = chan[t])
      <4>1. /\ Len(chan'[t]) = Len(chan[t]) + 1
            /\ chan'[t][Len(chan[t]) + 1] = Len(updates) + 1
            /\ \A k \in 1..Len(chan[t]) : chan'[t][k] = chan[t][k]
        BY <2>5, <3>4
      <4>2. j \in 1..Len(chan[t]) \/ j = Len(chan[t]) + 1
        BY <3>2, <4>1
      <4>3. CASE j \in 1..Len(chan[t])
        BY <3>1, <4>1, <4>3
      <4>4. CASE j = Len(chan[t]) + 1
        <5>1. Len(updates) \in Nat /\ i < Len(updates) + 1
          BY <2>3
        <5> QED
          BY <4>1, <4>4, <5>1
      <4> QED
        BY <4>2, <4>3, <4>4
    <3> QED
      BY <3>3, <3>4
  <2>8. GotInv'
    <3> SUFFICES ASSUME NEW s \in Uuid, NEW i \in 1..Len(got[s])
                 PROVE  got[s][i] \in 1..Len(updates') /\ BeforeChan(s, got[s][i])'
      BY <2>2 DEF GotInv
    <3>1. got[s][i] \in 1..Len(updates) /\ BeforeChan(s, got[s][i])
      BY DEF GotInv
    <3>2. BeforeChan(s, got[s][i])'
      BY <2>7, <3>1, <2>2 DEF BeforeChan
    <3> QED
      BY <2>3, <3>1, <3>2
  <2>9. BufInv'
    <3>1. ASSUME NEW s \in Uuid, NEW i \in 1..Len(buf[s]), buf[s][i] > Heartbeat
          PROVE  /\ buf[s][i] \in 1..Len(updates')
                 /\ Wants(req[s], updates'[buf[s][i]])
                 /\ BeforeChan(s, buf[s][i])'
                 /\ \A j \in 1..Len(got[s]) : got[s][j] < buf[s][i]
      <4>1. /\ buf[s][i] \in 1..Len(updates)
            /\ Wants(req[s], updates[buf[s][i]])
            /\ BeforeChan(s, buf[s][i])
            /\ \A j \in 1..Len(got[s]) : got[s][j] < buf[s][i]
        BY <3>1 DEF BufInv
      <4>2. buf[s][i] \in 1..Len(updates') /\ updates'[buf[s][i]] = updates[buf[s][i]]
        BY <2>3, <4>1
      <4>3. BeforeChan(s, buf[s][i])'
        BY <2>2, <2>7, <4>1 DEF BeforeChan
      <4> QED
        BY <4>1, <4>2, <4>3
    <3>2. \A s \in Uuid : \A i, j \in 1..Len(buf[s]) :
            i < j /\ buf[s][i] > Heartbeat /\ buf[s][j] > Heartbeat => buf[s][i] < buf[s][j]
      BY DEF BufInv
    <3> QED
      BY <2>2, <3>1, <3>2 DEF BufInv
  <2> QED
    BY <2>6, <2>8, <2>9
<1>4. ASSUME ~\E n \in Notifications : Publish(n) PROVE ChanInv' /\ BufInv' /\ GotInv'
  <2>1. UNCHANGED <<updates, chan, req, buf, got>>
    BY <1>4 DEF Upstream, New, FetchMax, DropSenders, DropService
  <2> QED
    BY <2>1, OrderFrame
<1> QED
  BY <1>1, <1>2, <1>3, <1>4

(* A refused call leaves no trace. *)
LEMMA FailDelivery ==
    ASSUME NEW s \in Uuid, NEW status \in {"unauthenticated", "invalid_argument", "internal"},
           TypeOK, DeliveryInv, svc, stream[s] = "idle", Fail(s, status)
    PROVE  DeliveryInv'
<1> USE DEF DeliveryInv
<1>1. RejectedInv' /\ AcceptedInv' /\ ClosedInv'
  BY DEF Fail, RejectedInv, AcceptedInv, ClosedInv, Rejected, TypeOK
<1>2. LiveInv'
  BY DEF Fail, LiveInv, Registered, TypeOK
<1>3. ChanInv' /\ BufInv' /\ GotInv'
  BY OrderFrame DEF Fail
<1> QED
  BY <1>1, <1>2, <1>3

(* An accepted request is new to the channels and buffers: they hold       *)
(* nothing of s yet.                                                       *)
LEMMA AddDelivery ==
    ASSUME NEW s \in Uuid, NEW r \in Requests, TypeOK, DeliveryInv,
           svc, stream[s] = "idle", AddSubscription(s, r)
    PROVE  DeliveryInv'
<1> USE DEF DeliveryInv
<1>1. CASE Fail(s, "internal")
  BY <1>1, FailDelivery
<1>2. CASE ~Fail(s, "internal")
  <2>1. /\ loop = "running"
        /\ added' = Append(added, s)
        /\ req' = [req EXCEPT ![s] = r]
        /\ stream' = [stream EXCEPT ![s] = "requested"]
        /\ UNCHANGED <<updates, chan, svc, loop, closed, subs, task, buf, got>>
    BY <1>2 DEF AddSubscription
  <2>2. r \in Request
    BY RequestsAssumption
  <2>3. buf[s] = <<>> /\ got[s] = <<>> /\ task[s] = "none"
    BY DEF RejectedInv, Rejected
  <2>4. /\ Len(added') = Len(added) + 1
        /\ added'[Len(added) + 1] = s
        /\ Len(added) \in Nat
        /\ \A i \in 1..Len(added) : added'[i] = added[i]
    BY <2>1 DEF TypeOK
  <2>5. RejectedInv'
    BY <2>1 DEF RejectedInv, Rejected, TypeOK
  <2>6. AcceptedInv'
    <3>1. \A x \in Uuid : stream'[x] \notin Rejected => req'[x] \in Request
      BY <2>1, <2>2 DEF AcceptedInv, TypeOK
    <3>2. \A x \in Uuid : stream[x] \notin Rejected => stream'[x] \notin Rejected /\ req'[x] = req[x]
      BY <2>1 DEF TypeOK, Rejected
    <3>3. \A i \in 1..Len(added') : stream'[added'[i]] \notin Rejected
      <4>1. stream'[s] \notin Rejected
        BY <2>1 DEF TypeOK, Rejected
      <4>2. \A i \in 1..Len(added) : added[i] \in Uuid
        BY DEF TypeOK
      <4>3. \A i \in 1..Len(added') : i \in 1..Len(added) \/ i = Len(added) + 1
        BY <2>4
      <4> QED
        BY <2>4, <3>2, <4>1, <4>2, <4>3 DEF AcceptedInv
    <3>4. \A k \in Kinds : \A x \in subs[k] : stream'[x] \notin Rejected /\ req'[x].kind = k
      BY <3>2 DEF AcceptedInv, TypeOK
    <3> QED
      BY <2>1, <3>1, <3>3, <3>4 DEF AcceptedInv
  <2>7. ClosedInv'
    BY <2>1 DEF ClosedInv, TypeOK
  <2>8. LiveInv'
    <3> SUFFICES ASSUME NEW x \in Uuid, stream'[x] \in {"requested", "open"}
                 PROVE  Registered(x)'
      BY <2>1 DEF LiveInv
    <3>1. CASE x = s
      BY <2>4, <3>1 DEF Registered
    <3>2. CASE x # s
      <4>1. Registered(x)
        BY <2>1, <3>2 DEF LiveInv, TypeOK
      <4> QED
        BY <2>1, <2>4, <4>1 DEF Registered
    <3> QED
      BY <3>1, <3>2
  <2>9. ChanInv'
    BY <2>1 DEF ChanInv
  <2>10. ASSUME NEW x \in Uuid, x # s
         PROVE  /\ req'[x] = req[x] /\ buf'[x] = buf[x] /\ got'[x] = got[x]
                /\ \A i : BeforeChan(x, i) => BeforeChan(x, i)'
    BY <2>1, <2>10 DEF BeforeChan, TypeOK
  <2>11. BufInv'
    BY <2>1, <2>3, <2>10 DEF BufInv
  <2>12. GotInv'
    BY <2>1, <2>3, <2>10 DEF GotInv
  <2> QED
    BY <2>5, <2>6, <2>7, <2>8, <2>9, <2>11, <2>12
<1> QED
  BY <1>1, <1>2

(* The first half of an RPC: rejected without a trace, or handed to the loop. *)
LEMMA SubscribeDelivery ==
    ASSUME NEW s \in Uuid, NEW r \in Requests, TypeOK, DeliveryInv, Subscribe(s, r)
    PROVE  DeliveryInv'
<1>1. svc /\ stream[s] = "idle"
  BY DEF Subscribe, SubscribeAccountUpdates, SubscribeProgramUpdates,
         SubscribePartialAccountUpdates, SubscribeSlotUpdates, SubscribeSlotEntryUpdates,
         SubscribeTransactionUpdates, SubscribeBlockUpdates, Calls
<1>2. CASE AddSubscription(s, r)
  BY <1>1, <1>2, AddDelivery
<1>3. CASE Fail(s, "invalid_argument")
  BY <1>1, <1>3, FailDelivery
<1> QED
  BY <1>2, <1>3
  DEF Subscribe, SubscribeAccountUpdates, SubscribeProgramUpdates,
      SubscribePartialAccountUpdates, SubscribeSlotUpdates, SubscribeSlotEntryUpdates,
      SubscribeTransactionUpdates, SubscribeBlockUpdates

(* tonic takes the oldest message of the buffer: it precedes the rest of   *)
(* the buffer, which precedes the channel.                                 *)
LEMMA PollDelivery ==
    ASSUME NEW s \in Uuid, TypeOK, DeliveryInv, PollNext(s)
    PROVE  DeliveryInv'
<1> USE DEF DeliveryInv
<1> DEFINE m == Head(buf[s])
<1>1. /\ stream[s] = "open"
      /\ buf[s] \in Seq(Message) /\ buf[s] # <<>>
      /\ buf' = [buf EXCEPT ![s] = Tail(buf[s])]
      /\ got' = IF m > Heartbeat THEN [got EXCEPT ![s] = Append(got[s], m)] ELSE got
      /\ UNCHANGED <<updates, chan, svc, loop, added, closed, subs, req, stream, task>>
  BY DEF PollNext, TypeOK
<1>2. /\ Len(buf'[s]) = Len(buf[s]) - 1
      /\ Len(buf[s]) \in Nat \ {0}
      /\ m = buf[s][1]
      /\ \A i \in 1..Len(buf'[s]) : buf'[s][i] = buf[s][i + 1]
  <2>1. buf'[s] = Tail(buf[s])
    BY <1>1 DEF TypeOK
  <2>2. Len(buf[s]) \in Nat \ {0} /\ Len(Tail(buf[s])) = Len(buf[s]) - 1 /\ m = buf[s][1]
    BY <1>1
  <2>3. \A i \in 1..(Len(buf[s]) - 1) : Tail(buf[s])[i] = buf[s][i + 1]
    BY <1>1
  <2> QED
    BY <2>1, <2>2, <2>3
<1>3. \A i \in 1..Len(buf[s]) : buf[s][i] \in Int
  BY <1>1 DEF Message, Heartbeat, BrokenConnection
<1>4. RejectedInv'
  BY <1>1 DEF RejectedInv, Rejected, TypeOK
<1>5. AcceptedInv' /\ ClosedInv' /\ ChanInv'
  BY <1>1 DEF AcceptedInv, ClosedInv, ChanInv
<1>6. LiveInv'
  BY <1>1 DEF LiveInv, Registered
<1>7. \A x \in Uuid : \A i : BeforeChan(x, i) => BeforeChan(x, i)'
  BY <1>1 DEF BeforeChan
<1>8. \A x \in Uuid : x # s => buf'[x] = buf[x] /\ got'[x] = got[x]
  BY <1>1 DEF TypeOK
<1>9. \/ m > Heartbeat /\ got'[s] = Append(got[s], m)
      \/ got'[s] = got[s]
  BY <1>1 DEF TypeOK
<1>10. got[s] \in Seq(Nat)
  BY DEF TypeOK
<1>11. m > Heartbeat =>
         /\ m \in 1..Len(updates)
         /\ BeforeChan(s, m)
         /\ \A j \in 1..Len(got[s]) : got[s][j] < m
         /\ \A i \in 1..Len(buf'[s]) : buf'[s][i] > Heartbeat => m < buf'[s][i]
  <2>1. 1 \in 1..Len(buf[s]) /\ \A i \in 1..Len(buf'[s]) : i + 1 \in 1..Len(buf[s]) /\ 1 < i + 1
    BY <1>2
  <2> QED
    BY <1>2, <2>1 DEF BufInv
<1> HIDE DEF m
<1>12. ASSUME NEW j \in 1..Len(got'[s])
       PROVE  \/ j \in 1..Len(got[s]) /\ got'[s][j] = got[s][j]
              \/ m > Heartbeat /\ got'[s][j] = m
  <2>1. CASE got'[s] = got[s]
    BY <1>12, <2>1
  <2>2. CASE m > Heartbeat /\ got'[s] = Append(got[s], m)
    <3>1. /\ Len(got[s]) \in Nat /\ Len(Append(got[s], m)) = Len(got[s]) + 1
          /\ Append(got[s], m)[Len(got[s]) + 1] = m
          /\ \A i \in 1..Len(got[s]) : Append(got[s], m)[i] = got[s][i]
      BY <1>10
    <3>2. j \in 1..Len(got[s]) \/ j = Len(got[s]) + 1
      BY <1>12, <2>2, <3>1
    <3> QED
      BY <2>2, <3>1, <3>2
  <2> QED
    BY <1>9, <2>1, <2>2
<1>13. GotInv'
  <2>1. ASSUME NEW j \in 1..Len(got'[s]) PROVE got'[s][j] \in 1..Len(updates) /\ BeforeChan(s, got'[s][j])
    BY <1>11, <1>12 DEF GotInv
  <2> QED
    BY <1>1, <1>7, <1>8, <2>1 DEF GotInv
<1>14. BufInv'
  <2>1. ASSUME NEW i \in 1..Len(buf'[s]), buf'[s][i] > Heartbeat
        PROVE  /\ buf'[s][i] \in 1..Len(updates)
               /\ Wants(req[s], updates[buf'[s][i]])
               /\ BeforeChan(s, buf'[s][i])
               /\ \A j \in 1..Len(got'[s]) : got'[s][j] < buf'[s][i]
    <3>1. i + 1 \in 1..Len(buf[s]) /\ buf'[s][i] = buf[s][i + 1]
      BY <1>2
    <3>2. \A j \in 1..Len(got[s]) : got[s][j] < buf'[s][i]
      BY <2>1, <3>1 DEF BufInv
    <3> QED
      BY <1>11, <1>12, <2>1, <3>1, <3>2 DEF BufInv
  <2>2. ASSUME NEW i \in 1..Len(buf'[s]), NEW j \in 1..Len(buf'[s]), i < j,
               buf'[s][i] > Heartbeat, buf'[s][j] > Heartbeat
        PROVE  buf'[s][i] < buf'[s][j]
    <3>1. i + 1 \in 1..Len(buf[s]) /\ buf'[s][i] = buf[s][i + 1]
      BY <1>2
    <3>2. j + 1 \in 1..Len(buf[s]) /\ buf'[s][j] = buf[s][j + 1]
      BY <1>2
    <3>3. i + 1 < j + 1
      BY <2>2
    <3> QED
      BY <2>2, <3>1, <3>2, <3>3 DEF BufInv
  <2>3. UNCHANGED <<updates, req, chan>>
    BY <1>1
  <2> SUFFICES ASSUME NEW x \in Uuid
               PROVE  /\ \A i \in 1..Len(buf'[x]) : buf'[x][i] > Heartbeat =>
                            /\ buf'[x][i] \in 1..Len(updates)
                            /\ Wants(req[x], updates[buf'[x][i]])
                            /\ BeforeChan(x, buf'[x][i])
                            /\ \A j \in 1..Len(got'[x]) : got'[x][j] < buf'[x][i]
                      /\ \A i, j \in 1..Len(buf'[x]) :
                            i < j /\ buf'[x][i] > Heartbeat /\ buf'[x][j] > Heartbeat
                                => buf'[x][i] < buf'[x][j]
    BY <2>3 DEF BufInv, BeforeChan
  <2>4. CASE x = s
    BY <2>1, <2>2, <2>4
  <2>5. CASE x # s
    BY <1>8, <2>5 DEF BufInv
  <2> QED
    BY <2>4, <2>5
<1> QED
  BY <1>4, <1>5, <1>6, <1>13, <1>14

(* RPCs, polls, drops and close tasks keep what was sent before what is buffered. *)
LEMMA ClientDelivery ==
    ASSUME NEW s \in Uuid, TypeOK, DeliveryInv, Client(s)
    PROVE  DeliveryInv'
<1> USE DEF DeliveryInv
<1>1. ASSUME NEW r \in Requests, Subscribe(s, r) PROVE DeliveryInv'
  BY <1>1, SubscribeDelivery
<1>2. CASE PollNext(s)
  BY <1>2, PollDelivery
<1>3. CASE Respond(s)
  <2>1. RejectedInv' /\ AcceptedInv' /\ ClosedInv'
    BY <1>3 DEF Respond, RejectedInv, AcceptedInv, ClosedInv, Rejected, TypeOK
  <2>2. LiveInv'
    BY <1>3 DEF Respond, LiveInv, Registered, TypeOK
  <2>3. ChanInv' /\ BufInv' /\ GotInv'
    BY <1>3, OrderFrame DEF Respond
  <2> QED
    BY <2>1, <2>2, <2>3
<1>4. CASE DropStream(s) \/ EndOfStream(s)
  <2>1. stream[s] = "open" /\ BeginDrop(s)
    BY <1>4 DEF DropStream, EndOfStream
  <2>2. RejectedInv' /\ AcceptedInv' /\ ClosedInv'
    BY <2>1 DEF BeginDrop, RejectedInv, AcceptedInv, ClosedInv, Rejected, TypeOK
  <2>3. LiveInv'
    BY <2>1 DEF BeginDrop, LiveInv, Registered, TypeOK
  <2>4. ChanInv' /\ BufInv' /\ GotInv'
    BY <2>1, OrderFrame DEF BeginDrop
  <2> QED
    BY <2>2, <2>3, <2>4
<1>5. CASE DropReceiver(s)
  <2>1. /\ stream[s] = "dropping"
        /\ stream' = [stream EXCEPT ![s] = "gone"]
        /\ buf' = [buf EXCEPT ![s] = <<>>]
        /\ UNCHANGED <<updates, chan, svc, loop, added, closed, subs, req, task, got>>
    BY <1>5 DEF DropReceiver
  <2>2. RejectedInv' /\ AcceptedInv' /\ ClosedInv'
    <3>1. RejectedInv'
      BY <2>1 DEF RejectedInv, Rejected, TypeOK
    <3>2. AcceptedInv'
      BY <2>1 DEF AcceptedInv, Rejected, TypeOK
    <3>3. ClosedInv'
      BY <2>1 DEF ClosedInv, TypeOK
    <3> QED
      BY <3>1, <3>2, <3>3
  <2>3. LiveInv'
    BY <2>1 DEF LiveInv, Registered, TypeOK
  <2>4. ChanInv' /\ GotInv'
    BY <2>1 DEF ChanInv, GotInv, BeforeChan
  <2>5. \A x \in Uuid : \A i \in 1..Len(buf'[x]) :
           i \in 1..Len(buf[x]) /\ buf'[x][i] = buf[x][i]
    <3> SUFFICES ASSUME NEW x \in Uuid
                 PROVE  \A i \in 1..Len(buf'[x]) : i \in 1..Len(buf[x]) /\ buf'[x][i] = buf[x][i]
      OBVIOUS
    <3>1. CASE x = s
      <4>1. buf'[x] = <<>>
        BY <2>1, <3>1 DEF TypeOK
      <4> QED
        BY <4>1
    <3>2. CASE x # s
      BY <2>1, <3>2 DEF TypeOK
    <3> QED
      BY <3>1, <3>2
  <2>6. \A x \in Uuid : \A i : BeforeChan(x, i) => BeforeChan(x, i)'
    BY <2>1 DEF BeforeChan
  <2>7. BufInv'
    <3>1. UNCHANGED <<updates, req, got>>
      BY <2>1
    <3> QED
      BY <2>5, <2>6, <3>1 DEF BufInv
  <2> QED
    BY <2>2, <2>3, <2>4, <2>7
<1>6. CASE CloseTask(s)
  <2>1. /\ task[s] = "signalled"
        /\ task' = [task EXCEPT ![s] = "done"]
        /\ UNCHANGED <<updates, chan, svc, loop, added, subs, req, stream, buf, got>>
    BY <1>6 DEF CloseTask
  <2>2. RejectedInv' /\ AcceptedInv'
    BY <2>1 DEF RejectedInv, AcceptedInv, Rejected, TypeOK
  <2>3. ClosedInv'
    <3>1. stream[s] \in {"dropping", "gone"}
      BY <2>1 DEF ClosedInv
    <3>2. \A x \in Uuid : task'[x] \in {"signalled", "done"} => stream'[x] \in {"dropping", "gone"}
      BY <2>1, <3>1 DEF ClosedInv, TypeOK
    <3>3. closed \in Seq(ClosedEvent)
      BY DEF TypeOK
    <3>4. \/ closed' = closed
          \/ closed' = Append(closed, [kind |-> req[s].kind, uuid |-> s])
      BY <1>6 DEF CloseTask
    <3>5. ASSUME NEW i \in 1..Len(closed') PROVE stream[closed'[i].uuid] \in {"dropping", "gone"}
      <4>1. CASE closed' = closed
        BY <4>1 DEF ClosedInv
      <4>2. CASE closed' = Append(closed, [kind |-> req[s].kind, uuid |-> s])
        <5>1. \/ i \in 1..Len(closed) /\ closed'[i] = closed[i]
              \/ closed'[i] = [kind |-> req[s].kind, uuid |-> s]
          BY <3>3, <4>2
        <5> QED
          BY <3>1, <5>1 DEF ClosedInv
      <4> QED
        BY <3>4, <4>1, <4>2
    <3> QED
      BY <2>1, <3>2, <3>5 DEF ClosedInv
  <2>4. LiveInv'
    BY <2>1 DEF LiveInv, Registered
  <2>5. ChanInv' /\ BufInv' /\ GotInv'
    BY <2>1, OrderFrame
  <2> QED
    BY <2>2, <2>3, <2>4, <2>5
<1>7. CASE AbortTask(s)
  <2>1. RejectedInv' /\ AcceptedInv' /\ ClosedInv'
    BY <1>7 DEF AbortTask, RejectedInv, AcceptedInv, ClosedInv, Rejected, TypeOK
  <2>2. LiveInv'
    BY <1>7 DEF AbortTask, LiveInv, Registered
  <2>3. ChanInv' /\ BufInv' /\ GotInv'
    BY <1>7, OrderFrame DEF AbortTask
  <2> QED
    BY <2>1, <2>2, <2>3
<1>8. CASE Unauthenticated(s)
  BY <1>8, FailDelivery DEF Unauthenticated
<1> QED
  BY <1>1, <1>2, <1>3, <1>4, <1>5, <1>6, <1>7, <1>8 DEF Client

-----------------------------------------------------------------------------
(* The event loop.                                                         *)

(* Sending removes only subscriptions whose receiver is gone. *)
LEMMA SendLive ==
    ASSUME TypeOK, DeliveryInv, NEW m, NEW targets \in SUBSET Uuid, NEW kinds,
           SendAndDrop(m, targets, kinds),
           \A s \in targets : stream[s] \notin Rejected,
           UNCHANGED <<svc, loop, added, closed, req, stream, task, got>>
    PROVE  RejectedInv' /\ AcceptedInv' /\ ClosedInv' /\ LiveInv'
<1> USE DEF DeliveryInv
<1>1. /\ \A s \in Uuid : buf'[s] = buf[s] \/ s \in targets
      /\ \A k \in Kinds : subs'[k] \subseteq subs[k]
      /\ \A k \in Kinds : \A s \in subs[k] : stream[s] # "gone" => s \in subs'[k]
  BY SendEffect
<1>2. RejectedInv'
  BY <1>1 DEF RejectedInv
<1>3. AcceptedInv' /\ ClosedInv'
  BY <1>1 DEF AcceptedInv, ClosedInv
<1>4. LiveInv'
  BY <1>1 DEF LiveInv, Registered
<1> QED
  BY <1>2, <1>3, <1>4

(* A heartbeat disturbs no update and drops only subscriptions that are gone. *)
LEMMA HeartbeatDelivery == ASSUME TypeOK, DeliveryInv, SendHeartbeats PROVE DeliveryInv'
<1> USE DEF DeliveryInv
<1>1. /\ SendAndDrop(Heartbeat, subs["partial"], {"partial"})
      /\ UNCHANGED <<updates, chan, svc, loop, added, closed, req, stream, task, got>>
  BY DEF SendHeartbeats
<1>2. /\ "partial" \in Kinds
      /\ subs["partial"] \in SUBSET Uuid
      /\ \A s \in subs["partial"] : stream[s] \notin Rejected
  BY DEF Kinds, AccountKinds, TypeOK, AcceptedInv
<1>3. RejectedInv' /\ AcceptedInv' /\ ClosedInv' /\ LiveInv'
  BY <1>1, <1>2, SendLive
<1>4. ChanInv' /\ GotInv'
  BY <1>1 DEF ChanInv, GotInv, BeforeChan
<1>5. \A s \in Uuid : buf[s] \in Seq(Message) /\
                      (buf'[s] = buf[s] \/ buf'[s] = Append(buf[s], Heartbeat))
  BY <1>1, <1>2, SendEffect DEF TypeOK
<1>6. \A s \in Uuid : \A i \in 1..Len(buf'[s]) : buf'[s][i] > Heartbeat =>
         i \in 1..Len(buf[s]) /\ buf'[s][i] = buf[s][i]
  <2> SUFFICES ASSUME NEW s \in Uuid, NEW i \in 1..Len(buf'[s]), buf'[s][i] > Heartbeat
               PROVE  i \in 1..Len(buf[s]) /\ buf'[s][i] = buf[s][i]
    OBVIOUS
  <2> QED
    BY <1>5 DEF Heartbeat
<1>7. \A x \in Uuid : \A i : BeforeChan(x, i) => BeforeChan(x, i)'
  BY <1>1 DEF BeforeChan
<1>8. BufInv'
  BY <1>1, <1>6, <1>7 DEF BufInv
<1> QED
  BY <1>3, <1>4, <1>8

(* One update taken off its channel and offered to subscriptions that want *)
(* it: it is younger than all they have, and older than what the channel   *)
(* still holds.                                                            *)
LEMMA UpdateDelivery ==
    ASSUME TypeOK, DeliveryInv, NEW t \in Topics, Receive(t),
           NEW targets \in SUBSET Uuid, NEW kinds,
           SendAndDrop(Head(chan[t]), targets, kinds),
           \A s \in targets : /\ stream[s] \notin Rejected
                              /\ TopicOf(req[s].kind) = t
                              /\ Wants(req[s], updates[Head(chan[t])])
    PROVE  DeliveryInv'
<1> USE DEF DeliveryInv
<1> DEFINE m == Head(chan[t])
           After(s, i) == \A u \in Topics : u = TopicOf(req[s].kind) =>
                             \A j \in 1..Len(chan'[u]) : i < chan'[u][j]
<1>1. /\ chan[t] \in Seq(Nat) /\ chan[t] # <<>>
      /\ chan \in [Topics -> Seq(Nat)]
      /\ chan' = [chan EXCEPT ![t] = Tail(chan[t])]
      /\ UNCHANGED <<updates, svc, loop, added, closed, req, stream, task, got>>
  BY DEF Receive, TypeOK
<1>2. RejectedInv' /\ AcceptedInv' /\ ClosedInv' /\ LiveInv'
  BY <1>1, SendLive
<1>3. /\ Len(chan[t]) \in Nat \ {0} /\ m = chan[t][1] /\ m \in Nat
      /\ Len(Tail(chan[t])) = Len(chan[t]) - 1
      /\ \A i \in 1..(Len(chan[t]) - 1) : Tail(chan[t])[i] = chan[t][i + 1]
  BY <1>1
<1>4. /\ chan'[t] = Tail(chan[t])
      /\ \A u \in Topics : u # t => chan'[u] = chan[u]
  BY <1>1
<1>5. \A i \in 1..Len(chan'[t]) : i + 1 \in 1..Len(chan[t]) /\ chan'[t][i] = chan[t][i + 1]
  BY <1>3, <1>4
<1>6. ChanInv'
  <2> SUFFICES ASSUME NEW u \in Topics
               PROVE  /\ \A i \in 1..Len(chan'[u]) :
                           chan'[u][i] \in 1..Len(updates) /\ updates[chan'[u][i]].topic = u
                      /\ \A i, j \in 1..Len(chan'[u]) : i < j => chan'[u][i] < chan'[u][j]
    BY <1>1, Zenon DEF ChanInv
  <2>1. CASE u # t
    BY <1>4, <2>1 DEF ChanInv
  <2>2. CASE u = t
    <3>1. \A i \in 1..Len(chan'[t]) :
             chan'[t][i] \in 1..Len(updates) /\ updates[chan'[t][i]].topic = t
      BY <1>5 DEF ChanInv
    <3>2. ASSUME NEW i \in 1..Len(chan'[t]), NEW j \in 1..Len(chan'[t]), i < j
          PROVE  chan'[t][i] < chan'[t][j]
      <4>1. i + 1 < j + 1
        BY <3>2, <1>3, <1>4
      <4> QED
        BY <1>5, <4>1 DEF ChanInv
    <3> QED
      BY <2>2, <3>1, <3>2
  <2> QED
    BY <2>1, <2>2
<1>7. /\ m \in 1..Len(updates)
      /\ \A i \in 1..Len(chan'[t]) : m < chan'[t][i]
  <2>1. 1 \in 1..Len(chan[t]) /\ \A i \in 1..Len(chan'[t]) : 1 < i + 1
    BY <1>3, <1>4
  <2> QED
    BY <1>3, <1>5, <2>1 DEF ChanInv
<1>8. \A x \in Uuid : \A i : BeforeChan(x, i) => After(x, i)
  <2> SUFFICES ASSUME NEW x \in Uuid, NEW k, BeforeChan(x, k) PROVE After(x, k)
    OBVIOUS
  <2>1. CASE TopicOf(req[x].kind) = t
    BY <1>5, <2>1 DEF BeforeChan
  <2>2. CASE TopicOf(req[x].kind) # t
    BY <1>4, <2>2 DEF BeforeChan
  <2> QED
    BY <2>1, <2>2
<1>9. GotInv'
  BY <1>1, <1>8 DEF GotInv, BeforeChan
<1>10. ASSUME NEW s \in targets
       PROVE  /\ After(s, m)
              /\ \A i \in 1..Len(got[s]) : got[s][i] < m
              /\ \A i \in 1..Len(buf[s]) : buf[s][i] > Heartbeat => buf[s][i] < m
  <2>1. TopicOf(req[s].kind) = t
    OBVIOUS
  <2>2. After(s, m)
    BY <1>7, <2>1
  <2>3. \A i : BeforeChan(s, i) => i < m
    BY <1>3, <2>1 DEF BeforeChan
  <2> QED
    BY <2>2, <2>3 DEF GotInv, BufInv
<1>11. SendAndDrop(m, targets, kinds)
  OBVIOUS
<1> HIDE DEF m, After
<1>12. \A s \in Uuid : \/ buf'[s] = buf[s]
                       \/ s \in targets /\ buf'[s] = Append(buf[s], m)
  BY <1>11, SendEffect
<1>13. ASSUME NEW s \in Uuid
       PROVE  /\ Len(buf[s]) \in Nat
              /\ \A i \in 1..Len(buf'[s]) :
                   \/ i \in 1..Len(buf[s]) /\ buf'[s][i] = buf[s][i]
                   \/ s \in targets /\ i = Len(buf[s]) + 1 /\ buf'[s][i] = m
  <2>1. buf[s] \in Seq(Message)
    BY DEF TypeOK
  <2> QED
    BY <1>12, <2>1
<1>14. BufInv'
  <2>1. ASSUME NEW s \in Uuid, NEW i \in 1..Len(buf'[s]), buf'[s][i] > Heartbeat
        PROVE  /\ buf'[s][i] \in 1..Len(updates)
               /\ Wants(req[s], updates[buf'[s][i]])
               /\ After(s, buf'[s][i])
               /\ \A j \in 1..Len(got[s]) : got[s][j] < buf'[s][i]
    <3>1. CASE i \in 1..Len(buf[s]) /\ buf'[s][i] = buf[s][i]
      BY <1>8, <2>1, <3>1 DEF BufInv
    <3>2. CASE s \in targets /\ buf'[s][i] = m
      BY <1>7, <1>10, <3>2 DEF m, Heartbeat
    <3> QED
      BY <1>13, <3>1, <3>2
  <2>2. ASSUME NEW s \in Uuid, NEW i \in 1..Len(buf'[s]), NEW j \in 1..Len(buf'[s]), i < j,
               buf'[s][i] > Heartbeat, buf'[s][j] > Heartbeat
        PROVE  buf'[s][i] < buf'[s][j]
    <3>1. i \in 1..Len(buf[s]) /\ buf'[s][i] = buf[s][i]
      <4>1. CASE i = Len(buf[s]) + 1
        BY <1>13, <2>2, <4>1
      <4> QED
        BY <1>13, <4>1
    <3>2. CASE j \in 1..Len(buf[s]) /\ buf'[s][j] = buf[s][j]
      BY <2>2, <3>1, <3>2 DEF BufInv
    <3>3. CASE s \in targets /\ buf'[s][j] = m
      BY <1>10, <2>2, <3>1, <3>3
    <3> QED
      BY <1>13, <3>2, <3>3
  <2> QED
    BY <1>1, <2>1, <2>2 DEF BufInv, BeforeChan, After
<1> QED
  BY <1>2, <1>6, <1>9, <1>14

(* Every iteration of event_loop keeps buffers ordered and live streams registered. *)
LEMMA EventLoopDelivery == TypeOK /\ DeliveryInv /\ EventLoop => DeliveryInv'
<1> SUFFICES ASSUME TypeOK, DeliveryInv, EventLoop PROVE DeliveryInv'
  OBVIOUS
<1>1. CASE SendHeartbeats
  BY <1>1, HeartbeatDelivery
<1>2. CASE HandleSubscriptionAdded
  <2> USE DEF DeliveryInv
  <2>1. /\ added \in Seq(Uuid) /\ added # <<>>
        /\ added' = Tail(added)
        /\ subs' = [subs EXCEPT ![req[Head(added)].kind] = @ \cup {Head(added)}]
        /\ UNCHANGED <<updates, chan, svc, loop, closed, req, stream, task, buf, got>>
    BY <1>2 DEF HandleSubscriptionAdded, TypeOK
  <2>2. /\ Len(added) \in Nat \ {0} /\ Head(added) = added[1] /\ Head(added) \in Uuid
        /\ Len(Tail(added)) = Len(added) - 1
        /\ \A i \in 1..(Len(added) - 1) : Tail(added)[i] = added[i + 1]
    BY <2>1
  <2>3. \A i \in 1..Len(added') : i + 1 \in 1..Len(added) /\ added'[i] = added[i + 1]
    BY <2>1, <2>2
  <2>4. stream[Head(added)] \notin Rejected /\ req[Head(added)].kind \in Kinds
    <3>1. 1 \in 1..Len(added)
      BY <2>2
    <3>2. stream[Head(added)] \notin Rejected
      BY <2>2, <3>1 DEF AcceptedInv
    <3> QED
      BY <2>2, <3>2 DEF AcceptedInv, Request
  <2>5. /\ \A k \in Kinds : subs[k] \subseteq subs'[k]
        /\ Head(added) \in subs'[req[Head(added)].kind]
        /\ \A k \in Kinds : \A s \in subs'[k] :
             s \in subs[k] \/ (s = Head(added) /\ k = req[Head(added)].kind)
    BY <2>1, <2>4 DEF TypeOK
  <2>6. RejectedInv' /\ ClosedInv'
    BY <2>1 DEF RejectedInv, ClosedInv
  <2>7. AcceptedInv'
    BY <2>1, <2>3, <2>4, <2>5 DEF AcceptedInv
  <2>8. LiveInv'
    <3> SUFFICES ASSUME NEW s \in Uuid, Registered(s) PROVE Registered(s)'
      BY <1>2, <2>1 DEF LiveInv, HandleSubscriptionAdded
    <3>1. CASE \E k \in Kinds : s \in subs[k]
      BY <2>5, <3>1 DEF Registered
    <3>2. ASSUME NEW i \in 1..Len(added), added[i] = s PROVE Registered(s)'
      <4>1. CASE i = 1
        BY <2>2, <2>4, <2>5, <3>2, <4>1 DEF Registered
      <4>2. CASE i # 1
        <5>1. i - 1 \in 1..Len(added') /\ added'[i - 1] = added[(i - 1) + 1] /\ (i - 1) + 1 = i
          BY <2>1, <2>2, <4>2
        <5> QED
          BY <3>2, <5>1 DEF Registered
      <4> QED
        BY <4>1, <4>2
    <3> QED
      BY <3>1, <3>2 DEF Registered
  <2>9. ChanInv' /\ BufInv' /\ GotInv'
    BY <2>1, OrderFrame
  <2> QED
    BY <2>6, <2>7, <2>8, <2>9
<1>3. CASE HandleSubscriptionClosed
  <2> USE DEF DeliveryInv
  <2>1. /\ closed \in Seq(ClosedEvent) /\ closed # <<>>
        /\ closed' = Tail(closed)
        /\ subs' = [subs EXCEPT ![Head(closed).kind] = @ \ {Head(closed).uuid}]
        /\ UNCHANGED <<updates, chan, svc, loop, added, req, stream, task, buf, got>>
    BY <1>3 DEF HandleSubscriptionClosed, TypeOK
  <2>2. /\ Len(closed) \in Nat \ {0} /\ Head(closed) = closed[1]
        /\ Len(Tail(closed)) = Len(closed) - 1
        /\ \A i \in 1..(Len(closed) - 1) : Tail(closed)[i] = closed[i + 1]
    BY <2>1
  <2>3. \A i \in 1..Len(closed') : i + 1 \in 1..Len(closed) /\ closed'[i] = closed[i + 1]
    BY <2>1, <2>2
  <2>4. stream[Head(closed).uuid] \in {"dropping", "gone"}
    <3>1. 1 \in 1..Len(closed)
      BY <2>2
    <3> QED
      BY <2>2, <3>1 DEF ClosedInv
  <2>5. \A k \in Kinds : /\ subs'[k] \subseteq subs[k]
                         /\ \A s \in subs[k] : s \in subs'[k] \/ s = Head(closed).uuid
    BY <2>1 DEF TypeOK
  <2>6. RejectedInv'
    BY <2>1 DEF RejectedInv
  <2>7. AcceptedInv'
    BY <2>1, <2>5 DEF AcceptedInv
  <2>8. ClosedInv'
    BY <2>1, <2>3 DEF ClosedInv
  <2>9. LiveInv'
    BY <2>1, <2>4, <2>5 DEF LiveInv, Registered
  <2>10. ChanInv' /\ BufInv' /\ GotInv'
    BY <2>1, OrderFrame
  <2> QED
    BY <2>6, <2>7, <2>8, <2>9, <2>10
<1>4. CASE HandleAccountUpdateEvent
  <2> DEFINE u == updates[Head(chan["account"])]
             targets == AccountTargets(u) \cup ProgramTargets(u) \cup PartialTargets(u)
  <2>1. Receive("account") /\ SendAndDrop(Head(chan["account"]), targets, AccountKinds)
    BY <1>4 DEF HandleAccountUpdateEvent
  <2>2. targets \in SUBSET Uuid
    BY DEF TypeOK, AccountTargets, ProgramTargets, PartialTargets, Kinds, AccountKinds
  <2>3. "account" \in Topics
    BY DEF Topics
  <2>4. u.topic = "account"
    <3>1. 1 \in 1..Len(chan["account"]) /\ Head(chan["account"]) = chan["account"][1]
      BY <2>1, <2>3 DEF Receive, TypeOK
    <3> QED
      BY <2>3, <3>1 DEF DeliveryInv, ChanInv
  <2>5. ASSUME NEW k \in AccountKinds, NEW s \in subs[k]
        PROVE  stream[s] \notin Rejected /\ req[s].kind = k /\ TopicOf(k) = "account"
    BY DEF DeliveryInv, AcceptedInv, Kinds, TopicOf
  <2> HIDE DEF u
  <2>6. ASSUME NEW s \in targets
        PROVE  /\ stream[s] \notin Rejected
               /\ TopicOf(req[s].kind) = "account"
               /\ Wants(req[s], u)
    <3>1. CASE s \in AccountTargets(u)
      BY <2>4, <2>5, <3>1 DEF AccountTargets, AccountKinds, Kinds, Wants
    <3>2. CASE s \in ProgramTargets(u)
      BY <2>4, <2>5, <3>2 DEF ProgramTargets, AccountKinds, Kinds, Wants
    <3>3. CASE s \in PartialTargets(u)
      BY <2>4, <2>5, <3>3 DEF PartialTargets, AccountKinds, Kinds, Wants
    <3> QED
      BY <3>1, <3>2, <3>3
  <2> HIDE DEF targets
  <2> QED
    BY <2>1, <2>2, <2>3, <2>6, UpdateDelivery DEF u
<1>5. ASSUME NEW t \in {"slot", "slot_entry", "block", "transaction"}, Broadcast(t)
      PROVE  DeliveryInv'
  <2>1. /\ t \in Topics /\ t \in Kinds /\ TopicOf(t) = t /\ t \notin AccountKinds
        /\ subs[t] \in SUBSET Uuid
    BY DEF Topics, Kinds, AccountKinds, TypeOK, TopicOf
  <2>2. Receive(t) /\ SendAndDrop(Head(chan[t]), subs[t], {t})
    BY <1>5 DEF Broadcast
  <2>3. updates[Head(chan[t])].topic = t
    <3>1. 1 \in 1..Len(chan[t]) /\ Head(chan[t]) = chan[t][1]
      BY <2>1, <2>2 DEF Receive, TypeOK
    <3> QED
      BY <2>1, <3>1 DEF DeliveryInv, ChanInv
  <2>4. \A s \in subs[t] : stream[s] \notin Rejected /\ req[s].kind = t
    BY <2>1 DEF DeliveryInv, AcceptedInv
  <2>5. \A s \in subs[t] : Wants(req[s], updates[Head(chan[t])])
    BY <2>1, <2>3, <2>4 DEF Wants, AccountKinds
  <2> QED
    BY <2>1, <2>2, <2>4, <2>5, UpdateDelivery
<1>6. CASE Return
  <2> USE DEF DeliveryInv
  <2>1. /\ loop' = "exited" /\ chan' = [t \in Topics |-> <<>>] /\ added' = <<>> /\ closed' = <<>>
        /\ subs' = [k \in Kinds |-> {}]
        /\ UNCHANGED <<updates, svc, req, stream, task, buf, got>>
    BY <1>6 DEF Return
  <2>2. RejectedInv' /\ ClosedInv'
    BY <2>1 DEF RejectedInv, ClosedInv
  <2>3. AcceptedInv'
    BY <2>1 DEF AcceptedInv
  <2>4. LiveInv'
    BY <2>1 DEF LiveInv
  <2>5. \A t \in Topics : Len(chan'[t]) = 0
    BY <2>1
  <2>6. ChanInv' /\ \A s \in Uuid : \A i : BeforeChan(s, i)'
    BY <2>5 DEF ChanInv, BeforeChan
  <2>7. BufInv' /\ GotInv'
    BY <2>1, <2>6 DEF BufInv, GotInv
  <2> QED
    BY <2>2, <2>3, <2>4, <2>6, <2>7
<1> QED
  BY <1>1, <1>2, <1>3, <1>4, <1>5, <1>6
  DEF EventLoop, HandleSlotUpdateEvent, HandleSlotEntryUpdateEvent, HandleBlockUpdateEvent,
      HandleTransactionUpdateEvent, UpdateRecvError, AddedRecvError, ClosedRecvError

-----------------------------------------------------------------------------
(* The theorems.                                                           *)

(* The delivery invariant is preserved by every step of the service. *)
LEMMA NextDelivery == TypeOK /\ DeliveryInv /\ [Next]_vars => DeliveryInv'
<1> SUFFICES ASSUME TypeOK, DeliveryInv, [Next]_vars PROVE DeliveryInv'
  OBVIOUS
<1>1. CASE UNCHANGED vars
  <2>1. RejectedInv' /\ AcceptedInv' /\ ClosedInv' /\ LiveInv'
    BY <1>1 DEF vars, DeliveryInv, RejectedInv, AcceptedInv, ClosedInv, LiveInv, Registered
  <2>2. ChanInv' /\ BufInv' /\ GotInv'
    BY <1>1, OrderFrame DEF vars, DeliveryInv
  <2> QED
    BY <2>1, <2>2 DEF DeliveryInv
<1> QED
  BY <1>1, EventLoopDelivery, ClientDelivery, UpstreamDelivery DEF Next

(* Type correctness of the service, and the order of everything in flight: *)
(* for each subscriber, what it was sent, what its buffer holds and what   *)
(* its channel holds are one increasing sequence of log positions.         *)
THEOREM Delivery == Spec => [](TypeOK /\ DeliveryInv)
<1>1. Init => TypeOK /\ DeliveryInv
  BY InitType, InitDelivery
<1>2. TypeOK /\ DeliveryInv /\ [Next]_vars => (TypeOK /\ DeliveryInv)'
  BY NextType, NextDelivery
<1> QED
  BY <1>1, <1>2, PTL DEF Spec

(* Every variable keeps its type and every bounded channel its bound.      *)
THEOREM TypeCorrect == Spec => []TypeOK
  BY Delivery, PTL

(* While the event loop runs, no client with an open stream is dropped     *)
(* from the subscription maps (drop_subscriptions,                         *)
(* handle_subscription_closed).                                            *)
THEOREM LiveClientsKept == Spec => []NoLiveDrop
<1>1. DeliveryInv => NoLiveDrop
  BY DEF DeliveryInv, LiveInv, NoLiveDrop
<1> QED
  BY <1>1, Delivery, PTL

(* Initially no client asked for or was sent anything: the feed's initial state. *)
LEMMA InitRefines == Init => Feed!Init
  BY DEF Init, Feed!Init, Feed!NoRequest, NoRequest

(* Every step is one of the lossy feed, or changes neither log, requests nor what was sent. *)
LEMMA StepRefines == TypeOK /\ DeliveryInv /\ [Next]_vars => [Feed!Next]_Feed!vars
<1> SUFFICES ASSUME TypeOK, DeliveryInv, [Next]_vars PROVE [Feed!Next]_Feed!vars
  OBVIOUS
<1> USE DEF Feed!vars
<1>1. CASE UNCHANGED vars
  BY <1>1 DEF vars
<1>2. CASE EventLoop
  BY <1>2 DEF EventLoop, SendHeartbeats, HandleSubscriptionAdded, HandleSubscriptionClosed,
     HandleAccountUpdateEvent, HandleSlotUpdateEvent, HandleSlotEntryUpdateEvent,
     HandleBlockUpdateEvent, HandleTransactionUpdateEvent, Broadcast, Receive,
     UpdateRecvError, AddedRecvError, ClosedRecvError, Return
<1>3. CASE Upstream
  <2>1. ASSUME NEW n \in Notifications, Publish(n) PROVE Feed!Next
    <3>1. n \in Feed!Notification
      BY NotificationsAssumption DEF Notification, Feed!Notification, Topics, Feed!Topics
    <3>2. Feed!Publish(n)
      BY <2>1 DEF Publish, Feed!Publish
    <3> QED
      BY <3>1, <3>2 DEF Feed!Next
  <2> QED
    BY <1>3, <2>1 DEF Upstream, New, FetchMax, DropSenders, DropService
<1>4. ASSUME NEW s \in Uuid, Client(s) PROVE [Feed!Next]_Feed!vars
  <2>1. ASSUME NEW r \in Requests, Subscribe(s, r) PROVE [Feed!Next]_Feed!vars
    <3>1. r \in Feed!Request
      BY RequestsAssumption
      DEF Request, Feed!Request, Kinds, Feed!Kinds, AccountKinds, Feed!AccountKinds
    <3>2. stream[s] = "idle" /\ (Fail(s, "invalid_argument") \/ AddSubscription(s, r))
      BY <2>1
      DEF Subscribe, SubscribeAccountUpdates, SubscribeProgramUpdates,
          SubscribePartialAccountUpdates, SubscribeSlotUpdates, SubscribeSlotEntryUpdates,
          SubscribeTransactionUpdates, SubscribeBlockUpdates, Calls
    <3>3. req[s] = Feed!NoRequest
      BY <3>2 DEF DeliveryInv, RejectedInv, Rejected, NoRequest, Feed!NoRequest
    <3>4. \/ UNCHANGED <<updates, req, got>>
          \/ req' = [req EXCEPT ![s] = r] /\ UNCHANGED <<updates, got>>
      BY <3>2 DEF Fail, AddSubscription
    <3>5. CASE req' = [req EXCEPT ![s] = r] /\ UNCHANGED <<updates, got>>
      <4>1. req'[s] = r
        BY <3>5 DEF TypeOK
      <4>2. Feed!Subscribe(s)
        BY <3>1, <3>3, <3>5, <4>1 DEF Feed!Subscribe
      <4> QED
        BY <4>2 DEF Feed!Next
    <3> QED
      BY <3>4, <3>5
  <2>2. CASE PollNext(s)
    <3> DEFINE m == Head(buf[s])
    <3>1. CASE m > Heartbeat
      <4>1. 1 \in 1..Len(buf[s]) /\ m = buf[s][1]
        BY <2>2 DEF PollNext, TypeOK
      <4>2. /\ m \in 1..Len(updates)
            /\ Wants(req[s], updates[m])
            /\ \A j \in 1..Len(got[s]) : got[s][j] < m
        BY <3>1, <4>1 DEF DeliveryInv, BufInv
      <4>3. Feed!Wants(req[s], updates[m])
        BY <4>2 DEF Wants, Feed!Wants, Kinds, Feed!Kinds, AccountKinds, Feed!AccountKinds,
                    TopicOf, Feed!TopicOf
      <4>4. Feed!Deliver(s, m)
        BY <2>2, <3>1, <4>2, <4>3 DEF PollNext, Feed!Deliver, Feed!Fresh
      <4> QED
        BY <4>2, <4>4 DEF Feed!Next
    <3>2. CASE ~(m > Heartbeat)
      BY <2>2, <3>2 DEF PollNext
    <3> QED
      BY <3>1, <3>2
  <2> QED
    BY <1>4, <2>1, <2>2 DEF Client, Respond, DropStream, EndOfStream, BeginDrop, DropReceiver,
       CloseTask, AbortTask, Unauthenticated, Fail
<1> QED
  BY <1>1, <1>2, <1>3, <1>4 DEF Next

(* The service implements the lossy feed: whatever the interleaving of     *)
(* validator, RPCs, event loop and disconnects, a client is sent only what *)
(* it asked for, in the order it was accepted, and nothing twice.          *)
THEOREM ImplementsFeed == Spec => FeedSpec
  BY InitRefines, StepRefines, Delivery, PTL DEF Spec, FeedSpec, Feed!Spec

-----------------------------------------------------------------------------
(* Subscriptions come and go once, and the end of the loop is final.       *)

(* An id waits in the added channel once at most, and not while a map      *)
(* already holds it.                                                       *)
AddedOnceInv ==
    /\ \A i, j \in 1..Len(added) : added[i] = added[j] => i = j
    /\ \A i \in 1..Len(added) : ~Mapped(added[i])

(* With the loop its receivers and its maps are gone. *)
ReturnedInv ==
    loop = "exited" =>
        /\ added = <<>>
        /\ closed = <<>>
        /\ \A t \in Topics : chan[t] = <<>>
        /\ \A k \in Kinds : subs[k] = {}

(* The four things a step can do to the added channel and the maps.        *)
OnlyRemoves ==
    /\ added' = added
    /\ \A k \in Kinds : subs'[k] \subseteq subs[k]
    /\ \A s \in Uuid : Mapped(s) /\ ~Mapped(s)' => stream[s] \in {"dropping", "gone"}

Accepted(s) ==
    /\ loop = "running"
    /\ stream[s] = "idle"
    /\ added' = Append(added, s)
    /\ UNCHANGED <<closed, chan, loop, subs, buf>>

(* drop_subscriptions removes only what failed: receivers that are gone.   *)
LEMMA SendOnlyRemoves ==
    ASSUME TypeOK, NEW m, NEW targets \in SUBSET Uuid, NEW kinds,
           SendAndDrop(m, targets, kinds), added' = added
    PROVE  OnlyRemoves
<1>1. /\ \A k \in Kinds : subs'[k] \subseteq subs[k]
      /\ \A k \in Kinds : \A s \in subs[k] : stream[s] # "gone" => s \in subs'[k]
  BY SendEffect
<1> QED
  BY <1>1 DEF OnlyRemoves, Mapped

(* Every step of the loop takes an added event, only removes, or is the    *)
(* last one.                                                               *)
LEMMA LoopShape ==
    ASSUME TypeOK, DeliveryInv, EventLoop
    PROVE  loop = "running" /\ ((OnlyRemoves /\ loop' = loop) \/ HandleSubscriptionAdded \/ Return)
<1>1. CASE SendHeartbeats
  <2>1. subs["partial"] \in SUBSET Uuid
    BY DEF TypeOK, Kinds, AccountKinds
  <2> QED
    BY <1>1, <2>1, SendOnlyRemoves DEF SendHeartbeats
<1>2. CASE HandleSubscriptionAdded
  BY <1>2 DEF HandleSubscriptionAdded
<1>3. CASE HandleSubscriptionClosed
  <2>1. /\ loop = "running" /\ loop' = loop /\ added' = added
        /\ subs' = [subs EXCEPT ![Head(closed).kind] = @ \ {Head(closed).uuid}]
        /\ closed # <<>>
    BY <1>3 DEF HandleSubscriptionClosed
  <2>2. 1 \in 1..Len(closed) /\ Head(closed) = closed[1]
    BY <2>1 DEF TypeOK
  <2>3. stream[Head(closed).uuid] \in {"dropping", "gone"}
    BY <2>2 DEF DeliveryInv, ClosedInv
  <2>4. \A k \in Kinds : subs'[k] = subs[k] \/ subs'[k] = subs[k] \ {Head(closed).uuid}
    BY <2>1 DEF TypeOK
  <2> QED
    BY <2>1, <2>3, <2>4 DEF OnlyRemoves, Mapped
<1>4. ASSUME NEW t \in Topics, Broadcast(t)
      PROVE  OnlyRemoves /\ loop = "running" /\ loop' = loop
  <2>1. subs[t] \in SUBSET Uuid
    BY DEF TypeOK, Kinds, AccountKinds, Topics
  <2> QED
    BY <1>4, <2>1, SendOnlyRemoves DEF Broadcast, Receive
<1>5. CASE HandleAccountUpdateEvent
  <2> DEFINE u == updates[Head(chan["account"])]
             targets == AccountTargets(u) \cup ProgramTargets(u) \cup PartialTargets(u)
  <2>1. targets \in SUBSET Uuid
    BY DEF TypeOK, Kinds, AccountKinds, AccountTargets, ProgramTargets, PartialTargets
  <2>2. SendAndDrop(Head(chan["account"]), targets, AccountKinds) /\ Receive("account")
    BY <1>5 DEF HandleAccountUpdateEvent
  <2> QED
    BY <2>1, <2>2, SendOnlyRemoves DEF Receive
<1>6. CASE Return
  BY <1>6 DEF Return
<1> QED
  BY <1>1, <1>2, <1>3, <1>4, <1>5, <1>6
  DEF EventLoop, HandleSlotUpdateEvent, HandleSlotEntryUpdateEvent, HandleBlockUpdateEvent,
      HandleTransactionUpdateEvent, Topics, UpdateRecvError, AddedRecvError, ClosedRecvError

(* Of the clients' steps one adds, the others leave channel and maps alone. *)
LEMMA ClientShape ==
    ASSUME TypeOK, NEW s \in Uuid, Client(s)
    PROVE  Accepted(s) \/ UNCHANGED <<added, subs, loop, chan>>
<1>1. ASSUME NEW r \in Requests, Subscribe(s, r)
      PROVE  Accepted(s) \/ UNCHANGED <<added, subs, loop, chan>>
  <2>1. stream[s] = "idle" /\ (Fail(s, "invalid_argument") \/ AddSubscription(s, r))
    BY <1>1
    DEF Subscribe, SubscribeAccountUpdates, SubscribeProgramUpdates,
        SubscribePartialAccountUpdates, SubscribeSlotUpdates, SubscribeSlotEntryUpdates,
        SubscribeTransactionUpdates, SubscribeBlockUpdates, Calls
  <2> QED
    BY <2>1 DEF AddSubscription, Fail, Accepted
<1> QED
  BY <1>1 DEF Client, Unauthenticated, Fail, Respond, PollNext, DropStream, EndOfStream, BeginDrop,
              DropReceiver, CloseTask, AbortTask

(* The validator's side never touches them. *)
LEMMA UpstreamShape == Upstream => UNCHANGED <<added, subs>>
  BY DEF Upstream, New, FetchMax, Publish, DropSenders, DropService

(* The shape of any step of the service.                                   *)
LEMMA StepShape ==
    ASSUME TypeOK, DeliveryInv, [Next]_vars
    PROVE  OnlyRemoves \/ HandleSubscriptionAdded \/ Return \/ \E s \in Uuid : Accepted(s)
<1>1. CASE UNCHANGED <<added, subs>>
  BY <1>1 DEF OnlyRemoves, Mapped
<1> QED
  BY <1>1, LoopShape, ClientShape, UpstreamShape DEF Next, vars

(* A call that is accepted brings an id nobody has seen. *)
LEMMA AcceptedIsNew ==
    ASSUME TypeOK, DeliveryInv, NEW s \in Uuid, stream[s] = "idle"
    PROVE  ~Registered(s)
  BY DEF DeliveryInv, AcceptedInv, Rejected, Registered

(* The event of an accepted call is the only one of its id, until the loop *)
(* moves the id into a map.                                                *)
LEMMA AddedOnceStep == TypeOK /\ DeliveryInv /\ AddedOnceInv /\ [Next]_vars => AddedOnceInv'
<1> SUFFICES ASSUME TypeOK, DeliveryInv, AddedOnceInv, [Next]_vars PROVE AddedOnceInv'
  OBVIOUS
<1>0. added \in Seq(Uuid) /\ subs \in [Kinds -> SUBSET Uuid]
  BY DEF TypeOK
<1>1. CASE OnlyRemoves
  BY <1>1 DEF OnlyRemoves, AddedOnceInv, Mapped
<1>2. CASE Return
  BY <1>2 DEF Return, AddedOnceInv
<1>3. ASSUME NEW s \in Uuid, Accepted(s) PROVE AddedOnceInv'
  <2>1. added' = Append(added, s) /\ subs' = subs /\ ~Registered(s)
    BY <1>3, AcceptedIsNew DEF Accepted
  <2>2. Len(added') = Len(added) + 1 /\ Len(added) \in Nat
    BY <1>0, <2>1
  <2>3. \A i \in 1..Len(added') :
          \/ i \in 1..Len(added) /\ added'[i] = added[i]
          \/ i = Len(added) + 1 /\ added'[i] = s
    BY <1>0, <2>1, <2>2
  <2>4. ASSUME NEW i \in 1..Len(added'), NEW j \in 1..Len(added'), added'[i] = added'[j]
        PROVE  i = j
    BY <2>1, <2>3, <2>4 DEF AddedOnceInv, Registered
  <2>6. \A i \in 1..Len(added') : \A k \in Kinds : added'[i] \notin subs'[k]
    BY <2>1, <2>3 DEF AddedOnceInv, Registered, Mapped
  <2> QED
    BY <2>4, <2>6 DEF AddedOnceInv, Mapped
<1>4. CASE HandleSubscriptionAdded
  <2>1. /\ added # <<>> /\ added' = Tail(added)
        /\ subs' = [subs EXCEPT ![req[Head(added)].kind] = @ \cup {Head(added)}]
    BY <1>4 DEF HandleSubscriptionAdded
  <2>2. /\ Len(added') = Len(added) - 1 /\ Len(added) \in Nat /\ 1 \in 1..Len(added)
        /\ Head(added) = added[1]
    BY <1>0, <2>1
  <2>3. \A i \in 1..Len(added') : i + 1 \in 1..Len(added) /\ added'[i] = added[i + 1] /\ i + 1 # 1
    BY <1>0, <2>1, <2>2
  <2>4. \A k \in Kinds : subs'[k] \subseteq subs[k] \cup {added[1]}
    BY <1>0, <2>1, <2>2
  <2>5. ASSUME NEW i \in 1..Len(added'), NEW j \in 1..Len(added'), added'[i] = added'[j]
        PROVE  i = j
    <3>1. i + 1 = j + 1
      BY <2>3, <2>5 DEF AddedOnceInv
    <3> QED
      BY <3>1
  <2>6. ASSUME NEW i \in 1..Len(added'), NEW k \in Kinds PROVE added'[i] \notin subs'[k]
    <3>1. added[i + 1] # added[1] /\ added[i + 1] \notin subs[k]
      BY <2>2, <2>3 DEF AddedOnceInv, Mapped
    <3> QED
      BY <3>1, <2>3, <2>4
  <2> QED
    BY <2>5, <2>6 DEF AddedOnceInv, Mapped
<1> QED
  BY <1>1, <1>2, <1>3, <1>4, StepShape

(* A loop that has returned takes no further step, and nobody else fills   *)
(* its channels or maps.                                                   *)
LEMMA ReturnedStep == TypeOK /\ DeliveryInv /\ ReturnedInv /\ [Next]_vars => ReturnedInv'
<1> SUFFICES ASSUME TypeOK, DeliveryInv, ReturnedInv, [Next]_vars PROVE ReturnedInv'
  OBVIOUS
<1>1. CASE UNCHANGED vars
  BY <1>1 DEF vars, ReturnedInv
<1>2. CASE EventLoop
  <2>1. CASE Return
    BY <2>1 DEF Return, ReturnedInv
  <2>2. loop = "running" /\ (loop' = loop \/ Return)
    BY <1>2, LoopShape DEF HandleSubscriptionAdded
  <2> QED
    BY <2>1, <2>2 DEF ReturnedInv
<1>3. CASE Upstream
  BY <1>3 DEF Upstream, New, FetchMax, Publish, Accepts, DropSenders, DropService, ReturnedInv
<1>4. ASSUME NEW s \in Uuid, Client(s) PROVE ReturnedInv'
  <2>1. CASE Accepted(s)
    BY <2>1 DEF Accepted, ReturnedInv
  <2>2. CASE UNCHANGED <<added, subs, loop, chan>>
    <3>1. loop = "exited" => closed' = closed
      <4>1. ASSUME NEW r \in Requests, Subscribe(s, r) PROVE closed' = closed
        BY <4>1 DEF Subscribe, SubscribeAccountUpdates, SubscribeProgramUpdates,
             SubscribePartialAccountUpdates, SubscribeSlotUpdates, SubscribeSlotEntryUpdates,
             SubscribeTransactionUpdates, SubscribeBlockUpdates, AddSubscription, Fail
      <4> QED
        BY <1>4, <4>1 DEF Client, Unauthenticated, Fail, Respond, PollNext, DropStream, EndOfStream,
              BeginDrop, DropReceiver, CloseTask, AbortTask
    <3> QED
      BY <2>2, <3>1 DEF ReturnedInv
  <2> QED
    BY <1>4, <2>1, <2>2, ClientShape
<1> QED
  BY <1>1, <1>2, <1>3, <1>4 DEF Next

(* Both hold throughout. *)
LEMMA OnceAndReturned == Spec => [](AddedOnceInv /\ ReturnedInv)
<1>1. Init => AddedOnceInv /\ ReturnedInv
  BY DEF Init, AddedOnceInv, ReturnedInv
<1> QED
  BY <1>1, AddedOnceStep, ReturnedStep, Delivery, PTL DEF Spec

(* What one step can do to the registration of one subscription.           *)
LEMMA RegistrationStep ==
    ASSUME TypeOK, DeliveryInv, AddedOnceInv, [Next]_vars, NEW s \in Uuid
    PROVE  /\ Mapped(s) /\ ~Mapped(s)' =>
                 ~Registered(s)' /\ (stream[s] \in {"dropping", "gone"} \/ loop' = "exited")
           /\ stream[s] # "idle" /\ ~Registered(s) => ~Registered(s)'
<1>0. added \in Seq(Uuid) /\ subs \in [Kinds -> SUBSET Uuid]
  BY DEF TypeOK
<1>1. CASE OnlyRemoves
  <2>1. ASSUME Mapped(s), ~Mapped(s)' PROVE ~Registered(s)' /\ stream[s] \in {"dropping", "gone"}
    BY <1>1, <2>1 DEF OnlyRemoves, AddedOnceInv, Registered, Mapped
  <2>2. ASSUME ~Registered(s) PROVE ~Registered(s)'
    BY <1>1, <2>2 DEF OnlyRemoves, Registered
  <2> QED
    BY <2>1, <2>2
<1>2. CASE Return
  <2>1. loop' = "exited" /\ ~Registered(s)'
    BY <1>2 DEF Return, Registered
  <2> QED
    BY <2>1
<1>3. ASSUME NEW x \in Uuid, Accepted(x)
      PROVE  /\ Mapped(s) => Mapped(s)'
             /\ stream[s] # "idle" /\ ~Registered(s) => ~Registered(s)'
  <2>1. added' = Append(added, x) /\ subs' = subs /\ stream[x] = "idle"
    BY <1>3 DEF Accepted
  <2>2. \A i \in 1..Len(added') : (i \in 1..Len(added) /\ added'[i] = added[i]) \/ added'[i] = x
    BY <1>0, <2>1
  <2> QED
    BY <2>1, <2>2 DEF Registered, Mapped
<1>4. ASSUME HandleSubscriptionAdded
      PROVE  /\ Mapped(s) => Mapped(s)'
             /\ ~Registered(s) => ~Registered(s)'
  <2>1. /\ added # <<>> /\ added' = Tail(added)
        /\ subs' = [subs EXCEPT ![req[Head(added)].kind] = @ \cup {Head(added)}]
    BY <1>4 DEF HandleSubscriptionAdded
  <2>2. /\ 1 \in 1..Len(added) /\ Head(added) = added[1]
        /\ \A i \in 1..Len(added') : i + 1 \in 1..Len(added) /\ added'[i] = added[i + 1]
    BY <1>0, <2>1
  <2>3. \A k \in Kinds : subs[k] \subseteq subs'[k] /\ subs'[k] \subseteq subs[k] \cup {added[1]}
    BY <1>0, <2>1, <2>2
  <2> QED
    BY <2>2, <2>3 DEF Registered, Mapped
<1> QED
  BY <1>1, <1>2, <1>3, <1>4, StepShape

(* What was removed from a map never comes back, and only streams that are *)
(* ending are removed: the events of a subscription may be handled late or *)
(* in the wrong order, but never twice (event_loop).                       *)
THEOREM RemovalIsFinal == Spec => RemovedForGood
<1>1. TypeOK /\ DeliveryInv /\ AddedOnceInv /\ [Next]_vars =>
        [\A s \in Uuid :
            /\ Mapped(s) /\ ~Mapped(s)' =>
                  ~Registered(s)' /\ (stream[s] \in {"dropping", "gone"} \/ loop' = "exited")
            /\ stream[s] # "idle" /\ ~Registered(s) => ~Registered(s)']_vars
  BY RegistrationStep
<1> QED
  BY <1>1, Delivery, OnceAndReturned, PTL DEF Spec, RemovedForGood

(* After the return a call fails, and every other step of a client only    *)
(* drains its buffer.                                                      *)
LEMMA DrainingStep ==
    ASSUME TypeOK, DeliveryInv, ReturnedInv, [Next]_vars, loop = "exited"
    PROVE  /\ loop' = "exited"
           /\ updates' = updates
           /\ \A s \in Uuid :
                 /\ stream[s] = "idle" => stream'[s] # "requested"
                 /\ Len(buf'[s]) <= Len(buf[s])
<1>0. \A s \in Uuid : buf[s] \in Seq(Message) /\ Len(buf[s]) \in Nat
  BY DEF TypeOK
<1>1. CASE UNCHANGED vars
  BY <1>0, <1>1 DEF vars
<1>2. ~EventLoop
  BY LoopShape
<1>3. CASE Upstream
  BY <1>0, <1>3 DEF Upstream, New, FetchMax, Publish, Accepts, DropSenders, DropService
<1>4. ASSUME NEW x \in Uuid, Client(x)
      PROVE  /\ loop' = "exited" /\ updates' = updates
             /\ \A s \in Uuid :
                   /\ stream[s] = "idle" => stream'[s] # "requested"
                   /\ Len(buf'[s]) <= Len(buf[s])
  <2>1. ASSUME NEW status \in {"internal", "invalid_argument", "unauthenticated"}, Fail(x, status)
        PROVE  /\ UNCHANGED <<loop, updates, buf>>
               /\ \A s \in Uuid : stream[s] = "idle" => stream'[s] # "requested"
    BY <2>1 DEF Fail, TypeOK
  <2>2. ASSUME NEW r \in Requests, Subscribe(x, r)
        PROVE  Fail(x, "internal") \/ Fail(x, "invalid_argument")
    BY <2>2 DEF Subscribe, SubscribeAccountUpdates, SubscribeProgramUpdates,
         SubscribePartialAccountUpdates, SubscribeSlotUpdates, SubscribeSlotEntryUpdates,
         SubscribeTransactionUpdates, SubscribeBlockUpdates, AddSubscription
  <2>3. CASE PollNext(x)
    <3>1. /\ UNCHANGED <<loop, updates, stream>> /\ buf[x] # <<>>
          /\ buf' = [buf EXCEPT ![x] = Tail(@)]
      BY <2>3 DEF PollNext
    <3>2. Len(Tail(buf[x])) = Len(buf[x]) - 1
      BY <1>0, <3>1
    <3>3. buf \in [Uuid -> Seq(Message)]
      BY DEF TypeOK
    <3>4. \A s \in Uuid : s # x => buf'[s] = buf[s]
      BY <3>1, <3>3
    <3>5. buf'[x] = Tail(buf[x])
      BY <3>1, <3>3
    <3> QED
      BY <1>0, <3>1, <3>2, <3>4, <3>5
  <2>4. CASE DropReceiver(x)
    <3>1. /\ UNCHANGED <<loop, updates>>
          /\ stream' = [stream EXCEPT ![x] = "gone"] /\ buf' = [buf EXCEPT ![x] = <<>>]
      BY <2>4 DEF DropReceiver
    <3>2. \A s \in Uuid : buf'[s] = buf[s] \/ buf'[s] = <<>>
      BY <3>1 DEF TypeOK
    <3>3. \A s \in Uuid : stream[s] = "idle" => stream'[s] # "requested"
      BY <3>1 DEF TypeOK
    <3> QED
      BY <1>0, <3>1, <3>2, <3>3
  <2>5. CASE Respond(x) \/ DropStream(x) \/ EndOfStream(x) \/ CloseTask(x) \/ AbortTask(x)
    <3>1. UNCHANGED <<loop, updates, buf>>
      BY <2>5 DEF Respond, DropStream, EndOfStream, BeginDrop, CloseTask, AbortTask
    <3>2. \A s \in Uuid : stream[s] = "idle" => stream'[s] # "requested"
      BY <2>5 DEF Respond, DropStream, EndOfStream, BeginDrop, CloseTask, AbortTask, TypeOK
    <3> QED
      BY <1>0, <3>1, <3>2
  <2> QED
    BY <1>0, <1>4, <2>1, <2>2, <2>3, <2>4, <2>5 DEF Client, Unauthenticated
<1> QED
  BY <1>1, <1>2, <1>3, <1>4 DEF Next

(* The return of the loop is final: nothing is accepted, registered or     *)
(* buffered any more, whoever still holds the service or its senders. This *)
(* is the safety half of StreamsEnd.                                       *)
THEOREM ReturnIsFinal == Spec => OverAfterReturn
<1>1. ReturnedInv /\ loop = "exited" => \A s \in Uuid : ~Registered(s)
  BY DEF ReturnedInv, Registered
<1>2. (ReturnedInv /\ loop = "exited" => \A s \in Uuid : ~Registered(s))'
  BY DEF ReturnedInv, Registered
<1>3. TypeOK /\ DeliveryInv /\ ReturnedInv /\ ReturnedInv' /\ [Next]_vars =>
        [loop = "exited" =>
            /\ loop' = "exited"
            /\ updates' = updates
            /\ \A s \in Uuid :
                  /\ ~Registered(s)'
                  /\ stream[s] = "idle" => stream'[s] # "requested"
                  /\ Len(buf'[s]) <= Len(buf[s])]_vars
  BY <1>2, DrainingStep
<1> QED
  BY <1>3, Delivery, OnceAndReturned, PTL DEF Spec, OverAfterReturn

=============================================================================
