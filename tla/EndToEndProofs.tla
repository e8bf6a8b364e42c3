---------------------------- MODULE EndToEndProofs ----------------------------
(***************************************************************************)
(* From the validator to the application, for every number of validator    *)
(* threads, other clients, updates and slots.  The client sees nothing but *)
(* what the server wrote, so the server's invariants carry over.           *)
(***************************************************************************)
EXTENDS EndToEnd, GeyserPluginProofs

USE DEF loopVars, upstreamVars, subscriptionVars, pluginVars, consumerVars, clientVars

(* A client step leaves the server alone.                                  *)
LEMMA ServerStep == [ENext]_endVars => [PNext]_allVars
  BY DEF ENext, endVars, ServerSide, ClientSide, Subscribed, SubscribeError, ReceiveUpdate,
         EndOfResponse, ClientLoop

(* Seen from the server the application is one of the clients PSpec allows. *)
LEMMA ServerUnaware == ESpec => PSpec
<1>1. EInit => PInit
  BY DEF EInit
<1> QED
  BY <1>1, ServerStep, PTL DEF ESpec, PSpec

(* What is known of the server from GeyserPluginProofs.                    *)
ServerInv == TypeOK /\ DeliveryInv /\ CallerInv /\ CoveredInv

(* It holds of the plugin whatever its clients do. *)
THEOREM ServerSafe == PSpec => []ServerInv
<1>1. PInit => CallerInv /\ CoveredInv
  BY DEF PInit, Init, CallerInv, CoveredInv
<1> QED
  BY <1>1, CallerStep, CoveredStep, PluginRunsService, Delivery, PTL DEF PSpec, ServiceSpec, ServerInv

-----------------------------------------------------------------------------
(* What the feed says of what was written to each client.                  *)
WrittenInv ==
    \A s \in Uuid :
        /\ \A i \in 1..Len(got[s]) : got[s][i] \in 1..Len(updates) /\ Wants(req[s], updates[got[s][i]])
        /\ \A i, j \in 1..Len(got[s]) : i < j => got[s][i] < got[s][j]

(* The two copies of the filter, in the service and in the feed, agree.    *)
LEMMA SameWants == \A r, n : Feed!Wants(r, n) <=> Wants(r, n)
  BY DEF Wants, Feed!Wants, Kinds, Feed!Kinds, AccountKinds, Feed!AccountKinds, TopicOf, Feed!TopicOf

(* The log only grows.                                                     *)
LEMMA LogGrows ==
    ASSUME TypeOK, [Feed!Next]_Feed!vars
    PROVE  /\ Len(updates') >= Len(updates)
           /\ \A i \in 1..Len(updates) : updates'[i] = updates[i]
<1>1. CASE UNCHANGED updates
  BY <1>1 DEF TypeOK
<1>2. ASSUME NEW n, updates' = Append(updates, n)
      PROVE  /\ Len(updates') >= Len(updates)
             /\ \A i \in 1..Len(updates) : updates'[i] = updates[i]
  BY <1>2 DEF TypeOK
<1> QED
  BY <1>1, <1>2 DEF Feed!Next, Feed!vars, Feed!Publish, Feed!Subscribe, Feed!Deliver

(* Every step of the feed appends to the log or to what one client was     *)
(* written, or makes a request for a client that was written nothing.      *)
LEMMA WrittenStep == TypeOK /\ WrittenInv /\ [Feed!Next]_Feed!vars => WrittenInv'
<1> SUFFICES ASSUME TypeOK, WrittenInv, [Feed!Next]_Feed!vars PROVE WrittenInv'
  OBVIOUS
<1>1. CASE UNCHANGED <<req, got>>
  <2> SUFFICES ASSUME NEW s \in Uuid
               PROVE  /\ \A i \in 1..Len(got[s]) :
                            got[s][i] \in 1..Len(updates') /\ Wants(req[s], updates'[got[s][i]])
                      /\ \A i, j \in 1..Len(got[s]) : i < j => got[s][i] < got[s][j]
    BY <1>1 DEF WrittenInv
  <2>1. /\ Len(updates) \in Nat /\ Len(updates') >= Len(updates)
        /\ \A i \in 1..Len(updates) : updates'[i] = updates[i]
    BY LogGrows DEF TypeOK
  <2>2. Len(updates') \in Int
    BY <1>1 DEF Feed!Next, Feed!vars, Feed!Publish, Feed!Subscribe, Feed!Deliver, TypeOK
  <2>3. \A m \in 1..Len(updates) : m \in 1..Len(updates')
    BY <2>1, <2>2
  <2> QED
    BY <2>1, <2>3 DEF WrittenInv
<1>2. ASSUME NEW x \in Uuid, Feed!Subscribe(x) PROVE WrittenInv'
  <2>1. req[x] = NoRequest /\ UNCHANGED <<updates, got>>
        /\ \A s \in Uuid : s # x => req'[s] = req[s]
    BY <1>2 DEF Feed!Subscribe, Feed!NoRequest, NoRequest, TypeOK
  <2>2. ~\E n : Wants(NoRequest, n)
    BY DEF Wants, NoRequest, Kinds, AccountKinds
  <2>3. 1..Len(got[x]) = {}
    BY <2>1, <2>2 DEF WrittenInv
  <2> QED
    BY <2>1, <2>3 DEF WrittenInv
<1>3. ASSUME NEW x \in Uuid, NEW m \in 1..Len(updates), Feed!Deliver(x, m) PROVE WrittenInv'
  <2>1. /\ Wants(req[x], updates[m])
        /\ \A j \in 1..Len(got[x]) : got[x][j] < m
        /\ got' = [got EXCEPT ![x] = Append(@, m)]
        /\ UNCHANGED <<updates, req>>
    BY <1>3, SameWants DEF Feed!Deliver, Feed!Fresh
  <2> SUFFICES ASSUME NEW s \in Uuid
               PROVE  /\ \A i \in 1..Len(got'[s]) :
                            got'[s][i] \in 1..Len(updates) /\ Wants(req[s], updates[got'[s][i]])
                      /\ \A i, j \in 1..Len(got'[s]) : i < j => got'[s][i] < got'[s][j]
    BY <2>1 DEF WrittenInv
  <2>2. CASE s # x
    BY <2>1, <2>2 DEF WrittenInv, TypeOK
  <2>3. CASE s = x
    <3>1. got[x] \in Seq(Nat) /\ got'[x] = Append(got[x], m)
      BY <2>1 DEF TypeOK
    <3>2. /\ Len(got'[x]) = Len(got[x]) + 1
          /\ \A i \in 1..Len(got'[x]) : got'[x][i] = IF i <= Len(got[x]) THEN got[x][i] ELSE m
      BY <3>1
    <3>3. ASSUME NEW i \in 1..Len(got'[x])
          PROVE  \/ i \in 1..Len(got[x]) /\ got'[x][i] = got[x][i]
                 \/ got'[x][i] = m
      <4>1. Len(got[x]) \in Nat
        BY <3>1
      <4>2. Len(got'[x]) = Len(got[x]) + 1
        BY <3>2
      <4>3. i <= Len(got[x]) => i \in 1..Len(got[x])
        BY <4>1, <4>2
      <4> QED
        BY <3>2, <4>3
    <3>4. \A i \in 1..Len(got'[x]) :
             got'[x][i] \in 1..Len(updates) /\ Wants(req[x], updates[got'[x][i]])
      BY <2>1, <3>3 DEF WrittenInv
    <3>5. ASSUME NEW i \in 1..Len(got'[x]), NEW j \in 1..Len(got'[x]), i < j
          PROVE  got'[x][i] < got'[x][j]
      <4>1. i \in 1..Len(got[x]) /\ got'[x][i] = got[x][i]
        BY <3>1, <3>2, <3>5
      <4>2. CASE j \in 1..Len(got[x]) /\ got'[x][j] = got[x][j]
        BY <3>5, <4>1, <4>2 DEF WrittenInv
      <4>3. CASE got'[x][j] = m
        BY <2>1, <4>1, <4>3
      <4> QED
        BY <3>3, <4>2, <4>3
    <3> QED
      BY <2>3, <3>4, <3>5
  <2> QED
    BY <2>2, <2>3
<1> QED
  BY <1>1, <1>2, <1>3 DEF Feed!Next, Feed!vars, Feed!Publish

-----------------------------------------------------------------------------
Opened == {"open", "dropping", "gone"}

(* A response is opened once, by Respond, and keeps its header.            *)
LEMMA OpenedOnce ==
    ASSUME TypeOK, [Next]_vars, NEW s \in Uuid
    PROVE  /\ stream[s] \in Opened => stream'[s] \in Opened /\ header'[s] = header[s]
           /\ stream[s] \notin Opened /\ stream'[s] \in Opened =>
                 stream[s] = "requested" /\ stream'[s] = "open"
<1>1. CASE UNCHANGED <<stream, header>>
  BY <1>1
<1>2. EventLoop => UNCHANGED <<stream, header>>
  BY DEF EventLoop, SendHeartbeats, HandleSubscriptionAdded, HandleSubscriptionClosed,
     HandleAccountUpdateEvent, HandleSlotUpdateEvent, HandleSlotEntryUpdateEvent,
     HandleBlockUpdateEvent, HandleTransactionUpdateEvent, Broadcast, Receive,
     UpdateRecvError, AddedRecvError, ClosedRecvError, Return
<1>3. Upstream => UNCHANGED <<stream, header>>
  BY DEF Upstream, New, FetchMax, Publish, DropSenders, DropService
<1>4. ASSUME NEW x \in Uuid, Client(x)
      PROVE  /\ stream[s] \in Opened => stream'[s] \in Opened /\ header'[s] = header[s]
             /\ stream[s] \notin Opened /\ stream'[s] \in Opened =>
                   stream[s] = "requested" /\ stream'[s] = "open"
  <2> USE DEF TypeOK, Opened
  <2>1. CASE Unauthenticated(x) \/ \E r \in Requests : Subscribe(x, r)
    <3>1. /\ stream[x] = "idle"
          /\ \E st \in {"unauthenticated", "invalid_argument", "internal", "requested"} :
                stream' = [stream EXCEPT ![x] = st]
          /\ header' = header
      BY <2>1 DEF Unauthenticated, Subscribe, SubscribeAccountUpdates, SubscribeProgramUpdates,
         SubscribePartialAccountUpdates, SubscribeSlotUpdates, SubscribeSlotEntryUpdates,
         SubscribeTransactionUpdates, SubscribeBlockUpdates, Calls, AddSubscription, Fail
    <3> QED
      BY <3>1
  <2>2. CASE Respond(x)
    BY <2>2 DEF Respond
  <2>3. CASE PollNext(x) \/ CloseTask(x) \/ AbortTask(x)
    BY <1>1, <2>3 DEF PollNext, CloseTask, AbortTask
  <2>4. CASE DropStream(x) \/ EndOfStream(x) \/ DropReceiver(x)
    BY <2>4 DEF DropStream, EndOfStream, BeginDrop, DropReceiver
  <2> QED
    BY <1>4, <2>1, <2>2, <2>3, <2>4 DEF Client
<1>5. UNCHANGED vars => UNCHANGED <<stream, header>>
  BY DEF vars
<1> QED
  BY <1>1, <1>2, <1>3, <1>4, <1>5 DEF Next

(* What the client knows: it was handed messages it has read, none older   *)
(* than the header of its response, which covers everything accepted       *)
(* before that.                                                            *)
HandedInv ==
    /\ read \in Nat /\ read <= Len(got[App])
    /\ delivered \in Seq(Nat)
    /\ \A d \in 1..Len(delivered) : \E k \in 1..read : delivered[d] = got[App][k]

HeaderInv ==
    /\ base \in Nat /\ base <= Len(updates)
    /\ stream[App] \in Opened =>
          \A i \in 1..base : updates[i].topic = "account" => updates[i].slot <= header[App]

OldestInv ==
    /\ method = "consume_account_updates"
    /\ pc = "subscribing" => delivered = <<>>
    /\ delivered # <<>> \/ pc \in {"check", "select"} => stream[App] \in Opened /\ oldest = header[App]
    /\ \A d \in 1..Len(delivered) : updates[delivered[d]].slot >= oldest

EndInv == WrittenInv /\ HandedInv /\ HeaderInv /\ OldestInv

(* The types the proofs below need, of the log and of what App is written. *)
LEMMA Typed ==
    ASSUME TypeOK
    PROVE  /\ got[App] \in Seq(Nat) /\ Len(got[App]) \in Nat
           /\ updates \in Seq(Notification) /\ Len(updates) \in Nat
           /\ \A i \in 1..Len(updates) : updates[i].slot \in Nat
           /\ header[App] \in Nat
<1>1. got[App] \in Seq(Nat) /\ updates \in Seq(Notification) /\ header[App] \in Slot
  BY AppAssumption DEF TypeOK
<1>2. \A n \in Notification : n.slot \in Nat
  BY SlotAssumption DEF Notification
<1>3. \A i \in 1..Len(updates) : updates[i] \in Notification
  BY <1>1
<1>4. Len(got[App]) \in Nat /\ Len(updates) \in Nat
  BY <1>1
<1>5. \A i \in 1..Len(updates) : updates[i].slot \in Nat
  BY <1>2, <1>3
<1>6. header[App] \in Nat
  BY <1>1, SlotAssumption
<1> QED
  BY <1>1, <1>4, <1>5, <1>6

(* What the client was handed are positions in the log.                    *)
LEMMA Positions ==
    ASSUME TypeOK, WrittenInv, HandedInv
    PROVE  \A d \in 1..Len(delivered) : delivered[d] \in 1..Len(updates)
<1> TAKE d \in 1..Len(delivered)
<1>1. PICK k \in 1..read : delivered[d] = got[App][k]
  BY DEF HandedInv
<1>2. k \in 1..Len(got[App])
  BY Typed DEF HandedInv
<1>3. got[App][k] \in 1..Len(updates)
  BY <1>2, AppAssumption DEF WrittenInv
<1> QED
  BY <1>1, <1>3

(* Initially nothing was written, read or handed on.                       *)
LEMMA EndInit == EInit => EndInv
<1> SUFFICES ASSUME EInit PROVE EndInv
  OBVIOUS
<1>1. /\ updates = <<>> /\ got = [s \in Uuid |-> <<>>] /\ stream = [s \in Uuid |-> "idle"]
      /\ read = 0 /\ delivered = <<>> /\ base = 0 /\ pc = "subscribing"
      /\ method = "consume_account_updates"
  BY DEF EInit, PInit, Init, C!Init
<1>2. WrittenInv
  BY <1>1 DEF WrittenInv
<1>3. HandedInv /\ HeaderInv
  BY <1>1, AppAssumption DEF HandedInv, HeaderInv
<1>4. OldestInv
  BY <1>1 DEF OldestInv
<1> QED
  BY <1>2, <1>3, <1>4 DEF EndInv

(* What was written to a client stays written.                             *)
LEMMA WrittenGrows ==
    ASSUME TypeOK, [Feed!Next]_Feed!vars, NEW s \in Uuid
    PROVE  /\ Len(got[s]) \in Nat /\ Len(got'[s]) \in Nat
           /\ Len(got'[s]) >= Len(got[s])
           /\ \A i \in 1..Len(got[s]) : got'[s][i] = got[s][i]
<1>1. got[s] \in Seq(Nat)
  BY DEF TypeOK
<1>2. CASE got'[s] = got[s]
  BY <1>1, <1>2
<1>3. ASSUME NEW m \in Nat, got'[s] = Append(got[s], m)
      PROVE  /\ Len(got'[s]) \in Nat
             /\ Len(got'[s]) >= Len(got[s])
             /\ \A i \in 1..Len(got[s]) : got'[s][i] = got[s][i]
  BY <1>1, <1>3
<1>4. got'[s] = got[s] \/ \E m \in Nat : got'[s] = Append(got[s], m)
  <2>1. CASE UNCHANGED got
    BY <2>1
  <2>2. ASSUME NEW x \in Uuid, NEW m \in 1..Len(updates), Feed!Deliver(x, m)
        PROVE  got'[s] = got[s] \/ got'[s] = Append(got[s], m)
    BY <2>2 DEF Feed!Deliver, TypeOK
  <2>3. 1..Len(updates) \subseteq Nat
    BY DEF TypeOK
  <2> QED
    BY <2>1, <2>2, <2>3 DEF Feed!Next, Feed!vars, Feed!Publish, Feed!Subscribe
<1> QED
  BY <1>1, <1>2, <1>3, <1>4

(* A step of the server, its other clients or the validator.               *)
LEMMA ServerKeeps ==
    ASSUME ServerInv, EndInv, ServerSide
    PROVE  HandedInv' /\ HeaderInv' /\ OldestInv'
<1> USE AppAssumption
<1>1. TypeOK /\ DeliveryInv /\ CallerInv /\ CoveredInv /\ WrittenInv /\ HandedInv /\ HeaderInv /\ OldestInv
  BY DEF ServerInv, EndInv
<1>2. PNext /\ UNCHANGED <<read, delivered, pc, oldest, method>>
  BY DEF ServerSide
<1>3. [Next]_vars /\ [Feed!Next]_Feed!vars
  BY <1>1, <1>2, PluginStep, StepRefines
<1>4. /\ Len(updates) \in Nat /\ Len(updates') >= Len(updates)
      /\ \A i \in 1..Len(updates) : updates'[i] = updates[i]
  BY <1>1, <1>3, LogGrows DEF TypeOK
<1>5. /\ stream[App] \in Opened => stream'[App] \in Opened /\ header'[App] = header[App]
      /\ stream[App] \notin Opened /\ stream'[App] \in Opened =>
            stream[App] = "requested" /\ stream'[App] = "open"
  BY <1>1, <1>3, OpenedOnce
<1>6. HandedInv'
  <2>1. /\ Len(got[App]) \in Nat /\ Len(got'[App]) \in Nat
        /\ Len(got'[App]) >= Len(got[App])
        /\ \A i \in 1..Len(got[App]) : got'[App][i] = got[App][i]
    BY <1>1, <1>3, WrittenGrows
  <2>2. read \in Nat /\ read <= Len(got[App]) /\ read' = read /\ delivered' = delivered
    BY <1>1, <1>2 DEF HandedInv
  <2>3. \A k \in 1..read : got'[App][k] = got[App][k]
    BY <2>1, <2>2
  <2>4. read <= Len(got'[App])
    BY <2>1, <2>2
  <2> QED
    BY <1>1, <2>2, <2>3, <2>4 DEF HandedInv
<1>7. HeaderInv'
  <2>1. CASE stream[App] = "requested" /\ stream'[App] = "open"
    <3>1. base' = Len(updates)
      BY <2>1 DEF ServerSide
    <3>2. header'[App] = highest_write_slot
      BY <1>1, <1>2, <2>1, HeaderIsSlot
    <3> QED
      BY <1>1, <1>4, <3>1, <3>2 DEF HeaderInv, CoveredInv
  <2>2. CASE ~(stream[App] = "requested" /\ stream'[App] = "open")
    <3>1. base' = base
      BY <2>2 DEF ServerSide
    <3>2. base \in Nat /\ base <= Len(updates') /\ \A i \in 1..base : updates'[i] = updates[i]
      <4>1. base \in Nat /\ base <= Len(updates)
        BY <1>1 DEF HeaderInv
      <4>2. Len(updates') \in Int
        BY <1>3 DEF Feed!Next, Feed!vars, Feed!Publish, Feed!Subscribe, Feed!Deliver
      <4> QED
        BY <1>4, <4>1, <4>2
    <3>3. stream'[App] \in Opened => stream[App] \in Opened /\ header'[App] = header[App]
      BY <1>5, <2>2
    <3> QED
      BY <1>1, <3>1, <3>2, <3>3 DEF HeaderInv
  <2> QED
    BY <2>1, <2>2
<1>8. OldestInv'
  <2>1. \A d \in 1..Len(delivered) : delivered[d] \in 1..Len(updates)
    BY <1>1, Positions
  <2>2. \A d \in 1..Len(delivered) : updates'[delivered[d]] = updates[delivered[d]]
    BY <1>4, <2>1
  <2> QED
    BY <1>1, <1>2, <1>5, <2>2 DEF OldestInv
<1> QED
  BY <1>6, <1>7, <1>8

(* A step of the client.  Only a message that is not stale is handed on.   *)
LEMMA ClientKeeps ==
    ASSUME ServerInv, EndInv, ClientSide
    PROVE  HandedInv' /\ HeaderInv' /\ OldestInv'
<1> USE AppAssumption
<1>1. TypeOK /\ WrittenInv /\ HandedInv /\ HeaderInv /\ OldestInv
  BY DEF ServerInv, EndInv
<1>2. UNCHANGED <<updates, got, stream, header, base>>
  BY DEF ClientSide, Subscribed, SubscribeError, ReceiveUpdate, EndOfResponse, ClientLoop, allVars, vars
<1>3. HeaderInv'
  BY <1>1, <1>2 DEF HeaderInv
<1>4. CASE ReceiveUpdate
  <2> DEFINE m == got[App][read + 1]
             u == AppUpdate(updates[m])
  <2>1. pc = "select" /\ read < Len(got[App]) /\ read' = read + 1
    BY <1>4 DEF ReceiveUpdate, C!ProcessUpdate
  <2>2. UNCHANGED <<oldest, method>> /\ pc' # "subscribing"
    BY <1>1, <1>4 DEF ReceiveUpdate, C!ProcessUpdate, C!Return, C!Forward, C!HandOn, C!LoopHead,
                      C!Consumers, C!cacheVars, OldestInv
  <2>3. read \in Nat /\ Len(got[App]) \in Nat /\ read + 1 \in 1..Len(got[App])
    BY <1>1, <2>1, Typed DEF HandedInv
  <2>4. m \in 1..Len(updates) /\ m \in Nat
    <3>1. m \in 1..Len(updates)
      BY <1>1, <2>3 DEF WrittenInv
    <3>2. m \in Nat
      BY <1>1, <2>3, Typed
    <3> QED
      BY <3>1, <3>2
  <2>5. delivered \in Seq(Nat)
    BY <1>1 DEF HandedInv
  <2>6. CASE delivered' = delivered
    <3>1. \A k \in 1..read : k \in 1..(read + 1)
      BY <2>3
    <3>2. read' \in Nat /\ read' <= Len(got'[App])
      BY <1>2, <2>1, <2>3
    <3>3. HandedInv'
      BY <1>1, <1>2, <2>1, <2>6, <3>1, <3>2 DEF HandedInv
    <3>4. OldestInv'
      BY <1>1, <1>2, <2>1, <2>2, <2>6 DEF OldestInv
    <3> QED
      BY <1>3, <3>3, <3>4
  <2>7. CASE forwarded' # forwarded /\ delivered' = Append(delivered, m)
    <3>1. ~C!Stale(u)
      BY <1>4, <2>7 DEF ReceiveUpdate, C!ProcessUpdate, C!Return, C!cacheVars
    <3>2. oldest = header[App] /\ oldest \in Nat /\ updates[m].slot \in Nat
      <4>1. header[App] \in Nat /\ updates[m].slot \in Nat
        BY <1>1, <2>4, Typed
      <4>2. oldest = header[App]
        BY <1>1, <2>1 DEF OldestInv
      <4> QED
        BY <4>1, <4>2
    <3>3. updates[m].slot >= oldest
      BY <3>1, <3>2 DEF C!Stale, AppUpdate
    <3> HIDE DEF m
    <3>4. /\ delivered' \in Seq(Nat)
          /\ Len(delivered') = Len(delivered) + 1
          /\ \A d \in 1..Len(delivered') :
                delivered'[d] = IF d <= Len(delivered) THEN delivered[d] ELSE m
      BY <2>4, <2>5, <2>7
    <3>5. HandedInv'
      <4>1. \A d \in 1..Len(delivered') : \E k \in 1..(read + 1) : delivered'[d] = got[App][k]
        <5> TAKE d \in 1..Len(delivered')
        <5>1. CASE d <= Len(delivered)
          <6>1. d \in 1..Len(delivered) /\ delivered'[d] = delivered[d]
            BY <2>5, <3>4, <5>1
          <6>2. PICK k \in 1..read : delivered[d] = got[App][k]
            BY <1>1, <6>1 DEF HandedInv
          <6>3. k \in 1..(read + 1)
            BY <2>3
          <6> QED
            BY <6>1, <6>2, <6>3
        <5>2. CASE ~(d <= Len(delivered))
          <6>1. delivered'[d] = got[App][read + 1]
            BY <3>4, <5>2 DEF m
          <6>2. read + 1 \in 1..(read + 1)
            BY <2>3
          <6> QED
            BY <6>1, <6>2
        <5> QED
          BY <5>1, <5>2
      <4>2. read' \in Nat /\ read' <= Len(got'[App]) /\ read' = read + 1 /\ got' = got
        BY <1>2, <2>1, <2>3
      <4> QED
        BY <3>4, <4>1, <4>2 DEF HandedInv
    <3>6. OldestInv'
      <4>1. \A d \in 1..Len(delivered') : updates[delivered'[d]].slot >= oldest
        <5> TAKE d \in 1..Len(delivered')
        <5>1. CASE d <= Len(delivered)
          <6>1. d \in 1..Len(delivered) /\ delivered'[d] = delivered[d]
            BY <2>5, <3>4, <5>1
          <6> QED
            BY <1>1, <6>1 DEF OldestInv
        <5>2. CASE ~(d <= Len(delivered))
          BY <3>3, <3>4, <5>2
        <5> QED
          BY <5>1, <5>2
      <4> QED
        BY <1>1, <1>2, <2>1, <2>2, <4>1 DEF OldestInv
    <3> QED
      BY <1>3, <3>5, <3>6
  <2>8. delivered' = delivered \/ (forwarded' # forwarded /\ delivered' = Append(delivered, m))
    BY <1>4 DEF ReceiveUpdate
  <2> QED
    BY <1>3, <2>6, <2>7, <2>8
<1>5. CASE Subscribed
  <2>1. /\ pc = "subscribing" /\ stream[App] \in Opened
        /\ oldest' = header[App] /\ method' = method /\ pc' # "subscribing"
        /\ UNCHANGED <<read, delivered>>
    BY <1>1, <1>5 DEF Subscribed, C!Subscribed, C!LoopHead, C!Consumers, Opened, OldestInv
  <2>2. delivered = <<>> /\ delivered' = <<>>
    BY <1>1, <2>1 DEF OldestInv
  <2>3. HandedInv'
    BY <1>1, <1>2, <2>1 DEF HandedInv
  <2>4. OldestInv'
    BY <1>1, <1>2, <2>1, <2>2 DEF OldestInv
  <2> QED
    BY <1>3, <2>3, <2>4
<1>6. CASE SubscribeError \/ EndOfResponse \/ ClientLoop
  <2>1. /\ UNCHANGED <<read, delivered, oldest, method>>
        /\ pc' = "subscribing" => pc = "subscribing"
        /\ pc' \in {"check", "select"} => pc \in {"check", "select"}
    BY <1>6 DEF SubscribeError, EndOfResponse, ClientLoop, C!SubscribeError, C!EndStream,
       C!CheckExit, C!Tick, C!ReceiveEnd, C!ReceiveError, C!Return, C!LoopHead, C!cacheVars
  <2>2. HandedInv'
    BY <1>1, <1>2, <2>1 DEF HandedInv
  <2>3. OldestInv'
    BY <1>1, <1>2, <2>1 DEF OldestInv
  <2> QED
    BY <1>3, <2>2, <2>3
<1> QED
  BY <1>4, <1>5, <1>6 DEF ClientSide

(* So every step keeps the invariant.                                      *)
LEMMA EndStep == ServerInv /\ EndInv /\ [ENext]_endVars => EndInv'
<1> SUFFICES ASSUME ServerInv, EndInv, [ENext]_endVars PROVE EndInv'
  OBVIOUS
<1>1. [Feed!Next]_Feed!vars
  BY ServerStep, PluginStep, StepRefines DEF ServerInv
<1>2. WrittenInv'
  BY <1>1, WrittenStep DEF ServerInv, EndInv
<1>3. CASE UNCHANGED endVars
  BY <1>2, <1>3 DEF endVars, allVars, vars, EndInv, HandedInv, HeaderInv, OldestInv
<1> QED
  BY <1>2, <1>3, ServerKeeps, ClientKeeps DEF EndInv, ENext

(* The inductive invariant of the composition.                             *)
THEOREM EndSafe == ESpec => [](ServerInv /\ EndInv)
  BY EndInit, EndStep, ServerUnaware, ServerSafe, PTL DEF ESpec

(* The highest-write-slot header protects the application: it is never     *)
(* handed an update of a slot older than one accepted before its           *)
(* subscription was answered, for every number of threads and clients.     *)
THEOREM NothingOlderHanded == ESpec => []NothingOlder
<1>1. ServerInv /\ EndInv => NothingOlder
  <2> SUFFICES ASSUME ServerInv, EndInv, NEW d \in 1..Len(delivered), NEW i \in 1..base,
                      updates[i].topic = "account"
               PROVE  updates[i].slot <= updates[delivered[d]].slot
    BY DEF NothingOlder
  <2>1. delivered # <<>>
    BY DEF EndInv, HandedInv
  <2>2. /\ updates[i].slot <= header[App] /\ oldest = header[App]
        /\ updates[delivered[d]].slot >= oldest
    BY <2>1 DEF EndInv, HeaderInv, OldestInv
  <2>3. i \in 1..Len(updates) /\ delivered[d] \in 1..Len(updates)
    <3>1. TypeOK /\ WrittenInv /\ HandedInv /\ base \in Nat /\ base <= Len(updates)
      BY DEF ServerInv, EndInv, HeaderInv
    <3> QED
      BY <3>1, Positions, Typed
  <2>4. updates[i].slot \in Nat /\ updates[delivered[d]].slot \in Nat /\ header[App] \in Nat
    BY <2>3, Typed DEF ServerInv
  <2> QED
    BY <2>2, <2>4
<1> QED
  BY <1>1, EndSafe, PTL

-----------------------------------------------------------------------------
(* The feed as the application sees it: its own entry of got is what it    *)
(* was handed, the others' what they were written.                         *)
seen == [got EXCEPT ![App] = delivered]

(* seen, entry by entry. *)
LEMMA Seen ==
    ASSUME TypeOK
    PROVE  seen[App] = delivered /\ \A s \in Uuid : s # App => seen[s] = got[s]
  BY AppAssumption DEF seen, TypeOK

(* A step of the server is a step of that feed, or a write to App, which   *)
(* the application does not see yet.                                       *)
LEMMA ServerFeeds ==
    ASSUME TypeOK, [Feed!Next]_Feed!vars, delivered' = delivered
    PROVE  [AppFeed!Next]_AppFeed!vars
<1> USE DEF AppFeed!Next, AppFeed!vars
<1>1. CASE UNCHANGED Feed!vars
  BY <1>1 DEF Feed!vars
<1>2. ASSUME NEW n \in Notification, Feed!Publish(n) PROVE AppFeed!Publish(n)
  BY <1>2 DEF Feed!Publish, AppFeed!Publish
<1>3. ASSUME NEW s \in Uuid, Feed!Subscribe(s) PROVE AppFeed!Subscribe(s)
  BY <1>3 DEF Feed!Subscribe, AppFeed!Subscribe, Feed!NoRequest, AppFeed!NoRequest,
              Feed!Request, AppFeed!Request, Feed!Kinds, AppFeed!Kinds,
              Feed!AccountKinds, AppFeed!AccountKinds
<1>4. ASSUME NEW s \in Uuid, NEW i \in 1..Len(updates), Feed!Deliver(s, i), s # App
      PROVE  AppFeed!Deliver(s, i)
  <2>1. /\ Feed!Wants(req[s], updates[i]) /\ Feed!Fresh(s, i)
        /\ got' = [got EXCEPT ![s] = Append(@, i)] /\ UNCHANGED <<updates, req>>
    BY <1>4 DEF Feed!Deliver
  <2>2. AppFeed!Wants(req[s], updates[i])
    BY <2>1 DEF Feed!Wants, AppFeed!Wants, Feed!Kinds, AppFeed!Kinds,
                Feed!AccountKinds, AppFeed!AccountKinds, Feed!TopicOf, AppFeed!TopicOf
  <2>3. AppFeed!Fresh(s, i)
    BY <1>4, <2>1, Seen DEF Feed!Fresh, AppFeed!Fresh, seen
  <2>4. seen' = [seen EXCEPT ![s] = Append(@, i)]
    BY <1>4, <2>1, AppAssumption DEF seen, TypeOK
  <2> QED
    BY <2>1, <2>2, <2>3, <2>4 DEF AppFeed!Deliver, seen
<1>5. ASSUME NEW i \in 1..Len(updates), Feed!Deliver(App, i) PROVE UNCHANGED AppFeed!vars
  <2>1. got' = [got EXCEPT ![App] = Append(@, i)] /\ UNCHANGED <<updates, req>>
    BY <1>5 DEF Feed!Deliver
  <2>2. seen' = seen
    BY <2>1, AppAssumption DEF seen, TypeOK
  <2> QED
    BY <2>1, <2>2 DEF seen
<1>6. \A n : n \in Feed!Notification <=> n \in Notification
  BY DEF Feed!Notification, Notification, Feed!Topics, Topics
<1>7. \A n : n \in AppFeed!Notification <=> n \in Notification
  BY DEF AppFeed!Notification, Notification, AppFeed!Topics, Topics
<1> QED
  BY <1>1, <1>2, <1>3, <1>4, <1>5, <1>6, <1>7 DEF Feed!Next

(* Handing on the next message of the response delivers it: it was written *)
(* after everything the client read before it.                             *)
LEMMA ClientFeeds ==
    ASSUME ServerInv, EndInv, ClientSide
    PROVE  [AppFeed!Next]_AppFeed!vars
<1> USE AppAssumption DEF AppFeed!Next, AppFeed!vars
<1>1. TypeOK /\ WrittenInv /\ HandedInv
  BY DEF ServerInv, EndInv
<1>2. UNCHANGED <<updates, got, req>>
  BY DEF ClientSide, Subscribed, SubscribeError, ReceiveUpdate, EndOfResponse, ClientLoop, allVars, vars
<1>3. CASE delivered' = delivered
  BY <1>2, <1>3
<1>4. CASE ReceiveUpdate /\ delivered' # delivered
  <2> DEFINE m == got[App][read + 1]
  <2>1. read < Len(got[App]) /\ delivered' = Append(delivered, m)
    BY <1>4 DEF ReceiveUpdate
  <2>2. read \in Nat /\ Len(got[App]) \in Nat /\ read + 1 \in 1..Len(got[App])
    BY <1>1, <2>1, Typed DEF HandedInv
  <2>3. m \in 1..Len(updates) /\ Wants(req[App], updates[m])
    BY <1>1, <2>2 DEF WrittenInv
  <2>4. AppFeed!Wants(req[App], updates[m])
    BY <2>3 DEF Wants, AppFeed!Wants, Kinds, AppFeed!Kinds, AccountKinds,
                AppFeed!AccountKinds, TopicOf, AppFeed!TopicOf
  <2>5. \A d \in 1..Len(delivered) : delivered[d] < m
    <3> TAKE d \in 1..Len(delivered)
    <3>1. PICK k \in 1..read : delivered[d] = got[App][k]
      BY <1>1 DEF HandedInv
    <3>2. k \in 1..Len(got[App]) /\ k < read + 1
      BY <2>2
    <3> QED
      BY <1>1, <2>2, <3>1, <3>2 DEF WrittenInv
  <2>6. AppFeed!Fresh(App, m)
    BY <1>1, <2>5, Seen DEF AppFeed!Fresh, seen
  <2> HIDE DEF m
  <2>7. seen' = [seen EXCEPT ![App] = Append(@, m)]
    BY <1>1, <1>2, <2>1 DEF seen, TypeOK
  <2>8. AppFeed!Deliver(App, m)
    BY <1>2, <2>4, <2>6, <2>7 DEF AppFeed!Deliver, seen
  <2> QED
    BY <2>3, <2>8
<1> QED
  BY <1>3, <1>4 DEF ClientSide, Subscribed, SubscribeError, EndOfResponse, ClientLoop

(* The whole path implements the lossy feed.  What the application is      *)
(* handed is a subsequence of the log of accepted updates, of the accounts *)
(* it asked for, in order and nothing twice.                               *)
THEOREM AppIsFed == ESpec => AppFeedSpec
<1>1. EInit => AppFeed!Init
  BY AppAssumption DEF EInit, PInit, Init, AppFeed!Init, NoRequest, AppFeed!NoRequest
<1>2. ServerInv /\ EndInv /\ [ENext]_endVars => [AppFeed!Next]_AppFeed!vars
  <2> SUFFICES ASSUME ServerInv, EndInv, [ENext]_endVars PROVE [AppFeed!Next]_AppFeed!vars
    OBVIOUS
  <2>1. [Feed!Next]_Feed!vars
    BY ServerStep, PluginStep, StepRefines DEF ServerInv
  <2>2. CASE ServerSide \/ UNCHANGED endVars
    <3>1. delivered' = delivered
      BY <2>2 DEF ServerSide, endVars
    <3> QED
      BY <2>1, <3>1, ServerFeeds DEF ServerInv
  <2> QED
    BY <2>2, ClientFeeds DEF ENext
<1> QED
  BY <1>1, <1>2, EndSafe, PTL DEF ESpec, AppFeedSpec, AppFeed!Spec

-----------------------------------------------------------------------------
(* The client against this server.                                         *)

(* The next message of the response is an update the client understands.   *)
LEMMA NextMessage ==
    ASSUME ServerInv, EndInv, read < Len(got[App])
    PROVE  /\ got[App][read + 1] \in 1..Len(updates)
           /\ got[App][read + 1] \in Nat
           /\ AppUpdate(updates[got[App][read + 1]]) \in C!Update
<1>1. TypeOK /\ WrittenInv /\ HandedInv
  BY DEF ServerInv, EndInv
<1>2. read + 1 \in 1..Len(got[App])
  BY <1>1, Typed DEF HandedInv
<1>3. got[App][read + 1] \in 1..Len(updates) /\ got[App][read + 1] \in Nat
  BY <1>1, <1>2, AppAssumption, Typed DEF WrittenInv
<1>4. updates[got[App][read + 1]] \in Notification
  BY <1>3, <1>1, Typed
<1> QED
  BY <1>3, <1>4 DEF AppUpdate, Notification, C!Update

(* Every step of the composition is one of the client's loop or leaves it  *)
(* alone.                                                                  *)
LEMMA ClientStep ==
    ASSUME ServerInv, EndInv, [ENext]_endVars
    PROVE  [C!Next]_C!vars
<1>1. CASE ServerSide \/ UNCHANGED endVars
  BY <1>1 DEF ServerSide, endVars, C!vars, C!cacheVars
<1>2. CASE Subscribed
  <2>1. header[App] \in Slot
    BY AppAssumption DEF ServerInv, TypeOK
  <2> QED
    BY <1>2, <2>1 DEF Subscribed, C!Next
<1>3. CASE ReceiveUpdate
  BY <1>3, NextMessage DEF ReceiveUpdate, C!Next
<1>4. CASE SubscribeError \/ EndOfResponse \/ ClientLoop
  BY <1>4 DEF SubscribeError, EndOfResponse, ClientLoop, C!Next
<1> QED
  BY <1>1, <1>2, <1>3, <1>4 DEF ENext, ClientSide

(* Whatever the validator, the server and its other clients do, the        *)
(* application's client runs consume_account_updates as GeyserConsumer     *)
(* describes it: the header is a slot, every message an update, and        *)
(* nothing follows the end.                                                *)
THEOREM ClientUnaware == ESpec => ConsumerSpec
<1>1. EInit => C!Init
  BY DEF EInit
<1> QED
  BY <1>1, ClientStep, EndSafe, PTL DEF ESpec, ConsumerSpec, C!Spec

-----------------------------------------------------------------------------
(* Hence what GeyserConsumerProofs shows of the loop.  That module is      *)
(* instantiated as EndToEnd instantiates GeyserConsumer; the two copies of *)
(* each definition agree.                                                  *)
CP == INSTANCE GeyserConsumerProofs WITH
        Methods <- {"consume_account_updates"}, Pubkey <- Key, MaxMessages <- MaxUpdates

(* The composition satisfies what the loop's module assumes.               *)
LEMMA ConsumerInstance == CP!ConsumerAssumption
  BY AppAssumption, CapacityAssumption, SlotAssumption, WriteVersionAssumption
  DEF CP!ConsumerAssumption, CP!Consumers, CP!Commands

(* Cardinality is the same in all three modules. *)
LEMMA SameCardinality ==
    \A S : C!Cardinality(S) = Cardinality(S) /\ CP!Cardinality(S) = Cardinality(S)
  BY DEF C!Cardinality, CP!Cardinality, Cardinality

(* The two copies of the initial condition agree. *)
LEMMA SameInit == C!Init => CP!Init
  BY DEF C!Init, CP!Init, C!NoSeqs, CP!NoSeqs, C!NoSeq, CP!NoSeq

(* So do the two copies of the next-state relation. *)
LEMMA SameNext == [C!Next]_C!vars => [CP!Next]_CP!vars
<1> SUFFICES ASSUME [C!Next]_C!vars PROVE [CP!Next]_CP!vars
  OBVIOUS
<1> USE DEF C!cacheVars, CP!cacheVars, C!Return, CP!Return, C!HandOn, CP!HandOn, C!LoopHead,
            CP!LoopHead, C!Consumers, CP!Consumers, C!Commands, CP!Commands, C!Spinning, CP!Spinning
<1>1. UNCHANGED C!vars => UNCHANGED CP!vars
  BY DEF C!vars, CP!vars
<1>2. \A slot : /\ C!RaiseRooted(slot) => CP!RaiseRooted(slot)
                /\ C!Subscribed(slot) => CP!Subscribed(slot)
  BY DEF C!RaiseRooted, CP!RaiseRooted, C!Subscribed, CP!Subscribed
<1>3. /\ C!SetExit => CP!SetExit
      /\ C!DropReceiver => CP!DropReceiver
      /\ C!EndStream => CP!EndStream
      /\ C!CheckExit => CP!CheckExit
      /\ C!Tick => CP!Tick
      /\ C!SubscribeError => CP!SubscribeError
  BY DEF C!SetExit, CP!SetExit, C!DropReceiver, CP!DropReceiver, C!EndStream, CP!EndStream,
         C!CheckExit, CP!CheckExit, C!Tick, CP!Tick, C!SubscribeError, CP!SubscribeError
<1>4. /\ C!ReceiveEnd => CP!ReceiveEnd
      /\ C!ReceiveError => CP!ReceiveError
      /\ C!PassOn => CP!PassOn
  BY DEF C!ReceiveEnd, CP!ReceiveEnd, C!ReceiveError, CP!ReceiveError, C!PassOn, CP!PassOn
<1>5. ASSUME NEW u, C!ProcessUpdate(u) PROVE CP!ProcessUpdate(u)
  <2>1. C!Stale(u) <=> CP!Stale(u)
    BY DEF C!Stale, CP!Stale, C!OldestTolerated, CP!OldestTolerated
  <2>2. /\ C!NoSeqs = CP!NoSeqs
        /\ C!WriteSeq(u) = CP!WriteSeq(u)
    BY DEF C!WriteSeq, CP!WriteSeq, C!NoSeqs, CP!NoSeqs, C!NoSeq, CP!NoSeq
  <2>3. C!OutOfOrder(u) <=> CP!OutOfOrder(u)
    BY <2>2 DEF C!OutOfOrder, CP!OutOfOrder
  <2>4. C!Counted(u) = CP!Counted(u)
    BY <2>2 DEF C!Counted, CP!Counted
  <2>5. C!Evicted(u.slot) = CP!Evicted(u.slot)
    <3>1. C!Cached = CP!Cached
      BY DEF C!Cached, CP!Cached
    <3> QED
      BY <3>1, SameCardinality, Zenon DEF C!Evicted, CP!Evicted
  <2>6. C!Forward(u) => CP!Forward(u)
    BY <2>2, <2>4, <2>5, Zenon DEF C!Forward, CP!Forward
  <2> QED
    BY <1>5, <2>1, <2>3, <2>6 DEF C!ProcessUpdate, CP!ProcessUpdate
<1>6. C!Update = CP!Update
  BY DEF C!Update, CP!Update
<1> QED
  BY <1>1, <1>2, <1>3, <1>4, <1>5, <1>6 DEF C!Next, CP!Next

(* The loop's own inductive invariant holds in the composition. *)
LEMMA ConsumerSafe == ESpec => []CP!ConsumerInv
<1>1. EInit => CP!ConsumerInv
  BY SameInit, ConsumerInstance, CP!InitConsumer DEF EInit
<1>2. ServerInv /\ EndInv /\ CP!ConsumerInv /\ [ENext]_endVars => CP!ConsumerInv'
  BY ClientStep, SameNext, ConsumerInstance, CP!StepConsumer
<1> QED
  BY <1>1, <1>2, EndSafe, PTL DEF ESpec

(* What the client sent to the application is what it was handed, entry by *)
(* entry of the log.                                                       *)
MatchInv ==
    /\ Len(forwarded) = Len(delivered)
    /\ \A d \in 1..Len(delivered) :
          forwarded[d].slot = Handed(d).slot /\ forwarded[d].pubkey = Handed(d).pubkey

(* The two sequences grow together, and the log under them never changes.  *)
LEMMA MatchStep ==
    ASSUME ServerInv, EndInv, CP!ConsumerInv, MatchInv, [ENext]_endVars
    PROVE  MatchInv'
<1>1. TypeOK /\ WrittenInv /\ HandedInv
  BY DEF ServerInv, EndInv
<1>2. /\ forwarded \in Seq([slot : Slot, pubkey : Key, seq : WriteVersion, slot_seq : Nat])
      /\ delivered \in Seq(Nat)
      /\ Len(forwarded) \in Nat
  BY <1>1 DEF HandedInv, CP!ConsumerInv, CP!TypeOK
<1>3. \A d \in 1..Len(delivered) : updates'[delivered[d]] = updates[delivered[d]]
  <2>1. [Feed!Next]_Feed!vars
    BY ServerStep, PluginStep, StepRefines DEF ServerInv
  <2> QED
    BY <1>1, <2>1, LogGrows, Positions
<1>4. CASE UNCHANGED <<forwarded, delivered>>
  BY <1>3, <1>4 DEF MatchInv, Handed
<1>5. CASE ReceiveUpdate
  <2> DEFINE m == got[App][read + 1]
             u == AppUpdate(updates[m])
  <2>1. /\ C!ProcessUpdate(u) /\ UNCHANGED updates
        /\ delivered' = IF forwarded' = forwarded THEN delivered ELSE Append(delivered, m)
    BY <1>5 DEF ReceiveUpdate, allVars, vars
  <2>2. m \in Nat
    BY <1>5, NextMessage DEF ReceiveUpdate
  <2>3. CASE forwarded' = forwarded
    BY <1>4, <2>1, <2>3
  <2>4. CASE forwarded' # forwarded
    <3>1. C!Forward(u)
      BY <2>1, <2>4 DEF C!ProcessUpdate, C!Return, C!cacheVars
    <3> DEFINE f == [slot |-> u.slot, pubkey |-> u.pubkey, seq |-> u.seq,
                     slot_seq |-> C!WriteSeq(u).slot_seq]
    <3>2. forwarded' = Append(forwarded, f)
      BY <2>4, <3>1 DEF C!Forward
    <3>3. f.slot = updates[m].slot /\ f.pubkey = updates[m].pubkey
      BY DEF AppUpdate
    <3>4. delivered' = Append(delivered, m)
      BY <2>1, <2>4
    <3> HIDE DEF f, m
    <3>5. /\ Len(delivered') = Len(delivered) + 1
          /\ \A d \in 1..Len(delivered') :
                delivered'[d] = IF d <= Len(delivered) THEN delivered[d] ELSE m
      BY <1>2, <2>2, <3>4
    <3>6. /\ Len(forwarded') = Len(forwarded) + 1
          /\ \A d \in 1..Len(forwarded') :
                forwarded'[d] = IF d <= Len(forwarded) THEN forwarded[d] ELSE f
      BY <1>2, <3>2
    <3>7. Len(forwarded') = Len(delivered')
      BY <3>5, <3>6 DEF MatchInv
    <3>8. ASSUME NEW d \in 1..Len(delivered')
          PROVE  /\ forwarded'[d].slot = updates[delivered'[d]].slot
                 /\ forwarded'[d].pubkey = updates[delivered'[d]].pubkey
      <4>1. CASE d <= Len(delivered)
        <5>1. d \in 1..Len(delivered) /\ delivered'[d] = delivered[d] /\ forwarded'[d] = forwarded[d]
          BY <1>2, <3>5, <3>6, <3>7, <4>1 DEF MatchInv
        <5> QED
          BY <5>1 DEF MatchInv, Handed
      <4>2. CASE ~(d <= Len(delivered))
        <5>1. delivered'[d] = m /\ forwarded'[d] = f
          BY <3>5, <3>6, <3>7, <4>2 DEF MatchInv
        <5> QED
          BY <3>3, <5>1
      <4> QED
        BY <4>1, <4>2
    <3> QED
      BY <2>1, <3>7, <3>8 DEF MatchInv, Handed
  <2> QED
    BY <2>3, <2>4
<1>6. CASE Subscribed \/ SubscribeError \/ EndOfResponse \/ ClientLoop
  <2>1. UNCHANGED <<forwarded, delivered>>
    BY <1>6 DEF Subscribed, SubscribeError, EndOfResponse, ClientLoop, C!Subscribed,
       C!SubscribeError, C!EndStream, C!CheckExit, C!Tick, C!ReceiveEnd, C!ReceiveError,
       C!Return, C!cacheVars
  <2> QED
    BY <1>4, <2>1
<1>7. CASE ServerSide \/ UNCHANGED endVars
  BY <1>4, <1>7 DEF ServerSide, endVars
<1> QED
  BY <1>5, <1>6, <1>7 DEF ENext, ClientSide

(* The cache's count, taken over what the client sent on, is the count     *)
(* over the validator's log.                                               *)
LEMMA CountsTheLog == CP!ConsumerInv /\ MatchInv => HandedNumbered
<1> SUFFICES ASSUME CP!ConsumerInv, MatchInv, C!FitsCache, NEW d \in 1..Len(delivered)
             PROVE  forwarded[d].slot_seq = Cardinality({e \in 1..(d - 1) : SameWrite(e, d)})
  BY DEF HandedNumbered, MatchInv
<1>1. CP!FitsCache
  BY SameCardinality DEF C!FitsCache, CP!FitsCache
<1>2. Len(forwarded) = Len(delivered) /\ Len(delivered) \in Nat
  BY DEF MatchInv, CP!ConsumerInv, CP!TypeOK
<1>3. forwarded[d].slot_seq = CP!Cardinality({e \in 1..(d - 1) : CP!SameAccount(e, d)})
  BY <1>1, <1>2 DEF CP!ConsumerInv, CP!Numbered
<1>4. \A e \in 1..(d - 1) : e \in 1..Len(delivered)
  BY <1>2
<1>5. \A e \in 1..(d - 1) : CP!SameAccount(e, d) <=> SameWrite(e, d)
  BY <1>4 DEF CP!SameAccount, SameWrite, MatchInv
<1>6. {e \in 1..(d - 1) : CP!SameAccount(e, d)} = {e \in 1..(d - 1) : SameWrite(e, d)}
  BY <1>5
<1> QED
  BY <1>3, <1>6, SameCardinality

(* The slot_seq an application sees counts the validator's writes of the   *)
(* account in the slot that it was handed before, for any number of        *)
(* threads, clients, updates and slots and any losses in between, while    *)
(* the slots fit in the cache.                                             *)
THEOREM NumbersCountTheLog == ESpec => []HandedNumbered
<1>1. EInit => MatchInv
  BY DEF EInit, C!Init, MatchInv
<1> QED
  BY <1>1, MatchStep, CountsTheLog, ConsumerSafe, EndSafe, PTL DEF ESpec

=============================================================================
