-------------------------- MODULE GeyserPluginProofs --------------------------
(***************************************************************************)
(* The plugin's callbacks around the service, for every number of          *)
(* validator threads, clients and updates.                                 *)
(***************************************************************************)
EXTENDS GeyserPlugin, GeyserServiceProofs

USE DEF loopVars, upstreamVars, subscriptionVars, pluginVars

(* Each try_send of a callback is a step of the service's environment.     *)
LEMMA SendIsServiceStep ==
    ASSUME NEW n \in Notifications, TrySendUpdate(n)
    PROVE  [Next]_vars
  BY DEF TrySendUpdate, Next, Upstream

(* The update a thread carries from fetch_max to its send is one of the    *)
(* validator's.                                                            *)
CallerInv == \A th \in Thread : caller[th] \in Notifications \cup {NoCall}

(* Only update_account and its second step touch caller.                   *)
LEMMA CallerStep == CallerInv /\ [PNext]_allVars => CallerInv'
<1> SUFFICES ASSUME CallerInv, [PNext]_allVars PROVE CallerInv'
  OBVIOUS
<1>1. CASE UNCHANGED caller
  BY <1>1 DEF CallerInv
<1>2. ASSUME NEW th \in Thread, NEW n \in Notifications, UpdateAccount(th, n)
      PROVE  CallerInv'
  BY <1>2 DEF CallerInv, UpdateAccount
<1>3. ASSUME NEW th \in Thread, UpdateAccountSend(th)
      PROVE  CallerInv'
  BY <1>3 DEF CallerInv, UpdateAccountSend
<1>4. \/ UNCHANGED caller
      \/ \E th \in Thread : UpdateAccountSend(th) \/ \E n \in Notifications : UpdateAccount(th, n)
  BY DEF PNext, allVars, ServiceStep, Lifecycle, Callback, OnLoadConfigError, OnLoadNew,
         OnLoadTlsError, OnLoadDropSenders, OnLoadServe, ServerBind, ServerBindError, OnUnload,
         ServerExit, ShutdownBackground, DropPluginData, NotifyEndOfStartup, UpdateSlotStatus,
         NotifyEntry, NotifyTransaction, NotifyBlockMetadata, Notify
<1> QED
  BY <1>1, <1>2, <1>3, <1>4

(* Every step of the plugin is a step the service allows, or none of its   *)
(* business.                                                               *)
LEMMA PluginStep == CallerInv /\ [PNext]_allVars => [Next]_vars
<1> SUFFICES ASSUME CallerInv, [PNext]_allVars PROVE [Next]_vars
  OBVIOUS
<1>1. CASE UNCHANGED allVars
  BY <1>1 DEF allVars
<1>2. CASE ServiceStep
  BY <1>2 DEF ServiceStep, Next
<1>3. CASE Lifecycle
  <2>1. \/ New \/ DropService \/ DropSenders
        \/ UNCHANGED vars
    BY <1>3 DEF Lifecycle, OnLoadConfigError, OnLoadNew, OnLoadTlsError, OnLoadDropSenders,
                OnLoadServe, ServerBind, ServerBindError, OnUnload, ServerExit,
                ShutdownBackground, DropPluginData
  <2> QED
    BY <2>1 DEF Next, Upstream
<1>4. CASE NotifyEndOfStartup
  BY <1>4 DEF NotifyEndOfStartup
<1>5. ASSUME NEW th \in Thread, NEW n \in Notifications, UpdateAccount(th, n)
      PROVE  Next
  <2>1. FetchMax(n.slot) /\ n.slot \in Slot
    BY <1>5, NotificationsAssumption DEF UpdateAccount, Notification
  <2> QED
    BY <2>1 DEF Next, Upstream
<1>6. ASSUME NEW th \in Thread, UpdateAccountSend(th) PROVE [Next]_vars
  <2>1. caller[th] \in Notifications /\ TrySendUpdate(caller[th])
    BY <1>6 DEF UpdateAccountSend, CallerInv
  <2> QED
    BY <2>1, SendIsServiceStep
<1>7. ASSUME NEW n \in Notifications,
             UpdateSlotStatus(n) \/ NotifyEntry(n) \/ NotifyTransaction(n) \/ NotifyBlockMetadata(n)
      PROVE  [Next]_vars
  <2>1. TrySendUpdate(n)
    BY <1>7 DEF UpdateSlotStatus, NotifyEntry, NotifyTransaction, NotifyBlockMetadata, Notify
  <2> QED
    BY <2>1, SendIsServiceStep
<1> QED
  BY <1>1, <1>2, <1>3, <1>4, <1>5, <1>6, <1>7 DEF PNext, Callback

(* Around any number of validator threads, loads, bind failures and        *)
(* unloads, the service behaves as its own specification says.             *)
THEOREM PluginRunsService == PSpec => ServiceSpec
<1>1. PInit => Init /\ CallerInv
  BY DEF PInit, CallerInv
<1> QED
  BY <1>1, CallerStep, PluginStep, PTL DEF PSpec, ServiceSpec, Spec

(* Hence clients of a loaded plugin are sent a subsequence of the accepted *)
(* updates that they asked for.                                            *)
THEOREM PluginImplementsFeed == PSpec => FeedSpec
  BY PluginRunsService, ImplementsFeed, PTL DEF ServiceSpec

-----------------------------------------------------------------------------
(* The highest-write-slot header.                                          *)

(* fetch_max comes before the send: what is accepted, and what a thread is *)
(* about to send, is covered already.                                      *)
CoveredInv ==
    /\ \A i \in 1..Len(updates) :
          updates[i].topic = "account" => updates[i].slot <= highest_write_slot
    /\ \A th \in Thread : caller[th] # NoCall =>
          caller[th].topic = "account" /\ caller[th].slot <= highest_write_slot

(* The event loop and the clients touch neither the log nor the slot.      *)
LEMMA ServiceFrame == ServiceStep => UNCHANGED <<updates, highest_write_slot, caller>>
<1>1. EventLoop => UNCHANGED <<updates, highest_write_slot>>
  BY DEF EventLoop, SendHeartbeats, HandleSubscriptionAdded, HandleSubscriptionClosed,
         HandleAccountUpdateEvent, HandleSlotUpdateEvent, HandleSlotEntryUpdateEvent,
         HandleBlockUpdateEvent, HandleTransactionUpdateEvent, Broadcast, Receive,
         UpdateRecvError, AddedRecvError, ClosedRecvError, Return
<1>2. ASSUME NEW s \in Uuid, Client(s) PROVE UNCHANGED <<updates, highest_write_slot>>
  BY <1>2 DEF Client, Unauthenticated, Subscribe, SubscribeAccountUpdates,
         SubscribeProgramUpdates, SubscribePartialAccountUpdates, SubscribeSlotUpdates,
         SubscribeSlotEntryUpdates, SubscribeTransactionUpdates, SubscribeBlockUpdates,
         AddSubscription, Fail, Respond, PollNext, DropStream, EndOfStream, BeginDrop,
         DropReceiver, CloseTask, AbortTask
<1> QED
  BY <1>1, <1>2 DEF ServiceStep

(* An update that is accepted was covered before, or is of a topic the     *)
(* header does not speak of.                                               *)
LEMMA SendCovered ==
    ASSUME TypeOK, CoveredInv, NEW n \in Notifications, TrySendUpdate(n),
           n.topic = "account" => n.slot <= highest_write_slot
    PROVE  /\ highest_write_slot' = highest_write_slot
           /\ \A i \in 1..Len(updates') :
                 updates'[i].topic = "account" => updates'[i].slot <= highest_write_slot
<1>1. CASE UNCHANGED vars
  BY <1>1 DEF vars, CoveredInv
<1>2. CASE Publish(n)
  <2>1. updates \in Seq(Notification) /\ n \in Notification
    BY NotificationsAssumption DEF TypeOK
  <2>2. updates' = Append(updates, n) /\ highest_write_slot' = highest_write_slot
    BY <1>2 DEF Publish
  <2>3. Len(updates') = Len(updates) + 1 /\ \A i \in 1..Len(updates') :
          updates'[i] = IF i <= Len(updates) THEN updates[i] ELSE n
    BY <2>1, <2>2
  <2>4. \A i \in 1..Len(updates') : i <= Len(updates) => i \in 1..Len(updates)
    BY <2>1
  <2> QED
    BY <2>2, <2>3, <2>4 DEF CoveredInv
<1> QED
  BY <1>1, <1>2 DEF TrySendUpdate

(* Every step keeps the log and the threads covered.                       *)
LEMMA CoveredStep == TypeOK /\ CallerInv /\ CoveredInv /\ [PNext]_allVars => CoveredInv'
<1> SUFFICES ASSUME TypeOK, CallerInv, CoveredInv, [PNext]_allVars PROVE CoveredInv'
  OBVIOUS
<1>1. CASE UNCHANGED <<updates, highest_write_slot, caller>>
  BY <1>1 DEF CoveredInv
<1>2. CASE ServiceStep
  BY <1>1, <1>2, ServiceFrame
<1>3. CASE Lifecycle \/ NotifyEndOfStartup \/ UNCHANGED allVars
  <2>1. UNCHANGED <<updates, highest_write_slot, caller>>
    BY <1>3 DEF Lifecycle, OnLoadConfigError, OnLoadNew, OnLoadTlsError, OnLoadDropSenders,
                OnLoadServe, ServerBind, ServerBindError, OnUnload, ServerExit,
                ShutdownBackground, DropPluginData, NotifyEndOfStartup, New, DropService,
                DropSenders, vars, allVars
  <2> QED
    BY <1>1, <2>1
<1>4. ASSUME NEW th \in Thread, NEW n \in Notifications, UpdateAccount(th, n)
      PROVE  CoveredInv'
  <2>0. \A x \in Notification : x.slot \in Nat
    BY SlotAssumption DEF Notification
  <2>1. /\ n.slot \in Nat /\ highest_write_slot \in Nat
        /\ \A i \in 1..Len(updates) : updates[i].slot \in Nat
        /\ \A x \in Thread : caller[x] # NoCall => caller[x].slot \in Nat
    <3>1. updates \in Seq(Notification) /\ highest_write_slot \in Slot
      BY DEF TypeOK
    <3>2. \A i \in 1..Len(updates) : updates[i] \in Notification
      BY <3>1
    <3> QED
      BY <2>0, <3>1, <3>2, NotificationsAssumption, SlotAssumption DEF CallerInv
  <2>2. /\ n.topic = "account"
        /\ highest_write_slot' = IF n.slot > highest_write_slot THEN n.slot ELSE highest_write_slot
        /\ updates' = updates
        /\ caller' = [caller EXCEPT ![th] = n]
    BY <1>4 DEF UpdateAccount, FetchMax
  <2>3. n.slot <= highest_write_slot' /\ highest_write_slot <= highest_write_slot'
        /\ highest_write_slot' \in Nat
    BY <2>1, <2>2
  <2>4. \A i \in 1..Len(updates') :
          updates'[i].topic = "account" => updates'[i].slot <= highest_write_slot'
    BY <2>1, <2>2, <2>3 DEF CoveredInv
  <2>5. ASSUME NEW x \in Thread, caller'[x] # NoCall
        PROVE  caller'[x].topic = "account" /\ caller'[x].slot <= highest_write_slot'
    <3>1. caller'[x] = n \/ caller'[x] = caller[x]
      BY <2>2
    <3> QED
      BY <3>1, <2>1, <2>2, <2>3, <2>5 DEF CoveredInv
  <2> QED
    BY <2>4, <2>5 DEF CoveredInv
<1>5. ASSUME NEW th \in Thread, UpdateAccountSend(th) PROVE CoveredInv'
  <2>1. /\ caller[th] # NoCall /\ caller[th] \in Notifications
        /\ TrySendUpdate(caller[th])
        /\ caller' = [caller EXCEPT ![th] = NoCall]
    BY <1>5 DEF UpdateAccountSend, CallerInv
  <2>2. caller[th].topic = "account" => caller[th].slot <= highest_write_slot
    BY <2>1 DEF CoveredInv
  <2>3. /\ highest_write_slot' = highest_write_slot
        /\ \A i \in 1..Len(updates') :
              updates'[i].topic = "account" => updates'[i].slot <= highest_write_slot
    BY <2>1, <2>2, SendCovered
  <2>4. \A x \in Thread : caller'[x] # NoCall => caller'[x] = caller[x]
    BY <2>1
  <2> QED
    BY <2>3, <2>4 DEF CoveredInv
<1>6. ASSUME NEW n \in Notifications,
             UpdateSlotStatus(n) \/ NotifyEntry(n) \/ NotifyTransaction(n) \/ NotifyBlockMetadata(n)
      PROVE  CoveredInv'
  <2>1. TrySendUpdate(n) /\ n.topic # "account" /\ caller' = caller
    BY <1>6 DEF UpdateSlotStatus, NotifyEntry, NotifyTransaction, NotifyBlockMetadata, Notify
  <2>2. /\ highest_write_slot' = highest_write_slot
        /\ \A i \in 1..Len(updates') :
              updates'[i].topic = "account" => updates'[i].slot <= highest_write_slot
    BY <2>1, SendCovered
  <2> QED
    BY <2>1, <2>2 DEF CoveredInv
<1> QED
  BY <1>2, <1>3, <1>4, <1>5, <1>6 DEF PNext, Callback

(* The header a step writes is the slot of that moment.                    *)
LEMMA HeaderIsSlot ==
    ASSUME TypeOK, [PNext]_allVars, NEW s \in Uuid,
           stream[s] = "requested", stream'[s] = "open"
    PROVE  header'[s] = highest_write_slot
<1>1. stream' # stream
  OBVIOUS
<1>2. \E x \in Uuid : Client(x)
  BY <1>1 DEF PNext, allVars, vars, ServiceStep, Lifecycle, Callback, OnLoadConfigError, OnLoadNew,
         OnLoadTlsError, OnLoadDropSenders, OnLoadServe, ServerBind, ServerBindError, OnUnload,
         ServerExit, ShutdownBackground, DropPluginData, NotifyEndOfStartup, UpdateSlotStatus,
         NotifyEntry, NotifyTransaction, NotifyBlockMetadata, Notify, UpdateAccount,
         UpdateAccountSend, TrySendUpdate, Publish, FetchMax, New, DropService, DropSenders,
         EventLoop, SendHeartbeats, HandleSubscriptionAdded, HandleSubscriptionClosed,
         HandleAccountUpdateEvent, HandleSlotUpdateEvent, HandleSlotEntryUpdateEvent,
         HandleBlockUpdateEvent, HandleTransactionUpdateEvent, Broadcast, Receive,
         UpdateRecvError, AddedRecvError, ClosedRecvError, Return
<1>3. PICK x \in Uuid : Client(x)
  BY <1>2
<1>4. Respond(x)
  BY <1>1, <1>3 DEF TypeOK, Client, Unauthenticated, Subscribe, SubscribeAccountUpdates,
         SubscribeProgramUpdates, SubscribePartialAccountUpdates, SubscribeSlotUpdates,
         SubscribeSlotEntryUpdates, SubscribeTransactionUpdates, SubscribeBlockUpdates,
         AddSubscription, Fail, PollNext, DropStream, EndOfStream, BeginDrop,
         DropReceiver, CloseTask, AbortTask
<1> QED
  BY <1>4 DEF Respond, TypeOK

(* The slot in a response header is at least the slot of every account     *)
(* update accepted by then, with any number of validator threads between   *)
(* their fetch_max and their send (update_account).                        *)
THEOREM HeaderIsCurrent == PSpec => HeaderCovers
<1>1. PInit => CallerInv /\ CoveredInv
  BY DEF PInit, Init, CallerInv, CoveredInv
<1>2. TypeOK /\ CoveredInv /\ [PNext]_allVars =>
        [\A s \in Uuid : stream[s] = "requested" /\ stream'[s] = "open" =>
            \A i \in 1..Len(updates) :
               updates[i].topic = "account" => updates[i].slot <= header'[s]]_allVars
  BY HeaderIsSlot DEF CoveredInv
<1> QED
  BY <1>1, <1>2, CallerStep, CoveredStep, PluginRunsService, TypeCorrect, PTL
     DEF PSpec, ServiceSpec, HeaderCovers

-----------------------------------------------------------------------------
(* Callbacks that fail.                                                    *)

(* What keeps the event loop alive at each stage of the plugin's life: it  *)
(* returns only when the senders or the service are dropped, and while the *)
(* plugin is loaded only a failed bind drops the service.                  *)
LifeInv ==
    /\ plugin = "none" => loop = "none"
    /\ plugin = "created" => connected /\ svc /\ loop = "running"
    /\ plugin \in {"none", "created", "aborting", "load_failed"} => server = "none"
    /\ plugin = "loaded" =>
          /\ connected
          /\ loop \in {"running", "exited"}
          /\ server \in {"spawned", "serving", "bind_failed"}
          /\ svc \/ server = "bind_failed"
          /\ loop = "exited" => server = "bind_failed"
    /\ refused => server = "bind_failed" /\ plugin \in {"loaded", "panicked"}
    /\ \A th \in Thread : caller[th] # NoCall => plugin = "loaded"

(* The event loop and the clients leave connected and svc alone, and the   *)
(* loop returns only if one of them is down.                               *)
LEMMA LoopFrame ==
    ServiceStep => /\ UNCHANGED <<connected, svc, plugin, server, caller, refused>>
                   /\ loop' = loop \/ (loop = "running" /\ loop' = "exited" /\ ~(connected /\ svc))
<1>1. ASSUME EventLoop
      PROVE  /\ UNCHANGED <<connected, svc>>
             /\ loop' = loop \/ (loop = "running" /\ loop' = "exited" /\ ~(connected /\ svc))
  BY <1>1 DEF EventLoop, SendHeartbeats, HandleSubscriptionAdded, HandleSubscriptionClosed,
         HandleAccountUpdateEvent, HandleSlotUpdateEvent, HandleSlotEntryUpdateEvent,
         HandleBlockUpdateEvent, HandleTransactionUpdateEvent, Broadcast, Receive,
         UpdateRecvError, AddedRecvError, ClosedRecvError, ServiceDropped, Return
<1>2. ASSUME NEW s \in Uuid, Client(s) PROVE UNCHANGED <<connected, svc, loop>>
  BY <1>2 DEF Client, Unauthenticated, Subscribe, SubscribeAccountUpdates,
         SubscribeProgramUpdates, SubscribePartialAccountUpdates, SubscribeSlotUpdates,
         SubscribeSlotEntryUpdates, SubscribeTransactionUpdates, SubscribeBlockUpdates,
         AddSubscription, Fail, Respond, PollNext, DropStream, EndOfStream, BeginDrop,
         DropReceiver, CloseTask, AbortTask
<1> QED
  BY <1>1, <1>2 DEF ServiceStep

(* A send changes nothing of the plugin's life but refused, and that only  *)
(* if the loop has returned.                                               *)
LEMMA SendLife ==
    ASSUME NEW n, TrySendUpdate(n)
    PROVE  /\ UNCHANGED <<connected, svc, loop>>
           /\ refused' = refused \/ (refused' = TRUE /\ loop = "exited")
  BY DEF TrySendUpdate, Publish, vars

(* Every step keeps the stages in order.                                   *)
LEMMA LifeStep == LifeInv /\ [PNext]_allVars => LifeInv'
<1> SUFFICES ASSUME LifeInv, [PNext]_allVars PROVE LifeInv'
  OBVIOUS
<1>1. CASE ServiceStep
  BY <1>1, LoopFrame DEF LifeInv
<1>2. CASE UNCHANGED allVars
  BY <1>2 DEF LifeInv, allVars, vars
<1>3. CASE Lifecycle
  <2> USE <1>3 DEF LifeInv, vars
  <2>1. CASE OnLoadConfigError
    BY <2>1 DEF OnLoadConfigError
  <2>2. CASE OnLoadNew
    BY <2>2 DEF OnLoadNew, New
  <2>3. CASE OnLoadTlsError
    BY <2>3 DEF OnLoadTlsError, DropService
  <2>4. CASE OnLoadDropSenders
    BY <2>4 DEF OnLoadDropSenders, DropSenders
  <2>5. CASE OnLoadServe
    BY <2>5 DEF OnLoadServe
  <2>6. CASE ServerBind
    BY <2>6 DEF ServerBind
  <2>7. CASE ServerBindError
    BY <2>7 DEF ServerBindError, DropService
  <2>8. CASE OnUnload
    BY <2>8 DEF OnUnload
  <2>9. CASE ServerExit
    BY <2>9 DEF ServerExit, DropService
  <2>10. CASE ShutdownBackground
    BY <2>10 DEF ShutdownBackground, DropService
  <2>11. CASE DropPluginData
    BY <2>11 DEF DropPluginData, DropSenders
  <2> QED
    BY <2>1, <2>2, <2>3, <2>4, <2>5, <2>6, <2>7, <2>8, <2>9, <2>10, <2>11 DEF Lifecycle
<1>4. CASE NotifyEndOfStartup
  BY <1>4 DEF NotifyEndOfStartup, LifeInv, vars
<1>5. ASSUME NEW th \in Thread, NEW n \in Notifications, UpdateAccount(th, n)
      PROVE  LifeInv'
  BY <1>5 DEF UpdateAccount, FetchMax, LifeInv
<1>6. ASSUME NEW th \in Thread, UpdateAccountSend(th) PROVE LifeInv'
  <2>1. /\ plugin = "loaded"
        /\ TrySendUpdate(caller[th])
        /\ UNCHANGED <<plugin, server>>
        /\ \A x \in Thread : caller'[x] # NoCall => plugin = "loaded"
    BY <1>6 DEF UpdateAccountSend, LifeInv
  <2> QED
    BY <2>1, SendLife DEF LifeInv
<1>7. ASSUME NEW n \in Notifications,
             UpdateSlotStatus(n) \/ NotifyEntry(n) \/ NotifyTransaction(n) \/ NotifyBlockMetadata(n)
      PROVE  LifeInv'
  <2>1. plugin = "loaded" /\ TrySendUpdate(n) /\ UNCHANGED <<plugin, server, caller>>
    BY <1>7 DEF UpdateSlotStatus, NotifyEntry, NotifyTransaction, NotifyBlockMetadata, Notify
  <2> QED
    BY <2>1, SendLife DEF LifeInv
<1> QED
  BY <1>1, <1>2, <1>3, <1>4, <1>5, <1>6, <1>7 DEF PNext, Callback

(* Whatever clients do, a callback of a loaded plugin is refused by its    *)
(* channel only after a failed bind (try_send in the callbacks, event_loop *)
(* returning on RecvError).                                                *)
THEOREM RefusalNeedsBindFailure == PSpec => []RefusedOnlyUnserved
<1>1. PInit => LifeInv
  BY DEF PInit, Init, LifeInv
<1>2. LifeInv => RefusedOnlyUnserved
  BY DEF LifeInv, RefusedOnlyUnserved
<1> QED
  BY <1>1, <1>2, LifeStep, PTL DEF PSpec

-----------------------------------------------------------------------------
(* What the plugin releases.                                               *)

(* Who holds the service and the senders at each stage.  The server's      *)
(* handle is gone once its task has ended, however it ended, and with the  *)
(* runtime at the latest; the senders go with the locals of a failed       *)
(* on_load or with PluginData.                                             *)
HeldInv ==
    /\ plugin = "none" => ~connected /\ ~svc /\ loop = "none"
    /\ plugin \in {"none", "created", "aborting", "load_failed"} => server = "none"
    /\ plugin \in {"created", "aborting", "shutdown"} => connected
    /\ plugin \in {"aborting", "load_failed", "shutdown", "unloaded", "panicked"} => ~svc
    /\ plugin \in {"load_failed", "unloaded"} => ~connected
    /\ server \in {"bind_failed", "stopped"} => ~svc
    /\ plugin \in {"loaded", "signalled"} => connected
    /\ plugin = "panicked" => server = "bind_failed"
    /\ plugin \in {"shutdown", "unloaded"} => server = "stopped"

(* Callbacks and the service itself hold on to what the stage says. *)
LEMMA CallbackFrame == Callback => UNCHANGED <<connected, svc, loop, plugin, server>>
  BY DEF Callback, NotifyEndOfStartup, UpdateAccount, FetchMax, UpdateAccountSend, TrySendUpdate,
         Publish, UpdateSlotStatus, NotifyEntry, NotifyTransaction, NotifyBlockMetadata, Notify, vars

(* Every way from stage to stage releases what the next one must not hold. *)
LEMMA HeldStep == HeldInv /\ [PNext]_allVars => HeldInv'
<1> SUFFICES ASSUME HeldInv, [PNext]_allVars PROVE HeldInv'
  OBVIOUS
<1>1. CASE UNCHANGED <<connected, svc, loop, plugin, server>>
  BY <1>1 DEF HeldInv
<1>2. CASE ServiceStep
  BY <1>2, LoopFrame DEF HeldInv
<1>3. CASE Lifecycle
  <2> USE <1>3 DEF HeldInv, vars
  <2>1. CASE OnLoadConfigError \/ OnLoadServe \/ ServerBind \/ OnUnload
    BY <2>1 DEF OnLoadConfigError, OnLoadServe, ServerBind, OnUnload
  <2>2. CASE OnLoadNew
    BY <2>2 DEF OnLoadNew, New
  <2>3. CASE OnLoadTlsError \/ ServerBindError \/ ServerExit
    BY <2>3 DEF OnLoadTlsError, ServerBindError, ServerExit, DropService
  <2>4. CASE OnLoadDropSenders \/ DropPluginData
    BY <2>4 DEF OnLoadDropSenders, DropPluginData, DropSenders
  <2>5. CASE ShutdownBackground
    BY <2>5 DEF ShutdownBackground, DropService
  <2> QED
    BY <2>1, <2>2, <2>3, <2>4, <2>5 DEF Lifecycle
<1> QED
  BY <1>1, <1>2, <1>3, CallbackFrame DEF PNext, allVars, vars

(* After a failed on_load and after on_unload nothing holds the service or *)
(* the update channels, and a panicking on_unload finds the server already *)
(* gone: the safety half of NoLoopLeft, for any interleaving of the bind,  *)
(* the exit signal and the shutdown of the runtime.                        *)
THEOREM NothingHeld == PSpec => []UnloadReleases
<1>1. PInit => HeldInv
  BY DEF PInit, Init, HeldInv
<1>2. HeldInv => UnloadReleases
  BY DEF HeldInv, UnloadReleases
<1> QED
  BY <1>1, <1>2, HeldStep, PTL DEF PSpec

=============================================================================
