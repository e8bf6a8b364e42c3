----------------------------- MODULE GeyserPlugin -----------------------------
(***************************************************************************)
(* GeyserGrpcPlugin (server/src/geyser_grpc_plugin.rs): the validator's    *)
(* callbacks around a GeyserService.  on_load and on_unload are sequences  *)
(* of steps, because the event loop and the server task run between them;  *)
(* update_account is two steps, because several validator threads call it. *)
(* Every step is a step of GeyserService or leaves it alone.               *)
(***************************************************************************)
EXTENDS GeyserService

CONSTANTS
    Thread,                 \* validator threads that deliver notifications
    IgnoreStartupUpdates    \* skip_startup_stream of the configuration

ASSUME IgnoreStartupAssumption == IgnoreStartupUpdates \in BOOLEAN

VARIABLES
    plugin,         \* how far on_load and on_unload have come: "none", "created",
                    \* "aborting", "load_failed", "loaded", "signalled", "shutdown",
                    \* "unloaded" or "panicked"
    server,         \* the tonic server task: "none", "spawned", "serving",
                    \* "bind_failed" or "stopped"
    startup_done,   \* is_startup_completed
    caller,         \* per thread, the account update between its two steps
    refused         \* a callback returned Err: its channel was disconnected

pluginVars == <<plugin, server, startup_done, caller, refused>>
allVars == <<vars, pluginVars>>

NoCall == [topic |-> "none"]

PInit ==
    /\ Init
    /\ plugin = "none"
    /\ server = "none"
    /\ startup_done = FALSE
    /\ caller = [th \in Thread |-> NoCall]
    /\ refused = FALSE

-----------------------------------------------------------------------------
(* on_load.                                                                *)

(* The configuration cannot be read or parsed: nothing was started. *)
OnLoadConfigError ==
    /\ plugin = "none"
    /\ plugin' = "load_failed"
    /\ UNCHANGED <<vars, server, startup_done, caller, refused>>

(* Channels and GeyserService::new: from here on the event loop runs. *)
OnLoadNew ==
    /\ plugin = "none"
    /\ New
    /\ plugin' = "created"
    /\ UNCHANGED <<server, startup_done, caller, refused>>

(* A TLS file cannot be read: `?` returns, and the locals are dropped in   *)
(* reverse order, the service before the senders.                          *)
OnLoadTlsError ==
    /\ plugin = "created"
    /\ DropService
    /\ plugin' = "aborting"
    /\ UNCHANGED <<server, startup_done, caller, refused>>

OnLoadDropSenders ==
    /\ plugin = "aborting"
    /\ DropSenders
    /\ plugin' = "load_failed"
    /\ UNCHANGED <<server, startup_done, caller, refused>>

(* The server future is spawned and on_load returns Ok without waiting for *)
(* it to bind.                                                             *)
OnLoadServe ==
    /\ plugin = "created"
    /\ plugin' = "loaded"
    /\ server' = "spawned"
    /\ UNCHANGED <<vars, startup_done, caller, refused>>

(* serve_with_shutdown, on the runtime. *)
ServerBind ==
    /\ server = "spawned"
    /\ svc
    /\ server' = "serving"
    /\ UNCHANGED <<vars, plugin, startup_done, caller, refused>>

(* Fault: the service outlives the failed server. *)
ServerBindErrorKept ==
    /\ server = "spawned"
    /\ server' = "bind_failed"
    /\ UNCHANGED <<vars, plugin, startup_done, caller, refused>>

(* The address cannot be bound: the future ends with an error nobody reads *)
(* and drops the service and server_exit_rx.                               *)
ServerBindError ==
    /\ server = "spawned"
    /\ DropService
    /\ server' = "bind_failed"
    /\ UNCHANGED <<plugin, startup_done, caller, refused>>

-----------------------------------------------------------------------------
(* on_unload.  The validator calls it with no other callback in progress.  *)

OnUnload ==
    /\ plugin = "loaded"
    /\ \A th \in Thread : caller[th] = NoCall
    /\ plugin' = IF server = "bind_failed" THEN "panicked" ELSE "signalled"
    /\ UNCHANGED <<vars, server, startup_done, caller, refused>>

(* The server ends after the exit signal ... *)
ServerExit ==
    /\ plugin = "signalled"
    /\ server = "serving"
    /\ DropService
    /\ server' = "stopped"
    /\ UNCHANGED <<plugin, startup_done, caller, refused>>

(* ... or with the runtime, which is shut down without waiting for it. *)
ShutdownBackground ==
    /\ plugin = "signalled"
    /\ plugin' = "shutdown"
    /\ IF svc THEN DropService ELSE UNCHANGED vars
    /\ server' = "stopped"
    /\ UNCHANGED <<startup_done, caller, refused>>

(* Fault: another owner keeps the senders. *)
DropPluginDataShared ==
    /\ plugin \in {"shutdown", "panicked"}
    /\ plugin' = IF plugin = "shutdown" THEN "unloaded" ELSE plugin
    /\ UNCHANGED <<vars, server, startup_done, caller, refused>>

(* PluginData goes out of scope, also when the call panicked. *)
DropPluginData ==
    /\ plugin \in {"shutdown", "panicked"}
    /\ DropSenders
    /\ plugin' = IF plugin = "shutdown" THEN "unloaded" ELSE plugin
    /\ UNCHANGED <<server, startup_done, caller, refused>>

-----------------------------------------------------------------------------
(* Notifications.                                                          *)

NotifyEndOfStartup ==
    /\ plugin = "loaded"
    /\ startup_done' = TRUE
    /\ UNCHANGED <<vars, plugin, server, caller, refused>>

Pending == {th \in Thread : caller[th] # NoCall}

(* MaxUpdates bounds the updates that are accepted or on their way. *)
Room == Len(updates) + Cardinality(Pending) < MaxUpdates

(* Fault: a full channel grows. *)
TrySendUpdateUnbounded(n) ==
    /\ loop = "running"
    /\ refused' = refused
    /\ updates' = Append(updates, n)
    /\ chan' = [chan EXCEPT ![n.topic] = Append(@, Len(updates) + 1)]
    /\ UNCHANGED <<connected, highest_write_slot, svc, loopVars, subscriptionVars>>

(* try_send: Ok, Full (the notification is skipped) or Disconnected.  On a *)
(* rendezvous channel whether the loop is blocked just now is a matter of  *)
(* timing.                                                                 *)
TrySendUpdate(n) ==
    IF loop = "exited"
    THEN refused' = TRUE /\ UNCHANGED vars
    ELSE /\ refused' = refused
         /\ \/ Publish(n)
            \/ (~Accepts(n.topic) \/ Rendezvous(n.topic)) /\ UNCHANGED vars

(* update_account: the startup gate, then fetch_max ... *)
UpdateAccount(th, n) ==
    /\ plugin = "loaded"
    /\ caller[th] = NoCall
    /\ Room
    /\ n.topic = "account"
    /\ ~(IgnoreStartupUpdates /\ ~startup_done)
    /\ FetchMax(n.slot)
    /\ caller' = [caller EXCEPT ![th] = n]
    /\ UNCHANGED <<plugin, server, startup_done, refused>>

(* ... and then, with other threads in between, the send. *)
UpdateAccountSend(th) ==
    /\ caller[th] # NoCall
    /\ TrySendUpdate(caller[th])
    /\ caller' = [caller EXCEPT ![th] = NoCall]
    /\ UNCHANGED <<plugin, server, startup_done>>

Notify(n, topic) ==
    /\ plugin = "loaded"
    /\ Room
    /\ n.topic = topic
    /\ TrySendUpdate(n)
    /\ UNCHANGED <<plugin, server, startup_done, caller>>

UpdateSlotStatus(n) == Notify(n, "slot")

NotifyEntry(n) == Notify(n, "slot_entry")

NotifyTransaction(n) == Notify(n, "transaction")

NotifyBlockMetadata(n) == Notify(n, "block")

-----------------------------------------------------------------------------
(* The service's own actions.  RPCs arrive once the server is bound. *)
ServiceStep ==
    /\ \/ EventLoop
       \/ \E s \in Uuid : Client(s) /\ (stream[s] = "idle" => server = "serving")
    /\ UNCHANGED pluginVars

Lifecycle ==
    \/ OnLoadConfigError \/ OnLoadNew \/ OnLoadTlsError \/ OnLoadDropSenders \/ OnLoadServe
    \/ ServerBind \/ ServerBindError
    \/ OnUnload \/ ServerExit \/ ShutdownBackground \/ DropPluginData

Callback ==
    \/ NotifyEndOfStartup
    \/ \E th \in Thread : UpdateAccountSend(th) \/ \E n \in Notifications : UpdateAccount(th, n)
    \/ \E n \in Notifications :
          UpdateSlotStatus(n) \/ NotifyEntry(n) \/ NotifyTransaction(n) \/ NotifyBlockMetadata(n)

PNext == ServiceStep \/ Lifecycle \/ Callback

PSpec == PInit /\ [][PNext]_allVars

(* The threads of the service run, on_load and on_unload come to their end *)
(* once called, and a panic unwinds.                                       *)
PFairness ==
    /\ Fairness
    /\ WF_allVars(OnLoadDropSenders)
    /\ WF_allVars(ShutdownBackground)
    /\ WF_allVars(DropPluginData)

PFairSpec == PSpec /\ PFairness

-----------------------------------------------------------------------------
(* Properties.                                                             *)

(* The header promises the highest slot seen so far: when a response is    *)
(* built, no account update that was already accepted has a higher slot,   *)
(* although other threads are between their fetch_max and their send.      *)
HeaderCovers ==
    [][\A s \in Uuid : stream[s] = "requested" /\ stream'[s] = "open" =>
          \A i \in 1..Len(updates) :
             updates[i].topic = "account" => updates[i].slot <= header'[s]]_allVars

(* No client, request, disconnect or full buffer makes a validator         *)
(* callback fail: that takes a server that could not bind.                 *)
RefusedOnlyUnserved == refused => server = "bind_failed"

(* An on_load that failed after starting the event loop, an unload and a   *)
(* panicking unload all stop the event-loop thread.                        *)
NoLoopLeft ==
    plugin \in {"aborting", "load_failed", "signalled", "panicked"} /\ loop = "running"
        ~> loop = "exited"

(* A server that could not bind does not go unnoticed: on_load has already *)
(* returned Ok and nobody reads the error, but with the future the last    *)
(* senders of the subscription channels go, the event loop returns and     *)
(* every later callback fails (on_load, event_loop).  Otherwise a          *)
(* validator would feed for ever a plugin nobody can subscribe to.         *)
BindFailureSurfaces == server = "bind_failed" ~> loop = "exited"

(* Nothing of the service outlives the plugin: when on_load has failed or  *)
(* on_unload has returned, at whatever point either was interrupted and    *)
(* whether or not the server ever bound, both the senders of the update    *)
(* channels and the server's handle are gone, so the loop has to return.   *)
(* An unload that panics has lost the server before (on_load, on_unload).  *)
UnloadReleases ==
    /\ plugin \in {"load_failed", "unloaded"} => ~connected /\ ~svc
    /\ plugin = "panicked" => ~svc

(* The expect in on_unload: the termination signal can always be sent. *)
UnloadNeverPanics == plugin # "panicked"

(* Seen from the service, the plugin is one of the environments that       *)
(* GeyserService allows, so everything shown there holds here.             *)
ServiceSpec == Spec

=============================================================================
