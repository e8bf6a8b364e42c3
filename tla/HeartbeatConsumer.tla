--------------------------- MODULE HeartbeatConsumer ---------------------------
(***************************************************************************)
(* GeyserConsumer::consume_partial_account_updates                         *)
(* (client/src/geyser_consumer.rs): a client that asks the server for its  *)
(* heartbeat interval, subscribes, and gives up when the server has been   *)
(* silent for too many heartbeats.  Time is discrete; what process_update  *)
(* makes of an update (GeyserConsumer) is left open.                       *)
(***************************************************************************)
EXTENDS Integers

CONSTANTS
    Interval,   \* values of heartbeat_interval_ms a server may be configured with
    U64,        \* 2^64, the modulus of the product with max_allowable_missed_heartbeats
    MaxMissed,  \* max_allowable_missed_heartbeats
    MaxGap,     \* a live server's heartbeats are read at most this far apart
    MaxLag,     \* the task runs at most this long after a tick is due
    MaxTime     \* bound on the clock

ASSUME HeartbeatAssumption ==
    /\ Interval \subseteq Nat
    /\ U64 \in Nat \ {0}
    /\ MaxMissed \in Nat /\ MaxGap \in Nat /\ MaxLag \in Nat /\ MaxTime \in Nat

VARIABLES
    now,                \* the clock
    alive,              \* the server still sends heartbeats
    exit,               \* the shared exit flag
    exit_at,            \* when it was set, or the loop began after that
    pc,                 \* where the loop is, or how it returned
    interval,           \* expected_heartbeat_interval_ms
    next_tick,          \* when expected_heartbeat_interval fires next
    last_heartbeat

vars == <<now, alive, exit, exit_at, pc, interval, next_tick, last_heartbeat>>

Errors == {"ServerError", "MalformedResponse", "MissedHeartbeat", "StreamClosed",
           "UpdateRefused", "panicked"}
Returned == Errors \cup {"ok"}
Running == pc \in {"check", "select"}

(* The silence the application asked the loop to tolerate, and the u64     *)
(* product that the loop computes for it.                                  *)
Tolerated == interval * MaxMissed
Overflows == Tolerated >= U64

(* Fault: one heartbeat more may be missed. *)
HeartbeatExpirationLate == interval * (MaxMissed + 1)

HeartbeatExpiration == Tolerated % U64

Init ==
    /\ now = 0
    /\ alive = TRUE
    /\ exit = FALSE
    /\ exit_at = 0
    /\ pc = "asking"
    /\ interval = 0
    /\ next_tick = 0
    /\ last_heartbeat = 0

-----------------------------------------------------------------------------
(* Time passes, but a live server's next heartbeat is never later than     *)
(* MaxGap, and the task never lags by more than MaxLag.                    *)
Advance ==
    /\ now < MaxTime
    /\ Running => now < next_tick + MaxLag
    /\ Running /\ alive => now < last_heartbeat + MaxGap
    /\ now' = now + 1
    /\ UNCHANGED <<alive, exit, exit_at, pc, interval, next_tick, last_heartbeat>>

(* The server stalls, or the network swallows everything it sends. *)
GoSilent ==
    /\ alive
    /\ alive' = FALSE
    /\ UNCHANGED <<now, exit, exit_at, pc, interval, next_tick, last_heartbeat>>

SetExit ==
    /\ ~exit
    /\ exit' = TRUE
    /\ exit_at' = now
    /\ UNCHANGED <<now, alive, pc, interval, next_tick, last_heartbeat>>

(* get_heartbeat_interval answers with the server's configuration. *)
GetHeartbeatInterval(ms) ==
    /\ pc = "asking"
    /\ alive
    /\ interval' = ms
    /\ pc' = "subscribing"
    /\ UNCHANGED <<now, alive, exit, exit_at, next_tick, last_heartbeat>>

(* The subscription is answered and the loop begins.  The product of the   *)
(* expiration panics in a debug build when it overflows and wraps in a     *)
(* release build; tokio's interval(0) panics in both.  The first tick of   *)
(* an interval is due at once.                                             *)
Subscribed ==
    /\ pc = "subscribing"
    /\ alive
    /\ \/ Overflows /\ pc' = "panicked"
       \/ pc' = IF interval = 0 THEN "panicked" ELSE "check"
    /\ exit_at' = now
    /\ next_tick' = now
    /\ last_heartbeat' = now
    /\ UNCHANGED <<now, alive, exit, interval>>

(* A call fails, or the highest-write-slot header is missing or malformed. *)
SubscribeError ==
    /\ \/ pc = "asking" /\ pc' = "ServerError"
       \/ pc = "subscribing" /\ pc' \in {"ServerError", "MalformedResponse"}
    /\ UNCHANGED <<now, alive, exit, exit_at, interval, next_tick, last_heartbeat>>

-----------------------------------------------------------------------------
(* Fault: the flag is read before the loop only. *)
CheckExitOnce ==
    /\ pc = "check"
    /\ pc' = "select"
    /\ UNCHANGED <<now, alive, exit, exit_at, interval, next_tick, last_heartbeat>>

(* while !exit *)
CheckExit ==
    /\ pc = "check"
    /\ pc' = IF exit THEN "ok" ELSE "select"
    /\ UNCHANGED <<now, alive, exit, exit_at, interval, next_tick, last_heartbeat>>

(* Fault: a silence of exactly the expiration is an error. *)
HeartbeatExpiredEarly == next_tick - last_heartbeat >= HeartbeatExpiration

(* tick() returns the instant the tick was due, which a task that lags     *)
(* compares with last_heartbeat; duration_since is 0 for a later one.      *)
HeartbeatExpired == next_tick - last_heartbeat > HeartbeatExpiration

Tick ==
    /\ pc = "select"
    /\ next_tick <= now
    /\ next_tick' = next_tick + interval
    /\ pc' = IF HeartbeatExpired THEN "MissedHeartbeat" ELSE "check"
    /\ UNCHANGED <<now, alive, exit, exit_at, interval, last_heartbeat>>

(* Fault: the previous tick is recorded instead of the current time. *)
ReceiveHeartbeatAtTick ==
    /\ pc = "select"
    /\ alive
    /\ last_heartbeat' = next_tick - interval
    /\ pc' = "check"
    /\ UNCHANGED <<now, alive, exit, exit_at, interval, next_tick>>

(* process_partial_account_update: Msg::Hb. *)
ReceiveHeartbeat ==
    /\ pc = "select"
    /\ alive
    /\ last_heartbeat' = now
    /\ pc' = "check"
    /\ UNCHANGED <<now, alive, exit, exit_at, interval, next_tick>>

(* Msg::PartialAccountUpdate: forwarded, or the loop ends because          *)
(* process_update refused it or the application dropped its receiver.  An  *)
(* update does not count as a heartbeat.                                   *)
ReceiveUpdate ==
    /\ pc = "select"
    /\ alive
    /\ pc' \in {"check", "UpdateRefused"}
    /\ UNCHANGED <<now, alive, exit, exit_at, interval, next_tick, last_heartbeat>>

StreamEnded ==
    /\ pc = "select"
    /\ pc' = "StreamClosed"
    /\ UNCHANGED <<now, alive, exit, exit_at, interval, next_tick, last_heartbeat>>

Next ==
    \/ Advance
    \/ GoSilent
    \/ SetExit
    \/ \E ms \in Interval : GetHeartbeatInterval(ms)
    \/ Subscribed
    \/ SubscribeError
    \/ CheckExit
    \/ Tick
    \/ ReceiveHeartbeat
    \/ ReceiveUpdate
    \/ StreamEnded

Spec == Init /\ [][Next]_vars

-----------------------------------------------------------------------------
(* Properties.                                                             *)

TypeOK ==
    /\ now \in Nat /\ next_tick \in Nat /\ last_heartbeat \in Nat /\ exit_at \in Nat
    /\ interval \in Nat
    /\ alive \in BOOLEAN /\ exit \in BOOLEAN
    /\ pc \in {"asking", "subscribing", "check", "select"} \cup Returned
    /\ Running => interval # 0

(* A client never gives up on a live server whose heartbeats are read no   *)
(* further apart than the application asked to tolerate, however much the  *)
(* task lags, for every interval the server may report, unless the product *)
(* of the two wrapped around.                                              *)
NoFalseAlarm ==
    MaxGap <= Tolerated /\ ~Overflows /\ alive => pc # "MissedHeartbeat"

(* A silent server is noticed, whether the product wrapped or not: while   *)
(* the loop runs, the last heartbeat is never older than the tolerated     *)
(* silence, one interval and the task's lag.                               *)
SilenceNoticed ==
    Running => now - last_heartbeat <= Tolerated + interval + MaxLag

(* The exit flag ends the loop although no message ever arrives again: the *)
(* tick that is due at most one interval later makes the loop look at it,  *)
(* and what happens then lags like any other step.                         *)
ExitNoticed ==
    Running /\ exit => now - exit_at <= 2 * interval + MaxLag

=============================================================================
