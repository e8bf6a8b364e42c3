----------------------- MODULE HeartbeatConsumerProofs -----------------------
(***************************************************************************)
(* The heartbeat watchdog, for every interval, tolerance, lag and clock.   *)
(***************************************************************************)
EXTENDS HeartbeatConsumer, TLAPS

(* The arithmetic behind the bounds: ticks are due every interval and none *)
(* is skipped, the one before next_tick found a recent heartbeat, and      *)
(* after the exit flag is set at most one tick is handled before the loop  *)
(* looks at it.                                                            *)
TickInv ==
    Running =>
        /\ last_heartbeat <= now
        /\ now <= next_tick + MaxLag
        /\ next_tick <= now + interval
        /\ next_tick - last_heartbeat <= HeartbeatExpiration + interval
        /\ alive => now - last_heartbeat <= MaxGap
        /\ exit => next_tick <= exit_at + interval + (IF pc = "check" THEN interval ELSE 0)

WatchdogInv == TypeOK /\ TickInv /\ NoFalseAlarm

(* What the remainder does: it never exceeds the product, and is the       *)
(* product when that fits in a u64.                                        *)
LEMMA Remainder ==
    ASSUME NEW x \in Nat, NEW m \in Nat \ {0}
    PROVE  x % m \in Nat /\ x % m <= x /\ (x < m => x % m = x)
  BY SMT

(* So the loop tolerates at most what the application asked for, wrapped   *)
(* or not; the product itself does not matter to it.                       *)
LEMMA ExpirationBound ==
    ASSUME TypeOK
    PROVE  /\ Tolerated \in Nat
           /\ HeartbeatExpiration \in Nat
           /\ HeartbeatExpiration <= Tolerated
           /\ ~Overflows => HeartbeatExpiration = Tolerated
<1>1. Tolerated \in Nat
  BY HeartbeatAssumption DEF TypeOK, Tolerated
<1> QED
  BY <1>1, Remainder, HeartbeatAssumption DEF HeartbeatExpiration, Overflows

(* Before the call nothing runs and nothing was given up.                  *)
LEMMA InitWatchdog == Init => WatchdogInv
<1> SUFFICES ASSUME Init PROVE WatchdogInv
  OBVIOUS
<1>1. alive \in BOOLEAN /\ exit \in BOOLEAN
  BY Zenon DEF Init
<1>2. TypeOK
  BY <1>1, SMT DEF Init, TypeOK, Running
<1>3. TickInv /\ NoFalseAlarm
  BY SMT DEF Init, TickInv, NoFalseAlarm, Running
<1> QED
  BY <1>2, <1>3 DEF WatchdogInv

(* Every step keeps the types.                                             *)
LEMMA StepType == TypeOK /\ [Next]_vars => TypeOK'
<1> SUFFICES ASSUME TypeOK, [Next]_vars PROVE TypeOK'
  OBVIOUS
<1> USE DEF Next, vars, Advance, GoSilent, SetExit, GetHeartbeatInterval, Subscribed,
            SubscribeError, CheckExit, Tick, ReceiveHeartbeat, ReceiveUpdate, StreamEnded
<1>1. (alive \in BOOLEAN)' /\ (exit \in BOOLEAN)'
  BY Zenon DEF TypeOK
<1>2. (pc \in {"asking", "subscribing", "check", "select"} \cup Returned)'
  BY SMT DEF TypeOK, Returned, Errors
<1>3. (now \in Nat /\ next_tick \in Nat /\ last_heartbeat \in Nat /\ exit_at \in Nat
       /\ interval \in Nat)'
  BY HeartbeatAssumption, SMT DEF TypeOK
<1>4. (Running => interval # 0)'
  BY SMT DEF TypeOK, Running, Returned, Errors
<1> QED
  BY <1>1, <1>2, <1>3, <1>4 DEF TypeOK

(* A step that keeps the interval keeps everything computed from it.       *)
LEMMA SameExpiration ==
    ASSUME interval' = interval
    PROVE  /\ Tolerated' = Tolerated
           /\ HeartbeatExpiration' = HeartbeatExpiration
           /\ Overflows' = Overflows
  BY DEF Tolerated, HeartbeatExpiration, Overflows

(* Every step keeps the arithmetic.                                        *)
LEMMA StepWatchdog == WatchdogInv /\ [Next]_vars => TickInv' /\ NoFalseAlarm'
<1> SUFFICES ASSUME WatchdogInv, [Next]_vars
             PROVE  TickInv' /\ NoFalseAlarm'
  OBVIOUS
<1> TypeOK
  BY DEF WatchdogInv
<1> USE ExpirationBound, HeartbeatAssumption
        DEF WatchdogInv, TypeOK, TickInv, NoFalseAlarm, Running
<1>1. CASE Advance
  BY <1>1, SameExpiration DEF Advance
<1>2. CASE GoSilent
  BY <1>2, SameExpiration DEF GoSilent
<1>3. CASE SetExit
  BY <1>3, SameExpiration DEF SetExit
<1>4. CASE \E ms \in Interval : GetHeartbeatInterval(ms)
  BY <1>4 DEF GetHeartbeatInterval
<1>5. CASE Subscribed
  BY <1>5, SameExpiration DEF Subscribed
<1>6. CASE SubscribeError
  BY <1>6 DEF SubscribeError
<1>7. CASE CheckExit
  BY <1>7, SameExpiration DEF CheckExit, Returned, Errors
<1>8. CASE Tick
  BY <1>8, SameExpiration DEF Tick, HeartbeatExpired
<1>9. CASE ReceiveHeartbeat
  BY <1>9, SameExpiration DEF ReceiveHeartbeat
<1>10. CASE ReceiveUpdate
  BY <1>10, SameExpiration DEF ReceiveUpdate
<1>11. CASE StreamEnded
  BY <1>11 DEF StreamEnded
<1>12. CASE UNCHANGED vars
  BY <1>12, SameExpiration DEF vars
<1> QED
  BY <1>1, <1>2, <1>3, <1>4, <1>5, <1>6, <1>7, <1>8, <1>9, <1>10, <1>11, <1>12 DEF Next

(* The inductive invariant of the watchdog loop.                           *)
THEOREM Watchdog == Spec => []WatchdogInv
<1>1. WatchdogInv /\ [Next]_vars => WatchdogInv'
  BY StepType, StepWatchdog DEF WatchdogInv
<1> QED
  BY <1>1, InitWatchdog, PTL DEF Spec

(* The types, and that a loop that runs has a nonzero interval: a server   *)
(* configured with 0 makes the client panic before it reads anything.      *)
THEOREM WatchdogTypeCorrect == Spec => []TypeOK
<1>1. WatchdogInv => TypeOK
  BY DEF WatchdogInv
<1> QED
  BY <1>1, Watchdog, PTL

(* A live server whose heartbeats are read in time is never given up on,   *)
(* for every interval and number of missed heartbeats whose product fits   *)
(* (consume_partial_account_updates).                                      *)
THEOREM NoFalseAlarms == Spec => []NoFalseAlarm
<1>1. WatchdogInv => NoFalseAlarm
  BY DEF WatchdogInv
<1> QED
  BY <1>1, Watchdog, PTL

(* A server that stops sending heartbeats is given up on within the        *)
(* tolerated silence, one interval and the task's lag, even if the product *)
(* wrapped around.                                                         *)
THEOREM SilenceIsNoticed == Spec => []SilenceNoticed
<1>1. WatchdogInv => SilenceNoticed
  BY ExpirationBound, HeartbeatAssumption DEF WatchdogInv, TypeOK, TickInv, SilenceNoticed
<1> QED
  BY <1>1, Watchdog, PTL

(* The exit flag is honoured within two intervals and the task's lag,      *)
(* without any message from the server.                                    *)
THEOREM ExitIsNoticed == Spec => []ExitNoticed
<1>1. WatchdogInv => ExitNoticed
  BY HeartbeatAssumption DEF WatchdogInv, TypeOK, TickInv, ExitNoticed, Running
<1> QED
  BY <1>1, Watchdog, PTL

=============================================================================
