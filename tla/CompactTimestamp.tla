--------------------------- MODULE CompactTimestamp ---------------------------
(***************************************************************************)
(* server/src/compact_timestamp.rs: microsecond timestamps cut down to 32  *)
(* bits, as TimestampedSlotEntryUpdate carries them, and the full time a   *)
(* receiver reconstructs.  A sender stamps an update with its clock; the   *)
(* receiver decodes the stamp later, with its own.                         *)
(***************************************************************************)
EXTENDS Integers

CONSTANTS
    Modulus,    \* 2^32
    MaxTime,    \* bound on the receiver's clock
    Skews       \* sender's clock minus receiver's clock, an integer

VARIABLES
    now,        \* the receiver's SystemTime::now(), in microseconds
    skew,
    sent,       \* the sender's full time when it stamped, -1 before
    stamp,      \* the u32 on the wire
    decoded     \* what to_system_time returned, NotDecoded before

vars == <<now, skew, sent, stamp, decoded>>

NotDecoded == MaxTime + 1

(* `as u32` keeps the low 32 bits. *)
FromSystemTime(t) == t % Modulus

(* The distance of a and b on the circle of u32 values. *)
DurationSinceUs(a, b) ==
    LET normal_diff == IF a > b THEN a - b ELSE b - a
        wraparound_diff == ((Modulus - 1) - normal_diff + 1) % Modulus
    IN  IF normal_diff < wraparound_diff THEN normal_diff ELSE wraparound_diff

ToSystemTime(timestamp_us, t) == t - DurationSinceUs(FromSystemTime(t), timestamp_us)

Init ==
    /\ now = 0
    /\ skew \in Skews
    /\ sent = -1
    /\ stamp = 0
    /\ decoded = NotDecoded

Advance ==
    /\ now < MaxTime
    /\ now' = now + 1
    /\ UNCHANGED <<skew, sent, stamp, decoded>>

(* get_current_time_us_u32, on the sender. *)
Stamp ==
    /\ sent = -1
    /\ now + skew >= 0
    /\ sent' = now + skew
    /\ stamp' = FromSystemTime(now + skew)
    /\ UNCHANGED <<now, skew, decoded>>

Decode ==
    /\ sent # -1
    /\ decoded = NotDecoded
    /\ decoded' = ToSystemTime(stamp, now)
    /\ UNCHANGED <<now, skew, sent, stamp>>

Next == Advance \/ Stamp \/ Decode

Spec == Init /\ [][Next]_vars

-----------------------------------------------------------------------------
(* Properties, stated of each decoding step.                               *)

Decodes == decoded = NotDecoded /\ decoded' # NotDecoded

(* A stamp no older than half the range is reconstructed exactly, whatever *)
(* the number of times the 32-bit counter wrapped before or in between.    *)
RecentIsExact ==
    [][Decodes /\ sent <= now /\ 2 * (now - sent) <= Modulus => decoded' = sent]_vars

(* Documentation of get_current_time_us_u32: a compact timestamp "Provides *)
(* ~71 mins of accuracy", geyser.proto adds "between sender and receiver". *)
(* That is the period of the 32-bit counter, so a stamp younger than one   *)
(* period is reconstructed exactly (to_system_time).                       *)
AccurateOverRange ==
    [][Decodes /\ sent <= now /\ now - sent < Modulus => decoded' = sent]_vars

=============================================================================
