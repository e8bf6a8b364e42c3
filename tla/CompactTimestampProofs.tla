------------------------ MODULE CompactTimestampProofs ------------------------
(***************************************************************************)
(* The reconstruction of compact timestamps, for every modulus.            *)
(***************************************************************************)
EXTENDS CompactTimestamp, TLAPS

(* What the theorems assume of the constants. *)
PositiveModulus == Modulus \in Nat \ {0}
IntegerSkews == Skews \subseteq Int

(* The remainder of n is the only number of the range that differs from n  *)
(* by a multiple of the modulus.                                           *)
LEMMA RemainderRange ==
    ASSUME PositiveModulus, NEW n \in Int
    PROVE  /\ FromSystemTime(n) \in 0..(Modulus - 1)
           /\ n \div Modulus \in Int
           /\ n = Modulus * (n \div Modulus) + FromSystemTime(n)
  BY DEF PositiveModulus, FromSystemTime

(* On the circle of Modulus values, going back from a by at most half the  *)
(* circle leads to a number at that distance, past the end or not.         *)
LEMMA DistanceOnCircle ==
    ASSUME PositiveModulus, NEW a \in 0..(Modulus - 1), NEW b \in 0..(Modulus - 1), NEW d \in Nat,
           2 * d <= Modulus,
           a - b = d \/ a - b = d - Modulus
    PROVE  DurationSinceUs(a, b) = d
<1> DEFINE n == IF a > b THEN a - b ELSE b - a
<1>1. n \in 0..(Modulus - 1) /\ (n = d \/ n = Modulus - d)
  BY DEF PositiveModulus
<1>2. ((Modulus - 1) - n + 1) % Modulus = IF n = 0 THEN 0 ELSE Modulus - n
  BY <1>1 DEF PositiveModulus
<1> QED
  BY <1>1, <1>2 DEF PositiveModulus, DurationSinceUs

(* Two times closer than the modulus are at most one turn apart.           *)
LEMMA TurnsApart ==
    ASSUME PositiveModulus, NEW t \in Int, NEW n \in Int, t <= n, n - t < Modulus
    PROVE  \/ FromSystemTime(n) - FromSystemTime(t) = n - t
           \/ FromSystemTime(n) - FromSystemTime(t) = (n - t) - Modulus
<1> DEFINE p == t \div Modulus
           q == n \div Modulus
           k == q - p
           a == FromSystemTime(n)
           b == FromSystemTime(t)
<1>1. /\ a \in 0..(Modulus - 1) /\ q \in Int /\ n = Modulus * q + a
      /\ b \in 0..(Modulus - 1) /\ p \in Int /\ t = Modulus * p + b
  BY RemainderRange
<1> HIDE DEF p, q, a, b
<1>2. k \in Int /\ n - t = Modulus * k + (a - b)
  BY <1>1 DEF PositiveModulus
<1> HIDE DEF k
<1>3. CASE k <= -1
  <2>1. Modulus * k <= -Modulus
    BY <1>2, <1>3 DEF PositiveModulus
  <2> QED
    BY <1>1, <1>2, <2>1 DEF PositiveModulus
<1>4. CASE k >= 2
  <2>1. Modulus * k >= 2 * Modulus
    BY <1>2, <1>4 DEF PositiveModulus
  <2> QED
    BY <1>1, <1>2, <2>1 DEF PositiveModulus
<1>5. CASE k = 0 \/ k = 1
  BY <1>1, <1>2, <1>5 DEF PositiveModulus, a, b
<1> QED
  BY <1>2, <1>3, <1>4, <1>5

(* A time at most half the range in the past is that far away for          *)
(* duration_since_us.                                                      *)
LEMMA Distance ==
    ASSUME PositiveModulus, NEW t \in Int, NEW n \in Int, NEW d \in Nat, 2 * d <= Modulus, n - t = d
    PROVE  DurationSinceUs(FromSystemTime(n), FromSystemTime(t)) = d
<1> DEFINE a == FromSystemTime(n)
           b == FromSystemTime(t)
<1>1. a \in 0..(Modulus - 1) /\ b \in 0..(Modulus - 1)
  BY RemainderRange
<1>2. t <= n /\ n - t < Modulus
  BY DEF PositiveModulus
<1>3. a - b = n - t \/ a - b = (n - t) - Modulus
  BY <1>2, TurnsApart
<1>4. a - b = d \/ a - b = d - Modulus
  BY <1>3
<1> HIDE DEF a, b
<1>5. DurationSinceUs(a, b) = d
  BY <1>1, <1>4, DistanceOnCircle
<1> QED
  BY <1>5 DEF a, b

(* to_system_time undoes from_system_time for any time at most half the    *)
(* range in the past.                                                      *)
THEOREM RoundTrip ==
    ASSUME PositiveModulus, NEW t \in Int, NEW n \in Int, t <= n, 2 * (n - t) <= Modulus
    PROVE  ToSystemTime(FromSystemTime(t), n) = t
<1>1. n - t \in Nat
  OBVIOUS
<1>2. DurationSinceUs(FromSystemTime(n), FromSystemTime(t)) = n - t
  BY <1>1, Distance
<1> QED
  BY <1>2 DEF ToSystemTime

-----------------------------------------------------------------------------
(* The behaviour of a sender and a receiver.                               *)

(* The stamp on the wire is the sender's time, cut down. *)
StampInv ==
    /\ now \in Nat
    /\ skew \in Int
    /\ sent \in Int
    /\ sent # -1 => stamp = FromSystemTime(sent)

(* Stamping and decoding keep the stamp and the time it stands for together. *)
LEMMA StampCarried ==
    ASSUME IntegerSkews
    PROVE  Spec => []StampInv
<1>1. Init => StampInv
  BY DEF Init, StampInv, IntegerSkews
<1>2. StampInv /\ [Next]_vars => StampInv'
  BY DEF StampInv, Next, vars, Advance, Stamp, Decode
<1> QED
  BY <1>1, <1>2, PTL DEF Spec

(* Every update decoded within half the range of its stamp gets the        *)
(* sender's exact time back, for every modulus, clock and skew             *)
(* (to_system_time).                                                       *)
THEOREM RecentExact ==
    ASSUME PositiveModulus, IntegerSkews
    PROVE  Spec => RecentIsExact
<1>1. StampInv /\ [Next]_vars =>
        [Decodes /\ sent <= now /\ 2 * (now - sent) <= Modulus => decoded' = sent]_vars
  <2> SUFFICES ASSUME StampInv, Next, Decodes, sent <= now, 2 * (now - sent) <= Modulus
               PROVE  decoded' = sent
    BY DEF vars, Decodes
  <2>1. sent # -1 /\ decoded' = ToSystemTime(stamp, now)
    BY DEF Next, Advance, Stamp, Decode, Decodes
  <2>2. ToSystemTime(FromSystemTime(sent), now) = sent
    BY RoundTrip DEF StampInv
  <2> QED
    BY <2>1, <2>2 DEF StampInv
<1> QED
  BY <1>1, StampCarried, PTL DEF Spec, RecentIsExact

=============================================================================
