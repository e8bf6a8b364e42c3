------------------------------ MODULE TickArrays ------------------------------
(***************************************************************************)
(* The tick arithmetic of create_swap_transaction (orca_toolkit/src/       *)
(* main.rs): which tick arrays of a pool a swap is given.  div_euclid by a *)
(* positive number is TLA+'s \div, which rounds down for negative ticks    *)
(* too.  Ticks lie within +-443636 and the spacing is a u16, so that the   *)
(* i32 products do not overflow.                                           *)
(***************************************************************************)
EXTENDS Integers, TLAPS

TICK_ARRAY_SIZE == 88

(* The ticks that one array covers. *)
Offset(tick_spacing) == tick_spacing * TICK_ARRAY_SIZE

RealIndex(tick_index, tick_spacing) == (tick_index \div tick_spacing) \div TICK_ARRAY_SIZE

StartIndex(tick_index, tick_spacing) ==
    RealIndex(tick_index, tick_spacing) * tick_spacing * TICK_ARRAY_SIZE

(* tick_array_indexes: the array of the current tick, the two above it and *)
(* the two below it.  The first three are handed to the swap.              *)
TickArrayIndexes(tick_index, tick_spacing) ==
    LET start == StartIndex(tick_index, tick_spacing)
        offset == Offset(tick_spacing)
    IN  <<start, start + offset, start + offset * 2, start - offset, start - offset * 2>>

-----------------------------------------------------------------------------
(* Rounding down twice: a number lies between a multiple of s * n and the  *)
(* next.                                                                   *)
LEMMA DivTwice ==
    ASSUME NEW t \in Int, NEW s \in Nat \ {0}
    PROVE  /\ (t \div s) \div 88 \in Int
           /\ ((t \div s) \div 88) * s * 88 <= t
           /\ t < ((t \div s) \div 88) * s * 88 + s * 88
<1> DEFINE q == t \div s
           r == q \div 88
<1>1. q \in Int /\ s * q <= t /\ t < s * q + s
  OBVIOUS
<1>2. r \in Int /\ 88 * r <= q /\ q + 1 <= 88 * r + 88
  <2> HIDE DEF q
  <2> QED
    BY <1>1
<1> HIDE DEF q, r
<1>3. s * (88 * r) <= s * q
  BY <1>1, <1>2
<1>4. s * (q + 1) <= s * (88 * r + 88)
  BY <1>1, <1>2
<1>5. s * (88 * r) = r * s * 88 /\ s * (88 * r + 88) = r * s * 88 + s * 88 /\ s * (q + 1) = s * q + s
  BY <1>1, <1>2
<1>6. r \in Int /\ r * s * 88 <= t /\ t < r * s * 88 + s * 88
  BY <1>1, <1>2, <1>3, <1>4, <1>5
<1> QED
  BY <1>6 DEF r, q

(* The first array is the one that holds the pool's current tick, also for *)
(* negative ticks, where rounding towards zero would pick the next one;    *)
(* and the others are its neighbours, without gap or overlap.              *)
THEOREM CurrentTickCovered ==
    ASSUME NEW tick_index \in Int, NEW tick_spacing \in Nat \ {0}
    PROVE  LET a == TickArrayIndexes(tick_index, tick_spacing)
               offset == Offset(tick_spacing)
           IN  /\ a[1] <= tick_index /\ tick_index < a[1] + offset
               /\ a[2] = a[1] + offset /\ a[3] = a[2] + offset
               /\ a[1] = a[4] + offset /\ a[4] = a[5] + offset
<1> DEFINE start == StartIndex(tick_index, tick_spacing)
           offset == Offset(tick_spacing)
<1>1. start \in Int /\ offset \in Int /\ start <= tick_index /\ tick_index < start + offset
  BY DivTwice DEF StartIndex, RealIndex, Offset, TICK_ARRAY_SIZE
<1> HIDE DEF start, offset
<1>2. TickArrayIndexes(tick_index, tick_spacing)
        = <<start, start + offset, start + offset * 2, start - offset, start - offset * 2>>
  BY DEF TickArrayIndexes, start, offset
<1>3. LET a == TickArrayIndexes(tick_index, tick_spacing)
      IN  /\ a[1] <= tick_index /\ tick_index < a[1] + offset
          /\ a[2] = a[1] + offset /\ a[3] = a[2] + offset
          /\ a[1] = a[4] + offset /\ a[4] = a[5] + offset
  BY <1>1, <1>2
<1> QED
  BY <1>3 DEF offset

=============================================================================
