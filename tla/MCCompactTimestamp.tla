-------------------------- MODULE MCCompactTimestamp --------------------------
(* Small instance of CompactTimestamp: the clock wraps three times. *)
EXTENDS CompactTimestamp

MCSkews == {-3, 0, 2, 4}
=============================================================================
