----------------------------- MODULE MCValidation -----------------------------
(* Instances of Validation for TLC. *)
EXTENDS Validation

W(a, b, c) == [A |-> a, B |-> b, C |-> c]

(* Equal weights, an exact quotient, two threads with nothing, a weight    *)
(* whose share is cut to 0, no weights at all, and a sum that wraps to 1.  *)
MCWeightings ==
    {W(1, 1, 1), W(1, 2, 5), W(0, 1, 0), W(1, 300, 1), W(0, 0, 0), W(511, 511, 3)}

(* What there is at the ends of the ints, and between. *)
MCUndefinedInts == {-MaxInt - 1, 0, MaxInt}
=============================================================================
