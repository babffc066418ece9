---------------------------- MODULE MCPowerArbiter ----------------------------
(* Instances of PowerArbiter for TLC. *)
EXTENDS PowerArbiter, TLC

OneParam == {[type |-> "CINDER_TAP_RATE_CONSTANT", value |-> 3]}

Symmetry == Permutations(Uids) \cup Permutations(Records)
=============================================================================
