---------------------------- MODULE MCController ----------------------------
(* Instances of Controller for TLC. *)
EXTENDS ControllerRefinement, TLC

Slow == [type |-> "CINDER_TAP_RATE_CONSTANT", value |-> 3]
Truncated == [type |-> "CINDER_TAP_RATE_CONSTANT", value |-> 25]
Invalid == [type |-> "CINDER_TAP_RATE_PROPORTIONAL", value |-> 101]

OneParam == {Truncated}
AllParams == {Slow, Truncated, Invalid}

Symmetry ==
    Permutations(Clients) \cup Permutations(Uids) \cup Permutations(Records)
        \cup Permutations(ReserveIds)
=============================================================================
