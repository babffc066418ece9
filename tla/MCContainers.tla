----------------------------- MODULE MCContainers -----------------------------
(* Instances of Containers for TLC. *)
EXTENDS Containers, TLC

CONSTANTS u1, u2, u3, u4

(* Three uids are never parted; the fourth has a bucket of its own, parts  *)
(* from the others when the table has grown far enough, or never does.     *)
MCHashFunctions ==
    {[u \in Uids |-> IF u = u4 THEN v ELSE 2] : v \in {1, 10, 2}}

Symmetry == Permutations(Records) \cup Permutations({u1, u2, u3})
=============================================================================
