------------------------------ MODULE RecordStore ------------------------------
(***************************************************************************)
(* What dbase.c needs of its containers: a function from uids to records   *)
(* and a sequence of the records taken out of it.  This is the form in     *)
(* which ReserveDatabase has them.                                         *)
(***************************************************************************)
EXTENDS Sequences

CONSTANTS Uids, Records, NULL

VARIABLES data, dead_list

Stored == {data[u] : u \in Uids} \cup {dead_list[i] : i \in DOMAIN dead_list}

Init ==
    /\ data = [u \in Uids |-> NULL]
    /\ dead_list = <<>>

Add(u) ==
    /\ data[u] = NULL
    /\ \E x \in Records \ Stored : data' = [data EXCEPT ![u] = x]
    /\ UNCHANGED dead_list

Remove(u) ==
    /\ data[u] # NULL
    /\ data' = [data EXCEPT ![u] = NULL]
    /\ dead_list' = Append(dead_list, data[u])

Next == \E u \in Uids : Add(u) \/ Remove(u)

Spec == Init /\ [][Next]_<<data, dead_list>>
=============================================================================
