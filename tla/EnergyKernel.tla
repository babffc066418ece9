----------------------------- MODULE EnergyKernel -----------------------------
(***************************************************************************)
(* The Cinder kernel as the validation programs see it: reserves hold      *)
(* energy, taps move it, and a task runs only while its active reserve is  *)
(* not empty.  The kernel is not in the repository; this is what the       *)
(* programs and the plan in reserve_tap_test/tests rely on.                *)
(*                                                                         *)
(* A tap is named by the reserve it feeds, since no program makes two for  *)
(* one reserve.  Energy is counted in small units, which flow one at a     *)
(* time, and the root reserve (the battery) outlasts every program.        *)
(***************************************************************************)
EXTENDS Integers, FiniteSets

CONSTANTS
    Tasks,          \* processes and threads
    Reserves,
    RootReserve,    \* ROOT_RESERVE_ID
    NoReserve,
    MaxLevel        \* bound: what a reserve holds

ASSUME ReservesAssumption == RootReserve \in Reserves /\ NoReserve \notin Reserves
ASSUME MaxLevelAssumption == MaxLevel \in Nat \ {0}

VARIABLES
    level,         \* the energy in each reserve but the root
    tap,           \* the tap into each reserve: where from, at which rate
    active,        \* the active reserve of each task
    reach,         \* the reserves each task may use
    child_list     \* the reserves each task hands to its children

kernelVars == <<level, tap, active, reach, child_list>>

EnergyTypeOK ==
    /\ level \in [Reserves -> 0..MaxLevel]
    /\ tap \in [Reserves -> [from : Reserves \cup {NoReserve}, rate : Int]]
    /\ active \in [Tasks -> Reserves \cup {NoReserve}]
    /\ reach \in [Tasks -> SUBSET Reserves]
    /\ child_list \in [Tasks -> SUBSET Reserves]

(* The tasks of first are there at the start, fed by the root reserve.     *)
EnergyInit(first) ==
    LET root == [t \in Tasks |-> IF t \in first THEN {RootReserve} ELSE {}]
    IN  /\ level = [r \in Reserves |-> 0]
        /\ tap = [r \in Reserves |-> [from |-> NoReserve, rate |-> 0]]
        /\ active = [t \in Tasks |-> IF t \in first THEN RootReserve ELSE NoReserve]
        /\ reach = root
        /\ child_list = root

HasEnergy(r) == r \in Reserves /\ (r = RootReserve \/ level[r] > 0)
CanRun(t) == HasEnergy(active[t])
-----------------------------------------------------------------------------
create_reserve(t, r) ==
    /\ reach' = [reach EXCEPT ![t] = @ \cup {r}]
    /\ UNCHANGED <<level, tap, active, child_list>>

create_tap(source, r) ==
    /\ tap' = [tap EXCEPT ![r] = [from |-> source, rate |-> 0]]
    /\ UNCHANGED <<level, active, reach, child_list>>

tap_set_rate(r, rate) ==
    /\ tap' = [tap EXCEPT ![r].rate = rate]
    /\ UNCHANGED <<level, active, reach, child_list>>

set_active_reserve(t, r) ==
    /\ r \in reach[t]
    /\ active' = [active EXCEPT ![t] = r]
    /\ UNCHANGED <<level, tap, reach, child_list>>

add_reserve_to_child_list(t, r) ==
    /\ child_list' = [child_list EXCEPT ![t] = @ \cup {r}]
    /\ UNCHANGED <<level, tap, active, reach>>

del_reserve_from_child_list(t, r) ==
    /\ child_list' = [child_list EXCEPT ![t] = @ \ {r}]
    /\ UNCHANGED <<level, tap, active, reach>>

(* A forked child may use what the child list of its parent says, and one  *)
(* of that is active.                                                      *)
Fork(t, child) ==
    /\ reach' = [reach EXCEPT ![child] = child_list[t]]
    /\ child_list' = [child_list EXCEPT ![child] = child_list[t]]
    /\ IF child_list[t] = {} THEN UNCHANGED active
       ELSE \E r \in child_list[t] : active' = [active EXCEPT ![child] = r]
    /\ UNCHANGED <<level, tap>>

(* A thread starts with what its creator has. *)
StartThread(t, thread) ==
    /\ reach' = [reach EXCEPT ![thread] = reach[t]]
    /\ child_list' = [child_list EXCEPT ![thread] = child_list[t]]
    /\ active' = [active EXCEPT ![thread] = active[t]]
    /\ UNCHANGED <<level, tap>>

(* The task runs for a while and pays for it. *)
Draw(t) ==
    /\ CanRun(t)
    /\ level' = IF active[t] = RootReserve THEN level
                ELSE [level EXCEPT ![active[t]] = @ - 1]
    /\ UNCHANGED <<tap, active, reach, child_list>>

(* The tap into r moves one unit. *)
Flow(r) ==
    /\ tap[r].rate > 0
    /\ HasEnergy(tap[r].from) /\ level[r] < MaxLevel
    /\ level' = [q \in Reserves |->
                   CASE q = r -> level[r] + 1
                     [] q = tap[r].from /\ q \notin {r, RootReserve} -> level[q] - 1
                     [] OTHER -> level[q]]
    /\ UNCHANGED <<tap, active, reach, child_list>>
=============================================================================
