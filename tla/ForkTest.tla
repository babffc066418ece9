------------------------------- MODULE ForkTest -------------------------------
(***************************************************************************)
(* test1_fork.c: a parent gives its child a reserve of its own, fed from   *)
(* the root reserve by one tap, and the child counts to maxval on what     *)
(* flows in.                                                               *)
(***************************************************************************)
EXTENDS EnergyKernel

CONSTANT MaxVal     \* maxval, from the command line

VARIABLES
    parent_pc,    \* the next system call of the parent
    child_pc,
    counter       \* how far the child has counted

forkVars == <<parent_pc, child_pc, counter>>

TestReserve == "testreserve"

ASSUME ForkAssumption ==
    /\ {"parent", "child"} \subseteq Tasks
    /\ TestReserve \in Reserves \ {RootReserve}
    /\ MaxVal \in Nat

ParentCalls == {"create_reserve", "create_tap", "del_reserve_from_child_list",
                "add_reserve_to_child_list", "fork", "tap_set_rate", "waitpid"}

ForkTypeOK ==
    /\ parent_pc \in ParentCalls \cup {"off", "done", "failed"}
    /\ child_pc \in {"none", "counting", "exited"}
    /\ counter \in 0..MaxVal

(* The tap rate and maxval of the command line are positive. *)
ForkInit ==
    /\ parent_pc = "create_reserve" /\ child_pc = "none" /\ counter = 0

ForkOff == parent_pc = "off" /\ child_pc = "none" /\ counter = 0

ParentAt(call, next) ==
    /\ parent_pc = call
    /\ parent_pc' = next
    /\ UNCHANGED counter
-----------------------------------------------------------------------------
CreateTestReserve ==
    /\ ParentAt("create_reserve", "create_tap")
    /\ create_reserve("parent", TestReserve)
    /\ UNCHANGED child_pc

(* A variant: source and destination are swapped. *)
CreateTestTapBackwards ==
    /\ ParentAt("create_tap", "del_reserve_from_child_list")
    /\ create_tap(TestReserve, RootReserve)
    /\ UNCHANGED child_pc

CreateTestTap ==
    /\ ParentAt("create_tap", "del_reserve_from_child_list")
    /\ create_tap(RootReserve, TestReserve)
    /\ UNCHANGED child_pc

(* A variant: the root reserve stays in the child list. *)
RemoveRootKeeps ==
    /\ ParentAt("del_reserve_from_child_list", "add_reserve_to_child_list")
    /\ UNCHANGED <<child_pc, kernelVars>>

RemoveRoot ==
    /\ ParentAt("del_reserve_from_child_list", "add_reserve_to_child_list")
    /\ del_reserve_from_child_list("parent", RootReserve)
    /\ UNCHANGED child_pc

AddTestReserve ==
    /\ ParentAt("add_reserve_to_child_list", "fork")
    /\ add_reserve_to_child_list("parent", TestReserve)
    /\ UNCHANGED child_pc

ForkChild ==
    /\ ParentAt("fork", "tap_set_rate")
    /\ Fork("parent", "child")
    /\ child_pc' = "counting"

(* "Start flowing tap": the child is there and has nothing yet. *)
StartTap ==
    /\ ParentAt("tap_set_rate", "waitpid")
    /\ tap_set_rate(TestReserve, 1)
    /\ UNCHANGED child_pc

WaitOnChild ==
    /\ ParentAt("waitpid", "done")
    /\ child_pc = "exited"
    /\ UNCHANGED <<child_pc, kernelVars>>

(* Each call may fail, and then the parent prints an error and exits with  *)
(* 1, also when there is a child.  waitpid does not fail: the child is the *)
(* parent's own and no signal is caught.                                   *)
ParentExits ==
    /\ parent_pc \in ParentCalls \ {"waitpid"}
    /\ parent_pc' = "failed"
    /\ UNCHANGED <<child_pc, counter, kernelVars>>

(* A variant: one turn too many. *)
CountPastMax ==
    /\ child_pc = "counting" /\ Draw("child")
    /\ IF counter <= MaxVal
         THEN counter' = counter + 1 /\ UNCHANGED child_pc
         ELSE child_pc' = "exited" /\ UNCHANGED counter
    /\ UNCHANGED parent_pc

(* test_method and the return from main. *)
Count ==
    /\ child_pc = "counting" /\ Draw("child")
    /\ IF counter < MaxVal
         THEN counter' = counter + 1 /\ UNCHANGED child_pc
         ELSE child_pc' = "exited" /\ UNCHANGED counter
    /\ UNCHANGED parent_pc

ForkParent ==
    \/ CreateTestReserve \/ CreateTestTap \/ RemoveRoot \/ AddTestReserve
    \/ ForkChild \/ StartTap \/ WaitOnChild

ForkStep == ForkParent \/ ParentExits \/ Count
-----------------------------------------------------------------------------
(* "the child process should automatically have the correct active reserve *)
(* set" (test1_fork.c:186), and it has no other: whatever it does, it      *)
(* spends only what the tap let through.                                   *)
ForkIsolated ==
    child_pc # "none" =>
      active["child"] = TestReserve /\ reach["child"] = {TestReserve}

(* Once the tap flows, the child counts to the end, however often it       *)
(* starves on the way, and the parent learns of it.                        *)
ForkTestEnds == parent_pc = "waitpid" ~> parent_pc = "done"
-----------------------------------------------------------------------------
(* What makes ForkIsolated inductive: what the child list of the parent is *)
(* on the way to fork.                                                     *)
ChildListReady ==
    /\ parent_pc \in {"create_reserve", "create_tap", "del_reserve_from_child_list"} =>
         child_list["parent"] = {RootReserve}
    /\ parent_pc = "add_reserve_to_child_list" => child_list["parent"] = {}
    /\ parent_pc = "fork" => child_list["parent"] = {TestReserve}

ForkInv == ChildListReady /\ ForkIsolated
=============================================================================
