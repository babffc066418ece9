------------------------------ MODULE Validation ------------------------------
(***************************************************************************)
(* The programs of cinder_validation on one phone: the fork test, the      *)
(* subdivision test and the plumbing test.  The plan in                    *)
(* reserve_tap_test/tests runs them on different days, so each behaviour   *)
(* has one of them; the others are off.                                    *)
(***************************************************************************)
EXTENDS ForkTest, SubdivideTest, PlumbingTest

validationVars == <<kernelVars, forkVars, subdivideVars, shellVars>>

ValidationTypeOK ==
    EnergyTypeOK /\ ForkTypeOK /\ SubdivideTypeOK /\ ShellTypeOK

ValidationInit ==
    /\ EnergyInit({"parent", "main"})
    /\ \/ ForkInit /\ SubdivideOff /\ ShellOff
       \/ ForkOff /\ SubdivideInit /\ ShellOff
       \/ ForkOff /\ SubdivideOff /\ ShellInit

ForkProgram == ForkStep /\ UNCHANGED <<subdivideVars, shellVars>>
SubdivideProgram == SubdivideStep /\ UNCHANGED <<forkVars, shellVars>>
Shell == ShellStep /\ UNCHANGED <<kernelVars, forkVars, subdivideVars>>
Tap(r) == Flow(r) /\ UNCHANGED <<forkVars, subdivideVars, shellVars>>

ValidationNext ==
    ForkProgram \/ SubdivideProgram \/ Shell \/ \E r \in Reserves : Tap(r)

(* A program that can go on does, and a tap that can flow does: the kernel *)
(* visits every tap at each tick, so that the taps out of the main reserve *)
(* all have their turn at what is in it.  A thread reads keep_running      *)
(* again and again: its loop calls printf, after which compiled code reads *)
(* a variable that other functions may change anew.  Nothing is assumed of *)
(* calls that fail or of the user.                                         *)
ValidationFairness ==
    /\ WF_validationVars(ForkProgram /\ ~ParentExits)
    /\ WF_validationVars(SubdivideMain /\ UNCHANGED <<forkVars, shellVars>>)
    /\ \A k \in Threads :
         /\ WF_validationVars(SetActive(k) /\ UNCHANGED <<forkVars, shellVars>>)
         /\ SF_validationVars(ThreadReturns(k) /\ UNCHANGED <<forkVars, shellVars>>)
    /\ \A r \in {TestReserve, MainReserve} : WF_validationVars(Tap(r))
    /\ \A k \in Threads : SF_validationVars(Tap(ReserveOf[k]))
    /\ WF_validationVars(Quit /\ UNCHANGED <<kernelVars, forkVars, subdivideVars>>)

ValidationSpec ==
    ValidationInit /\ [][ValidationNext]_validationVars /\ ValidationFairness
-----------------------------------------------------------------------------
(* The inductive invariant: what the three programs promise, and what they *)
(* have done so far towards it.                                            *)
ValidationInv ==
    /\ ValidationTypeOK
    /\ ForkInv
    /\ ThreadInv
    /\ ShareInv
    /\ AsTyped /\ CallsAsTyped
=============================================================================
