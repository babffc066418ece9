---------------------------- MODULE CinderKernel ----------------------------
(***************************************************************************)
(* The Cinder kernel as PowerArbiter sees it through syscall.c: reserves,  *)
(* the tap that feeds a reserve, and the tasks that hold a reserve.  The   *)
(* kernel is not in the repository.  What is modelled is what the callers  *)
(* rely on: an id names one reserve for ever, a reserve lives while a task *)
(* holds it, putting the last hold destroys the reserve with its tap       *)
(* (PowerArbiter never deletes the tap of a reserve it gives up), and any  *)
(* system call may fail and then changes nothing.                          *)
(*                                                                         *)
(* A tap is named by the reserve it feeds: statReserve makes exactly one   *)
(* tap for each reserve, from the root reserve.                            *)
(***************************************************************************)
EXTENDS Integers, FiniteSets

CONSTANTS
    Clients,      \* tasks other than the arbiter, each with one session
    Arbiter,      \* the PowerArbiter daemon, itself a task
    ReserveIds,   \* ids of reserves, the root reserve excluded
    TapParams,    \* pairs of a tap type and a tap value
    NoTap,        \* a reserve without a tap
    UnsetRate,    \* a tap whose rate was never set
    LongModulus   \* 2^w for the w-bit long of cinder_tap_set_rate

Tasks == Clients \cup {Arbiter}

ASSUME ClientsAssumption == IsFiniteSet(Clients) /\ Arbiter \notin Clients
ASSUME TapParamsAssumption ==
    \A par \in TapParams : par = [type |-> par.type, value |-> par.value]
                           /\ par.value \in Int
ASSUME LongModulusAssumption == LongModulus \in Nat \ {0}

VARIABLES
    users,    \* users[r]: the tasks that hold reserve r
    tap,      \* tap[r]: NoTap, UnsetRate or the rate of the tap feeding r
    minted    \* the ids given out so far

kernelVars == <<users, tap, minted>>

(* cinder_tap_set_rate takes the 64-bit tap_value as a long. *)
ToLong(value) ==
    LET low == value % LongModulus
    IN  IF 2 * low >= LongModulus THEN low - LongModulus ELSE low

Rate(par) == [par EXCEPT !.value = ToLong(@)]

Rates == {Rate(par) : par \in TapParams}

KernelTypeOK ==
    /\ users \in [ReserveIds -> SUBSET Tasks]
    /\ tap \in [ReserveIds -> Rates \cup {NoTap, UnsetRate}]
    /\ minted \subseteq ReserveIds

KernelInit ==
    /\ users = [r \in ReserveIds |-> {}]
    /\ tap = [r \in ReserveIds |-> NoTap]
    /\ minted = {}

CreateReserve(task, r) ==
    /\ r \in ReserveIds \ minted
    /\ minted' = minted \cup {r}
    /\ users' = [users EXCEPT ![r] = {task}]
    /\ UNCHANGED tap

CreateTap(r) ==
    /\ tap' = [tap EXCEPT ![r] = UnsetRate]
    /\ UNCHANGED <<users, minted>>

TapSetRate(r, par) ==
    /\ tap' = [tap EXCEPT ![r] = Rate(par)]
    /\ UNCHANGED <<users, minted>>

DeleteTap(r) ==
    /\ tap' = [tap EXCEPT ![r] = NoTap]
    /\ UNCHANGED <<users, minted>>

PutReserve(task, r) ==
    /\ task \in users[r]
    /\ users' = [users EXCEPT ![r] = @ \ {task}]
    /\ tap' = [tap EXCEPT ![r] = IF users[r] = {task} THEN NoTap ELSE @]
    /\ UNCHANGED minted

ExposeReserve(task, target, r) ==
    /\ task \in users[r]
    /\ users' = [users EXCEPT ![r] = @ \cup {target}]
    /\ UNCHANGED <<tap, minted>>

(* cinder_get_num_reserve_users: succeeds only for a task that holds r,    *)
(* and may fail for that one too.                                          *)
ReserveInfo(task, r) == task \in users[r]
NumReserveUsers(r) == Cardinality(users[r])

SyscallFails == UNCHANGED kernelVars
=============================================================================
