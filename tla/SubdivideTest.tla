----------------------------- MODULE SubdivideTest -----------------------------
(***************************************************************************)
(* test2_subdivide_thread.c: three threads count, each on a reserve of its *)
(* own, which takes its share out of one main reserve; after the run time  *)
(* main clears keep_running and joins them.                                *)
(***************************************************************************)
EXTENDS EnergyKernel, Sequences

CONSTANTS
    Weightings,      \* the three weights that the command line may give
    MaxInt,          \* INT_MAX
    UndefinedInts    \* what the conversion of a double that no int holds gives

VARIABLES
    weight,          \* weightA, weightB, weightC
    share,           \* proportionA, proportionB, proportionC
    main_pc,         \* where main is
    turn,            \* which of the three main is at
    thread_pc,
    keep_running

subdivideVars == <<weight, share, main_pc, turn, thread_pc, keep_running>>

Threads == {"A", "B", "C"}
Order == <<"A", "B", "C">>
MainReserve == "main_reserve"
Ints == (-MaxInt - 1)..MaxInt
ReserveOf == [A |-> "A_reserve", B |-> "B_reserve", C |-> "C_reserve"]

ASSUME SubdivideAssumption ==
    /\ {"main"} \cup Threads \subseteq Tasks
    /\ {MainReserve} \cup {ReserveOf[k] : k \in Threads} \subseteq Reserves \ {RootReserve}
ASSUME IntsAssumption ==
    /\ MaxInt \in Nat /\ MaxInt >= 100
    /\ UndefinedInts \subseteq Ints
    /\ Weightings \subseteq [Threads -> 0..MaxInt]

MainCalls == {"main_reserve", "main_tap", "shares", "reserve", "tap", "rate",
              "main_rate", "create", "sleep", "join"}

SubdivideTypeOK ==
    /\ weight \in [Threads -> 0..MaxInt]
    /\ share \in [Threads -> Ints]
    /\ main_pc \in MainCalls \cup {"off", "done", "failed"}
    /\ turn \in DOMAIN Order
    /\ thread_pc \in [Threads -> {"none", "set_active_reserve", "counting",
                                  "returned", "gone"}]
    /\ keep_running \in BOOLEAN

SubdivideOff ==
    /\ weight = [k \in Threads |-> 0] /\ share = weight
    /\ main_pc = "off" /\ turn = 1
    /\ thread_pc = [k \in Threads |-> "none"]
    /\ keep_running = TRUE

(* The weights of the command line are not negative. *)
SubdivideInit ==
    /\ weight \in Weightings
    /\ share = [k \in Threads |-> 0]
    /\ main_pc = "main_reserve" /\ turn = 1
    /\ thread_pc = [k \in Threads |-> "none"]
    /\ keep_running = TRUE

Sum == weight.A + weight.B + weight.C

(* total_weight: the addition of ints wraps. *)
Total == ((Sum + MaxInt + 1) % (2 * (MaxInt + 1))) - (MaxInt + 1)

(* (int) *)
ToInt(x) == IF x \in Ints THEN {x} ELSE UndefinedInts

(* A variant: rounded up. *)
RoundedUp(w) ==
    IF Total <= 0 THEN UndefinedInts ELSE ToInt((100 * w + Total - 1) \div Total)

(* (int)((((double)w) / total_weight)*100).  Where the exact value is a    *)
(* whole number and the quotient is not, the product may fall just short   *)
(* of it (29 of 100 make 28).  A total of 0 makes a NaN or an infinity.    *)
Proportion(w) ==
    IF Total = 0 THEN UndefinedInts
    ELSE LET size == IF Total < 0 THEN -Total ELSE Total
             whole == (100 * w) \div size
             sizes == IF (100 * w) % size = 0 /\ w % size # 0
                      THEN {whole - 1, whole} ELSE {whole}
         IN  UNION {ToInt(IF Total < 0 THEN -n ELSE n) : n \in sizes}
-----------------------------------------------------------------------------
MainAt(call, next) ==
    /\ main_pc = call
    /\ main_pc' = next

MainFrame == UNCHANGED <<weight, share, turn, thread_pc, keep_running>>

CreateMainReserve ==
    /\ MainAt("main_reserve", "main_tap")
    /\ create_reserve("main", MainReserve)
    /\ MainFrame

CreateMainTap ==
    /\ MainAt("main_tap", "shares")
    /\ create_tap(RootReserve, MainReserve)
    /\ MainFrame

ComputeShares ==
    /\ MainAt("shares", "reserve")
    /\ \E a \in Proportion(weight.A), b \in Proportion(weight.B),
          c \in Proportion(weight.C) : share' = [A |-> a, B |-> b, C |-> c]
    /\ UNCHANGED <<weight, turn, thread_pc, keep_running, kernelVars>>

CreatePartReserve ==
    /\ MainAt("reserve", "tap")
    /\ create_reserve("main", ReserveOf[Order[turn]])
    /\ MainFrame

CreatePartTap ==
    /\ MainAt("tap", "rate")
    /\ create_tap(MainReserve, ReserveOf[Order[turn]])
    /\ MainFrame

NextTurn(again, next) ==
    IF turn < Len(Order) THEN main_pc' = again /\ turn' = turn + 1
                         ELSE main_pc' = next /\ turn' = 1

SetPartRate ==
    /\ main_pc = "rate" /\ NextTurn("reserve", "main_rate")
    /\ tap_set_rate(ReserveOf[Order[turn]], share[Order[turn]])
    /\ UNCHANGED <<weight, share, thread_pc, keep_running>>

(* A variant: the main tap is left as it was made. *)
FlowMainTapForgets ==
    /\ MainAt("main_rate", "create")
    /\ MainFrame /\ UNCHANGED kernelVars

FlowMainTap ==
    /\ MainAt("main_rate", "create")
    /\ tap_set_rate(MainReserve, 1)
    /\ MainFrame

CreateThread ==
    /\ main_pc = "create" /\ NextTurn("create", "sleep")
    /\ StartThread("main", Order[turn])
    /\ thread_pc' = [thread_pc EXCEPT ![Order[turn]] = "set_active_reserve"]
    /\ UNCHANGED <<weight, share, keep_running>>

(* sleep(runtime_seconds); keep_running = 0; *)
StopThreads ==
    /\ MainAt("sleep", "join")
    /\ keep_running' = FALSE
    /\ UNCHANGED <<weight, share, turn, thread_pc, kernelVars>>

Join ==
    /\ main_pc = "join" /\ NextTurn("join", "done")
    /\ thread_pc[Order[turn]] = "returned"
    /\ UNCHANGED <<weight, share, thread_pc, keep_running, kernelVars>>

(* exit(1), in main after a call that failed or in a thread that could not *)
(* set its reserve, ends every thread.                                     *)
Exit ==
    /\ \/ main_pc \in MainCalls \ {"shares", "sleep", "join"}
       \/ \E k \in Threads : thread_pc[k] = "set_active_reserve"
    /\ main_pc' = "failed"
    /\ thread_pc' = [k \in Threads |-> "gone"]
    /\ UNCHANGED <<weight, share, turn, keep_running, kernelVars>>

(* test_method *)
ThreadFrame == UNCHANGED <<weight, share, main_pc, turn, keep_running>>

(* A variant: the thread stays on the reserve it was started with. *)
SetActiveForgets(k) ==
    /\ thread_pc[k] = "set_active_reserve"
    /\ thread_pc' = [thread_pc EXCEPT ![k] = "counting"]
    /\ ThreadFrame /\ UNCHANGED kernelVars

SetActive(k) ==
    /\ thread_pc[k] = "set_active_reserve"
    /\ set_active_reserve(k, ReserveOf[k])
    /\ thread_pc' = [thread_pc EXCEPT ![k] = "counting"]
    /\ ThreadFrame

(* keep_running is neither volatile nor locked, so a thread may go on for  *)
(* a while after main has cleared it.                                      *)
ThreadCounts(k) ==
    /\ thread_pc[k] = "counting"
    /\ Draw(k)
    /\ ThreadFrame /\ UNCHANGED thread_pc

ThreadReturns(k) ==
    /\ thread_pc[k] = "counting" /\ ~keep_running
    /\ Draw(k)
    /\ thread_pc' = [thread_pc EXCEPT ![k] = "returned"]
    /\ ThreadFrame

SubdivideMain ==
    \/ CreateMainReserve \/ CreateMainTap \/ ComputeShares \/ CreatePartReserve
    \/ CreatePartTap \/ SetPartRate \/ FlowMainTap \/ CreateThread
    \/ StopThreads \/ Join

SubdivideStep ==
    \/ SubdivideMain \/ Exit
    \/ \E k \in Threads : SetActive(k) \/ ThreadCounts(k) \/ ThreadReturns(k)
-----------------------------------------------------------------------------
(* The three taps never ask for more than the main reserve has, however    *)
(* the quotients are rounded, if there is a weight and an int holds the    *)
(* sum of the three; and nothing reaches the main reserve before all three *)
(* have their rates, so that no thread has a start over the others.        *)
SharesOfTheWhole ==
    /\ Sum \in 1..MaxInt => share.A + share.B + share.C <= 100
    /\ level[MainReserve] > 0 =>
         \A k \in Threads : tap[ReserveOf[k]] = [from |-> MainReserve, rate |-> share[k]]

(* A thread counts on its own reserve only, so what it counts to is what   *)
(* its share paid for.                                                     *)
ThreadsOnOwnReserve ==
    \A k \in Threads : thread_pc[k] \in {"counting", "returned"} =>
      active[k] = ReserveOf[k] /\ \A j \in Threads \ {k} : active[j] # active[k]

(* Main gets all three threads back and ends, if no share is 0.  (A thread *)
(* without energy cannot see that it is to stop, and main waits for it for *)
(* ever, although "each child thread breaks out of loop", tests:60.)       *)
SubdivideTestEnds ==
    main_pc = "sleep" /\ (\A k \in Threads : share[k] > 0)
      ~> main_pc \in {"done", "failed"}

-----------------------------------------------------------------------------
(* What makes ThreadsOnOwnReserve inductive: a thread is on no reserve     *)
(* that main did not give it.                                              *)
ThreadInv ==
    /\ active["main"] = RootReserve
    /\ \A k \in Threads :
         /\ active[k] \in {NoReserve, RootReserve, ReserveOf[k]}
         /\ thread_pc[k] \in {"counting", "returned"} => active[k] = ReserveOf[k]

(* What makes SharesOfTheWhole inductive: main sets the parts one by one,  *)
(* and the tap into the main reserve stays shut until the last is set.     *)
PartSet(k) == tap[ReserveOf[k]] = [from |-> MainReserve, rate |-> share[k]]

Early == {"off", "main_reserve", "main_tap", "shares", "reserve", "tap", "rate", "main_rate"}

ShareInv ==
    /\ Sum \in 1..MaxInt => share.A + share.B + share.C <= 100
    /\ tap[MainReserve].rate > 0 \/ level[MainReserve] > 0 => \A k \in Threads : PartSet(k)
    /\ main_pc \in Early => ~(tap[MainReserve].rate > 0) /\ ~(level[MainReserve] > 0)
    /\ main_pc \in {"main_reserve", "main_tap", "shares"} => turn = 1
    /\ main_pc \in {"reserve", "tap", "rate"} => \A i \in 1..(turn - 1) : PartSet(Order[i])
    /\ main_pc = "rate" => tap[ReserveOf[Order[turn]]].from = MainReserve
    /\ main_pc = "main_rate" => \A k \in Threads : PartSet(k)
=============================================================================
