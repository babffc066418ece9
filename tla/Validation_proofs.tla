-------------------------- MODULE Validation_proofs --------------------------
(***************************************************************************)
(* Proofs of the invariants of Validation, for any set of tasks and        *)
(* reserves that holds those of the programs, any maxval, any weights and  *)
(* lists of any length.  ValidationInv is inductive: each program keeps    *)
(* its own part of it and disturbs nothing the others rely on.             *)
(***************************************************************************)
EXTENDS Validation, TLAPS, SequenceTheorems

(* What a program may do to the kernel in one step, for one task and one   *)
(* reserve; Flow is the kernel's own.                                      *)
KernelCall(t, r) ==
    \/ create_reserve(t, r)
    \/ \E s \in Reserves : create_tap(s, r)
    \/ \E n \in Int : tap_set_rate(r, n)
    \/ set_active_reserve(t, r)
    \/ add_reserve_to_child_list(t, r)
    \/ del_reserve_from_child_list(t, r)
    \/ \E c \in Tasks : Fork(t, c) \/ StartThread(t, c)
    \/ Draw(t)
    \/ Flow(r)
    \/ UNCHANGED kernelVars

(* No call and no flow takes a reserve below 0 or above what it holds, or  *)
(* makes a task use something that is not a reserve.                       *)
LEMMA KernelKeepsTypes ==
    ASSUME EnergyTypeOK, NEW t \in Tasks, NEW r \in Reserves, KernelCall(t, r)
    PROVE  EnergyTypeOK'
<1> USE ReservesAssumption, MaxLevelAssumption DEF EnergyTypeOK
<1>1. CASE create_reserve(t, r) BY <1>1 DEF create_reserve
<1>2. CASE \E s \in Reserves : create_tap(s, r) BY <1>2 DEF create_tap
<1>3. CASE \E n \in Int : tap_set_rate(r, n)
  <2>1. PICK n \in Int : tap_set_rate(r, n) BY <1>3
  <2>2. tap' \in [Reserves -> [from : Reserves \cup {NoReserve}, rate : Int]]
    BY <2>1 DEF tap_set_rate
  <2> QED BY <2>1, <2>2 DEF tap_set_rate
<1>4. CASE set_active_reserve(t, r) BY <1>4 DEF set_active_reserve
<1>5. CASE add_reserve_to_child_list(t, r) BY <1>5 DEF add_reserve_to_child_list
<1>6. CASE del_reserve_from_child_list(t, r) BY <1>6 DEF del_reserve_from_child_list
<1>7. ASSUME NEW c \in Tasks, Fork(t, c) PROVE EnergyTypeOK'
  BY <1>7 DEF Fork
<1>8. ASSUME NEW c \in Tasks, StartThread(t, c) PROVE EnergyTypeOK'
  BY <1>8 DEF StartThread
<1>9. CASE Draw(t)
  <2>1. CASE active[t] = RootReserve BY <1>9, <2>1 DEF Draw
  <2>2. CASE active[t] # RootReserve
    <3>1. active[t] \in Reserves /\ level[active[t]] > 0
      BY <1>9, <2>2 DEF Draw, CanRun, HasEnergy
    <3>2. level' = [level EXCEPT ![active[t]] = @ - 1] BY <1>9, <2>2 DEF Draw
    <3>3. level' \in [Reserves -> 0..MaxLevel] BY <3>1, <3>2
    <3> QED BY <1>9, <3>3 DEF Draw
  <2> QED BY <2>1, <2>2
<1>10. CASE Flow(r)
  <2>1. ASSUME NEW q \in Reserves PROVE level'[q] \in 0..MaxLevel
    BY <1>10 DEF Flow, HasEnergy
  <2>2. level' \in [Reserves -> 0..MaxLevel] BY <1>10, <2>1 DEF Flow
  <2> QED BY <1>10, <2>2 DEF Flow
<1>11. CASE UNCHANGED kernelVars BY <1>11 DEF kernelVars
<1> QED
  BY <1>1, <1>2, <1>3, <1>4, <1>5, <1>6, <1>7, <1>8, <1>9, <1>10, <1>11 DEF KernelCall
(* Each step of test1_fork.c is one kernel call on reserves and tasks that *)
(* exist, and the child stops counting at maxval.                          *)
LEMMA ForkKeepsTypes ==
    ASSUME EnergyTypeOK, ForkTypeOK, ForkStep
    PROVE  EnergyTypeOK' /\ ForkTypeOK'
<1>1. PICK t \in Tasks, r \in Reserves : KernelCall(t, r)
  <2> DEFINE Known == {"parent", "child"} \subseteq Tasks /\ {TestReserve, RootReserve} \subseteq Reserves
  <2>0. Known BY ForkAssumption, ReservesAssumption
  <2> HIDE DEF Known
  <2>1. CASE CreateTestReserve
    BY <2>1, <2>0 DEF CreateTestReserve, KernelCall, Known
  <2>2. CASE CreateTestTap BY <2>2, <2>0 DEF CreateTestTap, KernelCall, Known
  <2>3. CASE RemoveRoot BY <2>3, <2>0 DEF RemoveRoot, KernelCall, Known
  <2>4. CASE AddTestReserve BY <2>4, <2>0 DEF AddTestReserve, KernelCall, Known
  <2>5. CASE ForkChild BY <2>5, <2>0 DEF ForkChild, KernelCall, Known
  <2>6. CASE StartTap
    <3>1. 1 \in Int OBVIOUS
    <3> QED BY <2>6, <2>0, <3>1 DEF StartTap, KernelCall, Known
  <2>7. CASE WaitOnChild BY <2>7, <2>0 DEF WaitOnChild, KernelCall, Known
  <2>8. CASE ParentExits BY <2>8, <2>0 DEF ParentExits, KernelCall, Known
  <2>9. CASE Count BY <2>9, <2>0 DEF Count, KernelCall, Known
  <2> QED BY <2>1, <2>2, <2>3, <2>4, <2>5, <2>6, <2>7, <2>8, <2>9 DEF ForkStep, ForkParent
<1>2. EnergyTypeOK' BY <1>1, KernelKeepsTypes
<1>3. ForkTypeOK'
  BY ForkAssumption
  DEF ForkTypeOK, ForkStep, ForkParent, ParentCalls, ParentAt, CreateTestReserve,
         CreateTestTap, RemoveRoot, AddTestReserve, ForkChild, StartTap, WaitOnChild,
         ParentExits, Count
<1> QED BY <1>2, <1>3

(* The names test2_subdivide_thread.c gives its threads and reserves are   *)
(* distinct from each other and from those of test1_fork.c.                *)
LEMMA ThreadsAndReserves ==
    /\ DOMAIN Order = 1..3 /\ Len(Order) = 3
    /\ \A i \in 1..3 : Order[i] \in Threads
    /\ \A k \in Threads : /\ k \in Tasks /\ k \notin {"main", "parent", "child"}
                          /\ ReserveOf[k] \in Reserves
                          /\ ReserveOf[k] \notin {RootReserve, NoReserve, MainReserve, TestReserve}
    /\ \A j, k \in Threads : j # k => ReserveOf[j] # ReserveOf[k]
    /\ MainReserve \in Reserves \ {RootReserve, NoReserve, TestReserve}
    /\ "main" \in Tasks
BY ReservesAssumption, SubdivideAssumption
DEF Order, Threads, ReserveOf, MainReserve, TestReserve

(* The share of a weight w out of a total t, cut to an integer, is a       *)
(* percentage, and all t parts of it come to no more than 100 w.           *)
LEMMA WholeQuotient ==
    ASSUME NEW w \in Nat, NEW t \in Nat, w <= t, t > 0
    PROVE  /\ (100 * w) \div t \in 0..100
           /\ t * ((100 * w) \div t) <= 100 * w
<1> DEFINE q == (100 * w) \div t
           m == (100 * w) % t
<1>1. q \in Int /\ m \in 0..(t-1) /\ 100 * w = t * q + m OBVIOUS
<1> HIDE DEF q, m
<1>2. t * q <= 100 * w BY <1>1
<1>3. q >= 0
  <2> SUFFICES ASSUME q < 0 PROVE FALSE BY <1>1
  <2>1. t * q <= t * (-1) BY <1>1
  <2> QED BY <1>1, <2>1
<1>4. q <= 100
  <2> SUFFICES ASSUME q > 100 PROVE FALSE BY <1>1
  <2>1. t * q >= t * 101 BY <1>1
  <2> QED BY <1>1, <2>1
<1> QED BY <1>1, <1>2, <1>3, <1>4 DEF q

(* Whatever the weights, a proportion is an int. *)
LEMMA ProportionIsInt ==
    ASSUME NEW w, NEW p \in Proportion(w)
    PROVE  p \in Ints
BY IntsAssumption DEF Proportion, ToInt

(* A sum that an int holds does not wrap. *)
LEMMA TotalIsSum ==
    ASSUME Sum \in 1..MaxInt
    PROVE  Total = Sum
<1> DEFINE x == Sum + MaxInt + 1
           n == 2 * (MaxInt + 1)
           q == x \div n
           m == x % n
<1>1. x \in Nat /\ n \in Nat /\ n > 0 /\ x < n /\ Sum = x - (MaxInt + 1) /\ Total = m - (MaxInt + 1)
  BY IntsAssumption DEF Total
<1> HIDE DEF x, n
<1>2. q \in Int /\ m \in 0..(n - 1) /\ x = n * q + m BY <1>1
<1> HIDE DEF q, m
<1>3. q = 0
  <2>1. q >= 1 => n * q >= n BY <1>1, <1>2
  <2>2. q <= -1 => n * q <= -n BY <1>1, <1>2
  <2> QED BY <1>1, <1>2, <2>1, <2>2
<1>4. x = m BY <1>1, <1>2, <1>3
<1> QED BY <1>1, <1>4

(* The three proportions, each rounded down or one below, add up to at     *)
(* most 100, for all weights whose sum is positive and fits an int.        *)
LEMMA SharesFit ==
    ASSUME weight \in [Threads -> 0..MaxInt], Sum \in 1..MaxInt,
           NEW a \in Proportion(weight.A), NEW b \in Proportion(weight.B),
           NEW c \in Proportion(weight.C)
    PROVE  a + b + c <= 100
<1> DEFINE x == weight.A
           y == weight.B
           z == weight.C
           Q(w) == (100 * w) \div Total
<1>1. /\ x \in Nat /\ y \in Nat /\ z \in Nat /\ Total = x + y + z
      /\ Total \in Nat /\ Total > 0
  BY TotalIsSum, IntsAssumption DEF Threads, Sum
<1>2. \A w \in {x, y, z} : Q(w) \in 0..100 /\ Total * Q(w) <= 100 * w
  <2> SUFFICES ASSUME NEW w \in {x, y, z}
               PROVE  Q(w) \in 0..100 /\ Total * Q(w) <= 100 * w
    OBVIOUS
  <2>1. w \in Nat /\ Total \in Nat /\ w <= Total /\ Total > 0
    <3> HIDE DEF x, y, z
    <3> QED BY <1>1
  <2> QED BY <2>1, WholeQuotient
<1>3. \A w \in {x, y, z} : \A p \in Proportion(w) : p \in {Q(w), Q(w) - 1}
  <2> SUFFICES ASSUME NEW w \in {x, y, z}, NEW p \in Proportion(w)
               PROVE  p \in {Q(w), Q(w) - 1}
    OBVIOUS
  <2> HIDE DEF Q, x, y, z
  <2>1. Q(w) \in Int /\ ToInt(Q(w)) = {Q(w)} /\ ToInt(Q(w) - 1) = {Q(w) - 1}
    BY <1>2, IntsAssumption DEF ToInt, Ints
  <2>2. p \in ToInt(Q(w)) \cup ToInt(Q(w) - 1) BY <1>1 DEF Proportion, Q
  <2> QED BY <2>1, <2>2
<1> HIDE DEF Q, x, y, z
<1>4. a \in Int /\ a <= Q(x) BY <1>2, <1>3, a \in Proportion(x) DEF x
<1>5. b \in Int /\ b <= Q(y) BY <1>2, <1>3, b \in Proportion(y) DEF y
<1>6. c \in Int /\ c <= Q(z) BY <1>2, <1>3, c \in Proportion(z) DEF z
<1>7. Q(x) + Q(y) + Q(z) <= 100
  <2> DEFINE s == Q(x) + Q(y) + Q(z)
  <2>1. /\ Q(x) \in Int /\ Total * Q(x) <= 100 * x
        /\ Q(y) \in Int /\ Total * Q(y) <= 100 * y
        /\ Q(z) \in Int /\ Total * Q(z) <= 100 * z
    BY <1>2
  <2>2. s \in Int /\ Total \in Nat /\ Total > 0 BY <2>1, <1>1
  <2>3. Total * s = Total * Q(x) + Total * Q(y) + Total * Q(z) BY <2>1, <2>2
  <2>4. Total * s <= 100 * Total BY <2>1, <2>2, <2>3, <1>1
  <2> HIDE DEF s
  <2>5. s > 100 => Total * s >= Total * 101 BY <2>2
  <2> QED BY <2>2, <2>4, <2>5 DEF s
<1>8. Q(x) \in Int /\ Q(y) \in Int /\ Q(z) \in Int BY <1>2
<1> QED BY <1>4, <1>5, <1>6, <1>7, <1>8

(* Each step of test2_subdivide_thread.c is one kernel call on reserves    *)
(* and tasks that exist, and turn stays within the three threads.          *)
LEMMA SubdivideKeepsTypes ==
    ASSUME EnergyTypeOK, SubdivideTypeOK, SubdivideStep
    PROVE  EnergyTypeOK' /\ SubdivideTypeOK'
<1>0. /\ turn \in 1..3 /\ Order[turn] \in Threads /\ ReserveOf[Order[turn]] \in Reserves
      /\ Order[turn] \in Tasks /\ share[Order[turn]] \in Int
  BY ThreadsAndReserves, IntsAssumption DEF SubdivideTypeOK, Ints
<1>1. PICK t \in Tasks, r \in Reserves : KernelCall(t, r)
  <2> DEFINE Known == /\ {"main", Order[turn]} \cup Threads \subseteq Tasks
                      /\ {MainReserve, RootReserve, ReserveOf[Order[turn]]} \subseteq Reserves
                      /\ \A k \in Threads : ReserveOf[k] \in Reserves
                      /\ share[Order[turn]] \in Int /\ 1 \in Int
  <2>0. Known BY <1>0, ThreadsAndReserves, ReservesAssumption
  <2> HIDE DEF Known
  <2>1. CASE CreateMainReserve BY <2>1, <2>0 DEF CreateMainReserve, KernelCall, Known
  <2>2. CASE CreateMainTap BY <2>2, <2>0 DEF CreateMainTap, KernelCall, Known
  <2>3. CASE ComputeShares BY <2>3, <2>0 DEF ComputeShares, KernelCall, Known
  <2>4. CASE CreatePartReserve BY <2>4, <2>0 DEF CreatePartReserve, KernelCall, Known
  <2>5. CASE CreatePartTap BY <2>5, <2>0 DEF CreatePartTap, KernelCall, Known
  <2>6. CASE SetPartRate BY <2>6, <2>0 DEF SetPartRate, KernelCall, Known
  <2>7. CASE FlowMainTap BY <2>7, <2>0 DEF FlowMainTap, KernelCall, Known
  <2>8. CASE CreateThread BY <2>8, <2>0 DEF CreateThread, KernelCall, Known
  <2>9. CASE StopThreads BY <2>9, <2>0 DEF StopThreads, KernelCall, Known
  <2>10. CASE Join BY <2>10, <2>0 DEF Join, KernelCall, Known
  <2>11. CASE Exit BY <2>11, <2>0 DEF Exit, KernelCall, Known
  <2>12. ASSUME NEW k \in Threads, SetActive(k) \/ ThreadCounts(k) \/ ThreadReturns(k)
         PROVE  \E t \in Tasks, r \in Reserves : KernelCall(t, r)
    BY <2>12, <2>0 DEF SetActive, ThreadCounts, ThreadReturns, KernelCall, Known
  <2> QED
    BY <2>1, <2>2, <2>3, <2>4, <2>5, <2>6, <2>7, <2>8, <2>9, <2>10, <2>11, <2>12
    DEF SubdivideStep, SubdivideMain
<1>2. EnergyTypeOK' BY <1>1, KernelKeepsTypes
<1>3. SubdivideTypeOK'
  <2> USE <1>0, ThreadsAndReserves DEF SubdivideTypeOK, MainCalls
  <2>1. CASE CreateMainReserve \/ CreateMainTap \/ CreatePartReserve \/ CreatePartTap \/ FlowMainTap
    BY <2>1 DEF CreateMainReserve, CreateMainTap, CreatePartReserve, CreatePartTap,
                FlowMainTap, MainAt, MainFrame
  <2>2. CASE ComputeShares
    <3>1. PICK a \in Proportion(weight.A), b \in Proportion(weight.B),
               c \in Proportion(weight.C) : share' = [A |-> a, B |-> b, C |-> c]
      BY <2>2 DEF ComputeShares
    <3>2. a \in Ints /\ b \in Ints /\ c \in Ints BY ProportionIsInt
    <3>3. share' \in [Threads -> Ints] BY <3>1, <3>2 DEF Threads
    <3> QED BY <2>2, <3>3 DEF ComputeShares, MainAt
  <2>3. CASE SetPartRate BY <2>3 DEF SetPartRate, NextTurn
  <2>4. CASE CreateThread BY <2>4 DEF CreateThread, NextTurn
  <2>5. CASE StopThreads BY <2>5 DEF StopThreads, MainAt
  <2>6. CASE Join BY <2>6 DEF Join, NextTurn
  <2>7. CASE Exit BY <2>7 DEF Exit
  <2>8. ASSUME NEW k \in Threads, SetActive(k) \/ ThreadCounts(k) \/ ThreadReturns(k)
        PROVE  SubdivideTypeOK'
    BY <2>8 DEF SetActive, ThreadCounts, ThreadReturns, ThreadFrame
  <2> QED BY <2>1, <2>2, <2>3, <2>4, <2>5, <2>6, <2>7, <2>8 DEF SubdivideStep, SubdivideMain
<1> QED BY <1>2, <1>3

(* The lines a user may type, as ShellTypeOK has them.                     *)
Lines == [command : Commands \cup {"none"}, question : 0..4]

(* Each command of cinder_ptest.c that makes a call asks one to four       *)
(* questions.                                                              *)
LEMMA QuestionCounts ==
    \A c \in DOMAIN Questions :
      /\ Len(Questions[c]) \in 1..4 /\ 0 < Len(Questions[c])
      /\ DOMAIN Questions[c] = 1..Len(Questions[c])
<1> SUFFICES ASSUME NEW c \in DOMAIN Questions
             PROVE  /\ Len(Questions[c]) \in 1..4 /\ 0 < Len(Questions[c])
                    /\ DOMAIN Questions[c] = 1..Len(Questions[c])
  OBVIOUS
<1>1. Questions[c] \in {handle_create_reserve, handle_create_tap, handle_reserve_transfer,
                        handle_info_reserve, handle_reserve_level, handle_tap_set_rate,
                        handle_expose_reserve, handle_put_reserve, handle_info_tap,
                        handle_delete_tap}
  BY DEF Questions
<1>2. \A q \in {handle_create_reserve, handle_put_reserve, handle_info_reserve,
                handle_reserve_level, handle_info_tap, handle_delete_tap} :
        Len(q) = 1 /\ DOMAIN q = 1..1
  <2>1. Len(handle_create_reserve) = 1 /\ DOMAIN handle_create_reserve = 1..1 BY DEF handle_create_reserve
  <2>2. Len(handle_put_reserve) = 1 /\ DOMAIN handle_put_reserve = 1..1 BY DEF handle_put_reserve
  <2>3. Len(handle_info_reserve) = 1 /\ DOMAIN handle_info_reserve = 1..1 BY DEF handle_info_reserve
  <2>4. Len(handle_reserve_level) = 1 /\ DOMAIN handle_reserve_level = 1..1 BY DEF handle_reserve_level
  <2>5. Len(handle_info_tap) = 1 /\ DOMAIN handle_info_tap = 1..1 BY DEF handle_info_tap
  <2>6. Len(handle_delete_tap) = 1 /\ DOMAIN handle_delete_tap = 1..1 BY DEF handle_delete_tap
  <2> QED BY <2>1, <2>2, <2>3, <2>4, <2>5, <2>6
<1>3. \A q \in {handle_create_tap, handle_tap_set_rate} :
        Len(q) = 3 /\ DOMAIN q = 1..3
  <2>1. Len(handle_create_tap) = 3 /\ DOMAIN handle_create_tap = 1..3 BY DEF handle_create_tap
  <2>2. Len(handle_tap_set_rate) = 3 /\ DOMAIN handle_tap_set_rate = 1..3 BY DEF handle_tap_set_rate
  <2> QED BY <2>1, <2>2
<1>4. \A q \in {handle_reserve_transfer, handle_expose_reserve} :
        Len(q) = 4 /\ DOMAIN q = 1..4
  <2>1. Len(handle_reserve_transfer) = 4 /\ DOMAIN handle_reserve_transfer = 1..4 BY DEF handle_reserve_transfer
  <2>2. Len(handle_expose_reserve) = 4 /\ DOMAIN handle_expose_reserve = 1..4 BY DEF handle_expose_reserve
  <2> QED BY <2>1, <2>2
<1>5. PICK n \in 1..4 : Len(Questions[c]) = n /\ DOMAIN Questions[c] = 1..n
  BY <1>1, <1>2, <1>3, <1>4
<1> QED BY <1>5

(* Before the first question there is no answer.                           *)
LEMMA NoAnswersYet ==
    /\ <<>> \in Seq(Lines) /\ Len(<<>>) = 0 /\ Len(<<>>) < 4
    /\ 1..Len(<<>>) = {}
BY EmptySeq

(* A fgets of cinder_ptest.c returns a line that was typed, and the typed  *)
(* line itself while none has been too long.                               *)
LEMMA NewLine ==
    ASSUME ShellTypeOK, NEW new \in Lines, Gets(new)
    PROVE  /\ Text(new) \in Lines
           /\ rest' \in Lines \cup {Nothing}
           /\ {overflowed', eof'} \subseteq BOOLEAN
           /\ ~overflowed' => ~overflowed /\ rest' = Nothing
BY DEF ShellTypeOK, Gets, Text, Lines

(* A handler of cinder_ptest.c never holds more answers than it asks for.  *)
LEMMA ShellKeepsTypes ==
    ASSUME ShellTypeOK, AsTyped, ShellStep
    PROVE  ShellTypeOK'
<1> DEFINE T == /\ shell_pc \in {"command", "question", "list", "listing", "exited"}
                /\ command \in Commands \cup {"none"}
                /\ answers \in Seq(Lines) /\ Len(answers) < 4
                /\ listed \in 0..MaxListed
                /\ rest \in Lines \cup {Nothing}
                /\ {overflowed, eof} \subseteq BOOLEAN
<1>0. (ShellTypeOK <=> T) /\ (ShellTypeOK' <=> T') BY DEF ShellTypeOK, Lines
<1> SUFFICES T' BY <1>0
<1>t. T /\ MaxListed \in Nat BY <1>0, MaxListedAssumption
<1>l. CommandLine \in Lines BY DEF CommandLine, Line, Lines
<1>b. BackToPrompt /\ rest' \in Lines \cup {Nothing} /\ {overflowed', eof'} \subseteq BOOLEAN
      => T'
  <2>1. 0 \in 0..MaxListed BY <1>t
  <2> HIDE DEF Lines, Commands
  <2> QED BY <1>t, <2>1, NoAnswersYet, Zenon DEF BackToPrompt
<1>1. ASSUME NEW c \in Commands, TakeCommand(c) PROVE T'
  <2>1. /\ rest' \in Lines \cup {Nothing} /\ {overflowed', eof'} \subseteq BOOLEAN
    BY <1>1, <1>l, NewLine DEF TakeCommand
  <2> QED BY <1>1, <1>t, <2>1 DEF TakeCommand
<1>2. CASE InvalidInput
  <2>1. /\ rest' \in Lines \cup {Nothing} /\ {overflowed', eof'} \subseteq BOOLEAN
    BY <1>2, <1>l, NewLine DEF InvalidInput
  <2> QED BY <1>2, <1>t, <2>1 DEF InvalidInput
<1>3. CASE Quit BY <1>3, <1>t DEF Quit, GetsNothing
<1>4. CASE NoAnswer BY <1>4, <1>t, <1>b DEF NoAnswer, GetsNothing
<1>5. CASE CountListed BY <1>5, <1>t DEF CountListed, ListFrame
<1>6. CASE ListOne BY <1>6, <1>t DEF ListOne, ListFrame
<1>7. CASE ListEnds BY <1>7, <1>t, <1>b DEF ListEnds
<1>8. CASE Answer
  <2> DEFINE asked == Line(command, Len(answers) + 1)
             given == Append(answers, Text(asked))
  <2>0. Len(answers) \in Nat BY <1>t, LenProperties, Zenon
  <2>1. asked \in Lines
    <3>1. Len(answers) + 1 \in 0..4 BY <1>t, <2>0
    <3> QED BY <1>t, <3>1 DEF Line, Lines
  <2>2. /\ Text(asked) \in Lines
        /\ rest' \in Lines \cup {Nothing} /\ {overflowed', eof'} \subseteq BOOLEAN
    BY <1>8, <2>1, NewLine DEF Answer
  <2>3. given \in Seq(Lines) /\ Len(given) = Len(answers) + 1
    BY <1>t, <2>2, AppendProperties
  <2>4. CASE Len(given) < Len(Questions[command])
    <3>1. answers' = given /\ UNCHANGED <<shell_pc, command, listed>>
      BY <1>8, <2>4 DEF Answer
    <3>2. Len(given) < 4
      <4>1. command \in DOMAIN Questions BY <1>8 DEF AsTyped, Answer
      <4>2. Len(Questions[command]) \in 1..4 BY <4>1, QuestionCounts
      <4> DEFINE n == Len(answers)
                 g == Len(given)
                 l == Len(Questions[command])
      <4>3. n \in Nat /\ g = n + 1 /\ g < l /\ l \in 1..4 BY <2>0, <2>3, <2>4, <4>2
      <4> HIDE DEF n, g, l
      <4>4. g < 4 BY <4>3
      <4> QED BY <4>4 DEF g
    <3> HIDE DEF given, asked, Lines, Commands
    <3> QED BY <1>t, <2>2, <2>3, <3>1, <3>2
  <2>5. CASE ~(Len(given) < Len(Questions[command]))
    <3>1. BackToPrompt BY <1>8, <2>5 DEF Answer
    <3> QED BY <3>1, <2>2, <1>b
  <2> QED BY <2>4, <2>5
<1> QED
  BY <1>0, <1>1, <1>2, <1>3, <1>4, <1>5, <1>6, <1>7, <1>8 DEF ShellStep, ShellReads
(* The answers stay in the order of the questions until the call is made,  *)
(* and the prompt starts with none.                                        *)
LEMMA ShellKeepsOrder ==
    ASSUME ShellTypeOK, AsTyped, CallsAsTyped, ShellStep
    PROVE  AsTyped' /\ CallsAsTyped'
<1>0. /\ answers \in Seq(Lines) /\ Len(answers) \in Nat
      /\ command \in Commands \cup {"none"}
  <2>1. answers \in Seq(Lines) BY DEF ShellTypeOK, Lines
  <2> QED BY <2>1, LenProperties, Zenon DEF ShellTypeOK
<1>b. ASSUME BackToPrompt, ~overflowed' => rest' = Nothing
      PROVE  AsTyped'
  BY <1>b, NoAnswersYet DEF BackToPrompt, AsTyped
<1>g. ASSUME NEW new, Gets(new), ~overflowed'
      PROVE  ~overflowed /\ rest' = Nothing /\ Text(new) = new
  BY <1>g DEF Gets, Text, AsTyped, ShellTypeOK
<1>1. ASSUME NEW c \in Commands, TakeCommand(c) PROVE AsTyped' /\ CallsAsTyped'
  <2>1. ~overflowed' => rest' = Nothing BY <1>1, <1>g DEF TakeCommand
  <2>2. answers' = <<>> BY <1>1 DEF TakeCommand, AsTyped
  <2>3. shell_pc' = "question" =>
          command' \in DOMAIN Questions /\ Len(answers') < Len(Questions[command'])
    <3>1. SUFFICES ASSUME c \notin Lists PROVE c \in DOMAIN Questions /\ 0 < Len(Questions[c])
      BY <1>1, <2>2, NoAnswersYet DEF TakeCommand
    <3>2. c \in DOMAIN Questions BY <3>1 DEF Commands
    <3> QED BY <3>2, QuestionCounts
  <2>4. shell_pc' # "command" BY <1>1 DEF TakeCommand
  <2>5. \A i \in 1..Len(answers') : answers'[i] = Line(command', i) BY <2>2, NoAnswersYet
  <2> QED BY <1>1, <2>1, <2>3, <2>4, <2>5 DEF TakeCommand, AsTyped, CallsAsTyped
<1>2. CASE InvalidInput
  <2>1. ~overflowed' => ~overflowed /\ rest' = Nothing BY <1>2, <1>g DEF InvalidInput
  <2> QED BY <1>2, <2>1 DEF InvalidInput, AsTyped, CallsAsTyped
<1>3. CASE Quit
  BY <1>3 DEF Quit, GetsNothing, AsTyped, CallsAsTyped
<1>4. CASE NoAnswer
  <2>1. AsTyped' BY <1>4, <1>b DEF NoAnswer, GetsNothing, AsTyped
  <2> QED BY <1>4, <2>1 DEF NoAnswer, GetsNothing, CallsAsTyped
<1>5. CASE CountListed \/ ListOne
  BY <1>5 DEF CountListed, ListOne, ListFrame, AsTyped, CallsAsTyped
<1>6. CASE ListEnds
  <2>1. AsTyped' BY <1>6, <1>b DEF ListEnds, AsTyped
  <2> QED BY <1>6, <2>1 DEF ListEnds, CallsAsTyped
<1>7. CASE Answer
  <2> DEFINE asked == Line(command, Len(answers) + 1)
             given == Append(answers, Text(asked))
  <2>1. command \in DOMAIN Questions /\ Len(answers) < Len(Questions[command])
    BY <1>7 DEF Answer, AsTyped
  <2>2. Gets(asked) BY <1>7 DEF Answer
  <2>3. ~overflowed' => ~overflowed /\ rest' = Nothing /\ Text(asked) = asked
    BY <1>g, <2>2
  <2>4. /\ Len(given) = Len(answers) + 1 /\ given[Len(answers) + 1] = Text(asked)
        /\ \A i \in 1..Len(answers) : given[i] = answers[i]
        /\ DOMAIN given = 1..Len(given)
        /\ given = [i \in DOMAIN given |-> given[i]]
    <3>1. Text(asked) \in Lines
      <4>1. asked \in Lines
        <5>1. Len(answers) + 1 \in 0..4
          <6> DEFINE n == Len(answers)
                     l == Len(Questions[command])
          <6>1. n \in Nat /\ n < l /\ l \in 1..4 BY <1>0, <2>1, QuestionCounts
          <6> HIDE DEF n, l
          <6>2. n + 1 \in 0..4 BY <6>1
          <6> QED BY <6>2 DEF n
        <5> QED BY <1>0, <5>1 DEF Line, Lines
      <4> QED BY <4>1, <2>2, NewLine
    <3> HIDE DEF asked, Lines
    <3>2. given \in Seq(Lines) BY <1>0, <3>1, AppendProperties
    <3>3. given \in [1..Len(given) -> Lines]
      <4> HIDE DEF given
      <4> QED BY <3>2, LenProperties, ElementOfSeq, Zenon
    <3>4. DOMAIN given = 1..Len(given) /\ given = [i \in DOMAIN given |-> given[i]]
      <4> HIDE DEF given
      <4> QED BY <3>3
    <3>5. /\ Len(given) = Len(answers) + 1 /\ given[Len(answers) + 1] = Text(asked)
          /\ \A i \in 1..Len(answers) : given[i] = answers[i]
      <4> HIDE DEF given
      <4>1. \A t \in Lines : /\ Len(Append(answers, t)) = Len(answers) + 1
                              /\ Append(answers, t)[Len(answers) + 1] = t
                              /\ \A i \in 1..Len(answers) : Append(answers, t)[i] = answers[i]
        BY <1>0, AppendProperties
      <4> QED BY <4>1, <3>1, Zenon DEF given
    <3> QED BY <3>4, <3>5
  <2>5. ~overflowed' => \A i \in 1..Len(given) : given[i] = Line(command, i)
    <3> SUFFICES ASSUME ~overflowed', NEW i \in 1..Len(given) PROVE given[i] = Line(command, i)
      OBVIOUS
    <3>1. CASE i = Len(answers) + 1 BY <3>1, <2>3, <2>4
    <3>2. CASE i \in 1..Len(answers) BY <3>2, <2>3, <2>4 DEF AsTyped
    <3> HIDE DEF given
    <3>3. i = Len(answers) + 1 \/ i \in 1..Len(answers) BY <1>0, <2>4
    <3> QED BY <3>1, <3>2, <3>3
  <2>6. CASE Len(given) < Len(Questions[command])
    <3>1. /\ answers' = given /\ UNCHANGED <<shell_pc, command, called>>
          /\ shell_pc = "question"
      BY <1>7, <2>6 DEF Answer
    <3> HIDE DEF given, asked
    <3>2. AsTyped' BY <2>1, <2>3, <2>5, <2>6, <3>1 DEF AsTyped
    <3> QED BY <2>3, <3>1, <3>2 DEF CallsAsTyped
  <2>7. CASE ~(Len(given) < Len(Questions[command]))
    <3>1. called' = [command |-> command, arguments |-> given] /\ BackToPrompt
      BY <1>7, <2>7 DEF Answer
    <3>2. AsTyped' BY <1>b, <2>3, <3>1
    <3> HIDE DEF asked
    <3>3. Len(given) = Len(Questions[command])
      <4> DEFINE n == Len(answers)
                 g == Len(given)
                 l == Len(Questions[command])
      <4>1. n \in Nat /\ g = n + 1 /\ ~(g < l) /\ n < l /\ l \in 1..4
        BY <1>0, <2>1, <2>4, <2>7, QuestionCounts
      <4> HIDE DEF n, g, l
      <4>2. g = l BY <4>1
      <4> QED BY <4>2 DEF g, l
    <3> HIDE DEF given
    <3>4. CallsAsTyped'
      <4>1. DOMAIN Questions[command] = 1..Len(given) BY <2>1, <3>3, QuestionCounts
      <4> QED BY <2>4, <2>5, <3>1, <4>1 DEF CallsAsTyped
    <3> QED BY <3>2, <3>4
  <2> QED BY <2>6, <2>7
<1> QED
  BY <1>1, <1>2, <1>3, <1>4, <1>5, <1>6, <1>7 DEF ShellStep, ShellReads
(* The parent of test1_fork.c clears and refills its child list before it  *)
(* forks, and the child never changes what it was given.                   *)
LEMMA ForkKeepsInv ==
    ASSUME EnergyTypeOK, ForkTypeOK, ForkInv, ForkStep
    PROVE  ForkInv'
<1> DEFINE c == child_list["parent"]
<1>0. /\ "parent" \in Tasks /\ "child" \in Tasks /\ "parent" # "child"
      /\ active \in [Tasks -> Reserves \cup {NoReserve}]
      /\ reach \in [Tasks -> SUBSET Reserves] /\ child_list \in [Tasks -> SUBSET Reserves]
  BY ForkAssumption DEF EnergyTypeOK
<1> USE DEF ForkInv, ChildListReady, ForkIsolated, ParentAt
<1>1. CASE CreateTestReserve BY <1>0, <1>1 DEF CreateTestReserve, create_reserve
<1>2. CASE CreateTestTap BY <1>2 DEF CreateTestTap, create_tap
<1>3. CASE RemoveRoot BY <1>0, <1>3 DEF RemoveRoot, del_reserve_from_child_list
<1>4. CASE AddTestReserve BY <1>0, <1>4 DEF AddTestReserve, add_reserve_to_child_list
<1>5. CASE ForkChild
  <2>1. c = {TestReserve} BY <1>5 DEF ForkChild
  <2>2. active'["child"] = TestReserve /\ reach'["child"] = {TestReserve}
    BY <1>0, <1>5, <2>1 DEF ForkChild, Fork
  <2> QED BY <1>5, <2>2 DEF ForkChild
<1>6. CASE StartTap BY <1>6 DEF StartTap, tap_set_rate
<1>7. CASE WaitOnChild \/ ParentExits
  BY <1>7 DEF WaitOnChild, ParentExits, ParentCalls, kernelVars
<1>8. CASE Count BY <1>8 DEF Count, Draw
<1> QED BY <1>1, <1>2, <1>3, <1>4, <1>5, <1>6, <1>7, <1>8 DEF ForkStep, ForkParent

(* test2_subdivide_thread.c touches neither the child nor the child list   *)
(* of test1_fork.c.                                                        *)
LEMMA SubdivideSparesFork ==
    ASSUME EnergyTypeOK, SubdivideTypeOK, SubdivideStep
    PROVE  /\ active'["child"] = active["child"] /\ reach'["child"] = reach["child"]
           /\ child_list'["parent"] = child_list["parent"]
<1>0. /\ active \in [Tasks -> Reserves \cup {NoReserve}]
      /\ reach \in [Tasks -> SUBSET Reserves] /\ child_list \in [Tasks -> SUBSET Reserves]
      /\ "main" \notin {"parent", "child"} /\ {"parent", "child"} \subseteq Tasks
  BY ForkAssumption DEF EnergyTypeOK
<1>1. Order[turn] \notin {"parent", "child"} BY ThreadsAndReserves DEF SubdivideTypeOK
<1>2. CASE SubdivideMain
  BY <1>0, <1>1, <1>2 DEF SubdivideMain, CreateMainReserve, CreateMainTap, ComputeShares,
     CreatePartReserve, CreatePartTap, SetPartRate, FlowMainTap, CreateThread, StopThreads,
     Join, create_reserve, create_tap, tap_set_rate, StartThread, kernelVars
<1>3. CASE Exit BY <1>3 DEF Exit, kernelVars
<1>4. ASSUME NEW k \in Threads, SetActive(k) \/ ThreadCounts(k) \/ ThreadReturns(k)
      PROVE  /\ active'["child"] = active["child"] /\ reach'["child"] = reach["child"]
             /\ child_list'["parent"] = child_list["parent"]
  <2>1. k \notin {"parent", "child"} BY ThreadsAndReserves
  <2> QED BY <1>0, <1>4, <2>1 DEF SetActive, ThreadCounts, ThreadReturns, set_active_reserve, Draw
<1> QED BY <1>2, <1>3, <1>4 DEF SubdivideStep

(* test1_fork.c leaves the active reserves of the threads and the taps of  *)
(* test2_subdivide_thread.c alone, and puts nothing in the main reserve.   *)
LEMMA ForkSparesThreads ==
    ASSUME EnergyTypeOK, ForkStep
    PROVE  /\ \A k \in {"main"} \cup Threads : active'[k] = active[k]
           /\ \A r \in {MainReserve} \cup {ReserveOf[k] : k \in Threads} : tap'[r] = tap[r]
           /\ level'[MainReserve] <= level[MainReserve]
<1>0. /\ active \in [Tasks -> Reserves \cup {NoReserve}] /\ {"main"} \cup Threads \subseteq Tasks
      /\ tap \in [Reserves -> [from : Reserves \cup {NoReserve}, rate : Int]]
      /\ level \in [Reserves -> 0..MaxLevel] /\ MaxLevel \in Nat /\ level[MainReserve] \in Int
      /\ "child" \notin {"main"} \cup Threads
      /\ TestReserve \notin {MainReserve} \cup {ReserveOf[k] : k \in Threads}
      /\ {MainReserve} \cup {ReserveOf[k] : k \in Threads} \subseteq Reserves
  <2>1. level[MainReserve] \in 0..MaxLevel BY ThreadsAndReserves DEF EnergyTypeOK
  <2> QED BY <2>1, ThreadsAndReserves, MaxLevelAssumption, SubdivideAssumption DEF EnergyTypeOK
<1>1. CASE ForkParent \/ ParentExits
  <2>1. level' = level
    BY <1>1 DEF ForkParent, ParentExits, CreateTestReserve, CreateTestTap, RemoveRoot,
       AddTestReserve, ForkChild, StartTap, WaitOnChild, create_reserve, create_tap, tap_set_rate,
       del_reserve_from_child_list, add_reserve_to_child_list, Fork, kernelVars
  <2>2. \A r \in {MainReserve} \cup {ReserveOf[k] : k \in Threads} : tap'[r] = tap[r]
    BY <1>0, <1>1 DEF ForkParent, ParentExits, CreateTestReserve, CreateTestTap, RemoveRoot,
       AddTestReserve, ForkChild, StartTap, WaitOnChild, create_reserve, create_tap, tap_set_rate,
       del_reserve_from_child_list, add_reserve_to_child_list, Fork, kernelVars
  <2>3. \A k \in {"main"} \cup Threads : active'[k] = active[k]
    BY <1>0, <1>1 DEF ForkParent, ParentExits, CreateTestReserve, CreateTestTap, RemoveRoot,
       AddTestReserve, ForkChild, StartTap, WaitOnChild, create_reserve, create_tap, tap_set_rate,
       del_reserve_from_child_list, add_reserve_to_child_list, Fork, kernelVars
  <2> QED BY <1>0, <2>1, <2>2, <2>3
<1>2. CASE Count
  BY <1>0, <1>2 DEF Count, Draw
<1> QED BY <1>1, <1>2 DEF ForkStep
(* A thread gets the root reserve from main and then its own, and is not   *)
(* counting in between.                                                    *)
LEMMA SubdivideKeepsThreadInv ==
    ASSUME EnergyTypeOK, SubdivideTypeOK, ThreadInv, SubdivideStep
    PROVE  ThreadInv'
<1>0. /\ active \in [Tasks -> Reserves \cup {NoReserve}]
      /\ thread_pc \in [Threads -> {"none", "set_active_reserve", "counting", "returned", "gone"}]
      /\ "main" \in Tasks /\ "main" \notin Threads /\ Threads \subseteq Tasks
      /\ Order[turn] \in Threads
  BY ThreadsAndReserves DEF EnergyTypeOK, SubdivideTypeOK
<1> USE DEF ThreadInv
<1>1. CASE CreateThread
  BY <1>0, <1>1 DEF CreateThread, StartThread
<1>2. CASE SubdivideMain /\ ~CreateThread
  BY <1>2 DEF SubdivideMain, CreateMainReserve, CreateMainTap, ComputeShares, CreatePartReserve,
     CreatePartTap, SetPartRate, FlowMainTap, StopThreads, Join, MainFrame,
     create_reserve, create_tap, tap_set_rate, kernelVars
<1>3. CASE Exit BY <1>3 DEF Exit, kernelVars
<1>4. ASSUME NEW k \in Threads, SetActive(k) PROVE ThreadInv'
  BY <1>0, <1>4 DEF SetActive, set_active_reserve
<1>5. ASSUME NEW k \in Threads, ThreadCounts(k) \/ ThreadReturns(k) PROVE ThreadInv'
  BY <1>0, <1>5 DEF ThreadCounts, ThreadReturns, Draw
<1> QED BY <1>1, <1>2, <1>3, <1>4, <1>5 DEF SubdivideStep

(* Main sets the rate of each part before it goes on to the next, and      *)
(* opens the tap into the main reserve after the last.                     *)
LEMMA SubdivideKeepsShareInv ==
    ASSUME EnergyTypeOK, SubdivideTypeOK, ShareInv, SubdivideStep
    PROVE  ShareInv'
<1>0. /\ level \in [Reserves -> 0..MaxLevel] /\ MaxLevel \in Nat
      /\ tap \in [Reserves -> [from : Reserves \cup {NoReserve}, rate : Int]]
      /\ share \in [Threads -> Int] /\ turn \in 1..3
      /\ Order[turn] \in Threads
  BY ThreadsAndReserves, MaxLevelAssumption, IntsAssumption
  DEF EnergyTypeOK, SubdivideTypeOK, Ints
<1>l. /\ MainReserve \in Reserves /\ ReserveOf[Order[turn]] \in Reserves
      /\ ReserveOf[Order[turn]] # MainReserve
      /\ \A k \in Threads : ReserveOf[k] \in Reserves /\ ReserveOf[k] # MainReserve
      /\ \A j, k \in Threads : j # k => ReserveOf[j] # ReserveOf[k]
      /\ Len(Order) = 3 /\ \A i \in 1..3 : Order[i] \in Threads
      /\ \A k \in Threads : \E i \in 1..3 : k = Order[i]
      /\ \A i, j \in 1..3 : i # j => Order[i] # Order[j]
      /\ tap[MainReserve].rate \in Int /\ level[MainReserve] \in Nat
  <2>1. \A k \in Threads : \E i \in 1..3 : k = Order[i] BY DEF Threads, Order
  <2>2. \A i, j \in 1..3 : i # j => Order[i] # Order[j] BY DEF Order
  <2>3. tap[MainReserve].rate \in Int /\ level[MainReserve] \in Nat
    BY <1>0, ThreadsAndReserves
  <2> QED BY <1>0, <2>1, <2>2, <2>3, ThreadsAndReserves
<1>w. Sum' = Sum
  <2>1. weight' = weight
    BY DEF SubdivideStep, SubdivideMain, CreateMainReserve, CreateMainTap, ComputeShares,
           CreatePartReserve, CreatePartTap, SetPartRate, FlowMainTap, CreateThread,
           StopThreads, Join, Exit, SetActive, ThreadCounts, ThreadReturns, MainFrame,
           ThreadFrame
  <2> QED BY <2>1 DEF Sum
<1> USE <1>w DEF ShareInv, PartSet, Early
<1>1. CASE CreateMainReserve
  BY <1>1, <1>l DEF CreateMainReserve, create_reserve, MainAt, MainFrame
<1>2. CASE CreateMainTap
  BY <1>2, <1>0, <1>l DEF CreateMainTap, create_tap, MainAt, MainFrame
<1>3. CASE ComputeShares
  <2>1. PICK a \in Proportion(weight.A), b \in Proportion(weight.B),
             c \in Proportion(weight.C) : share' = [A |-> a, B |-> b, C |-> c]
    BY <1>3 DEF ComputeShares
  <2>2. Sum \in 1..MaxInt => a + b + c <= 100 BY SharesFit DEF SubdivideTypeOK
  <2>3. turn = 1 /\ turn' = turn /\ main_pc' = "reserve" /\ tap' = tap /\ level' = level
    BY <1>3 DEF ComputeShares, MainAt, kernelVars
  <2>4. ~(tap[MainReserve].rate > 0) /\ ~(level[MainReserve] > 0)
    BY <1>3 DEF ComputeShares, MainAt
  <2> QED BY <2>1, <2>2, <2>3, <2>4
<1>4. CASE CreatePartReserve
  BY <1>4, <1>l DEF CreatePartReserve, create_reserve, MainAt, MainFrame
<1>5. CASE CreatePartTap
  <2>1. /\ main_pc = "tap" /\ main_pc' = "rate" /\ UNCHANGED <<level, share, turn>>
        /\ tap' = [tap EXCEPT ![ReserveOf[Order[turn]]] = [from |-> MainReserve, rate |-> 0]]
    BY <1>5 DEF CreatePartTap, create_tap, MainAt, MainFrame
  <2>2. tap'[MainReserve] = tap[MainReserve] BY <2>1, <1>0, <1>l
  <2>3. \A i \in 1..(turn - 1) : PartSet(Order[i])'
    BY <2>1, <1>0, <1>l
  <2>4. tap'[ReserveOf[Order[turn]]].from = MainReserve BY <2>1, <1>0, <1>l
  <2> QED BY <2>1, <2>2, <2>3, <2>4
<1>6. CASE SetPartRate
  <2>1. /\ main_pc = "rate" /\ NextTurn("reserve", "main_rate") /\ UNCHANGED <<level, share>>
        /\ tap' = [tap EXCEPT ![ReserveOf[Order[turn]]].rate = share[Order[turn]]]
    BY <1>6 DEF SetPartRate, tap_set_rate
  <2>2. tap'[MainReserve] = tap[MainReserve] BY <2>1, <1>0, <1>l
  <2>3. tap'[ReserveOf[Order[turn]]] = [from |-> MainReserve, rate |-> share[Order[turn]]]
    <3> DEFINE r == ReserveOf[Order[turn]]
               n == share[Order[turn]]
    <3>1. /\ r \in Reserves /\ n \in Int /\ tap[r].from = MainReserve
          /\ tap[r] \in [from : Reserves \cup {NoReserve}, rate : Int]
          /\ tap' = [tap EXCEPT ![r].rate = n]
      BY <2>1, <1>0, <1>l
    <3> HIDE DEF r, n
    <3>2. tap'[r] = [tap[r] EXCEPT !.rate = n] BY <3>1, <1>0
    <3>3. tap'[r] = [from |-> MainReserve, rate |-> n] BY <3>1, <3>2
    <3> QED BY <3>3 DEF r, n
  <2>4. \A i \in 1..(turn - 1) : PartSet(Order[i])'
    <3> SUFFICES ASSUME NEW i \in 1..(turn - 1) PROVE PartSet(Order[i])'
      OBVIOUS
    <3>1. i \in 1..3 /\ i # turn BY <1>0
    <3>2. Order[i] \in Threads /\ Order[i] # Order[turn] BY <3>1, <1>0, <1>l
    <3>3. ReserveOf[Order[i]] \in Reserves /\ ReserveOf[Order[i]] # ReserveOf[Order[turn]]
      BY <3>2, <1>0, <1>l
    <3>4. tap'[ReserveOf[Order[i]]] = tap[ReserveOf[Order[i]]] BY <3>3, <2>1, <1>0
    <3>5. PartSet(Order[i]) BY <2>1
    <3> QED BY <3>4, <3>5, <2>1
  <2>7. \A i \in 1..turn : /\ Order[i] \in Threads
                           /\ tap'[ReserveOf[Order[i]]] = [from |-> MainReserve, rate |-> share'[Order[i]]]
    <3> SUFFICES ASSUME NEW i \in 1..turn
                 PROVE  tap'[ReserveOf[Order[i]]] = [from |-> MainReserve, rate |-> share'[Order[i]]]
      BY <1>0, <1>l
    <3>1. CASE i = turn BY <3>1, <2>1, <2>3
    <3>2. CASE i # turn
      <4>1. i \in 1..(turn - 1) BY <3>2, <1>0
      <4> QED BY <4>1, <2>4
    <3> QED BY <3>1, <3>2
  <2>5. CASE turn < 3
    <3>1. main_pc' = "reserve" /\ turn' = turn + 1 BY <2>1, <2>5, <1>l DEF NextTurn
    <3>2. turn' - 1 = turn BY <3>1, <1>0
    <3>3. \A i \in 1..(turn' - 1) : PartSet(Order[i])' BY <3>2, <2>7
    <3> QED BY <2>1, <2>2, <3>1, <3>3
  <2>6. CASE ~(turn < 3)
    <3>1. main_pc' = "main_rate" /\ turn = 3 BY <2>1, <2>6, <1>0, <1>l DEF NextTurn
    <3>3. \A k \in Threads : PartSet(k)' BY <3>1, <2>7, <1>l
    <3> QED BY <2>1, <2>2, <3>1, <3>3
  <2> QED BY <2>5, <2>6
<1>7. CASE FlowMainTap
  <2>1. /\ main_pc = "main_rate" /\ main_pc' = "create" /\ UNCHANGED <<level, share, turn>>
        /\ tap' = [tap EXCEPT ![MainReserve].rate = 1]
    BY <1>7 DEF FlowMainTap, tap_set_rate, MainAt, MainFrame
  <2>2. \A k \in Threads : PartSet(k)' BY <2>1, <1>0, <1>l
  <2> QED BY <2>1, <2>2
<1>8. CASE CreateThread
  BY <1>8 DEF CreateThread, StartThread, NextTurn
<1>9. CASE StopThreads \/ Join \/ Exit
  BY <1>9 DEF StopThreads, Join, Exit, NextTurn, MainAt, kernelVars
<1>10. ASSUME NEW k \in Threads, SetActive(k) PROVE ShareInv'
  BY <1>10 DEF SetActive, set_active_reserve, ThreadFrame
<1>11. ASSUME NEW k \in Threads, ThreadCounts(k) \/ ThreadReturns(k) PROVE ShareInv'
  <2>1. level'[MainReserve] > 0 => level[MainReserve] > 0
    BY <1>11, <1>0, <1>l DEF ThreadCounts, ThreadReturns, Draw
  <2>2. UNCHANGED <<tap, share, main_pc, turn>>
    BY <1>11 DEF ThreadCounts, ThreadReturns, Draw, ThreadFrame
  <2> QED BY <2>1, <2>2
<1> QED
  BY <1>1, <1>2, <1>3, <1>4, <1>5, <1>6, <1>7, <1>8, <1>9, <1>10, <1>11
  DEF SubdivideStep, SubdivideMain

(* Energy comes to the main reserve through its own tap only.              *)
LEMMA FlowKeepsShareInv ==
    ASSUME EnergyTypeOK, ShareInv, NEW r \in Reserves, Flow(r),
           UNCHANGED <<weight, share, main_pc, turn>>
    PROVE  ShareInv'
<1>0. /\ MainReserve \in Reserves /\ level[MainReserve] \in Nat
      /\ MainReserve # RootReserve
      /\ \A q \in Reserves : level[q] \in Nat
      /\ tap' = tap
  BY ThreadsAndReserves, MaxLevelAssumption DEF EnergyTypeOK, Flow
<1>1. level'[MainReserve] > 0 => tap[MainReserve].rate > 0 \/ level[MainReserve] > 0
  BY <1>0 DEF Flow
<1>2. Sum' = Sum BY DEF Sum
<1> QED BY <1>0, <1>1, <1>2 DEF ShareInv, PartSet

(* Whichever of the three programs is started, the invariant holds before  *)
(* its first step.                                                         *)
LEMMA ValidationStarts == ValidationInit => ValidationInv
<1> SUFFICES ASSUME ValidationInit PROVE ValidationInv OBVIOUS
<1>1. EnergyInit({"parent", "main"}) BY DEF ValidationInit
<1>2. EnergyTypeOK
  BY <1>1, ReservesAssumption, MaxLevelAssumption DEF EnergyInit, EnergyTypeOK
<1>3. ForkTypeOK /\ child_pc = "none" /\ parent_pc \in {"off", "create_reserve"}
  BY ForkAssumption DEF ValidationInit, ForkInit, ForkOff, ForkTypeOK, ParentCalls
<1>4. ForkInv
  <2>1. child_list["parent"] = {RootReserve} BY <1>1, ForkAssumption DEF EnergyInit
  <2> QED BY <1>3, <2>1 DEF ForkInv, ChildListReady, ForkIsolated
<1>5. /\ weight \in [Threads -> 0..MaxInt] /\ share = [k \in Threads |-> 0]
      /\ main_pc \in {"off", "main_reserve"} /\ turn = 1
      /\ thread_pc = [k \in Threads |-> "none"] /\ keep_running = TRUE
  BY IntsAssumption DEF ValidationInit, SubdivideInit, SubdivideOff
<1>6. SubdivideTypeOK
  BY <1>5, ThreadsAndReserves, IntsAssumption DEF SubdivideTypeOK, MainCalls, Ints
<1>7. ThreadInv
  BY <1>1, <1>5, ThreadsAndReserves DEF EnergyInit, ThreadInv
<1>8. ShareInv
  <2>1. share.A = 0 /\ share.B = 0 /\ share.C = 0 BY <1>5 DEF Threads
  <2>2. tap[MainReserve].rate = 0 /\ level[MainReserve] = 0
    BY <1>1, ThreadsAndReserves DEF EnergyInit
  <2> QED BY <1>5, <2>1, <2>2 DEF ShareInv
<1>9. ShellTypeOK /\ AsTyped /\ CallsAsTyped
  <2>1. /\ shell_pc \in {"command", "exited"} /\ command = "none" /\ answers = <<>> /\ listed = 0
        /\ rest = Nothing /\ overflowed = FALSE /\ eof = FALSE /\ called = Nothing
    BY DEF ValidationInit, ShellInit, ShellOff, Idle
  <2>2. answers \in Seq(Lines) /\ Len(answers) < 4 BY <2>1, NoAnswersYet
  <2>4. listed \in 0..MaxListed BY <2>1, MaxListedAssumption
  <2>5. {overflowed, eof} \subseteq BOOLEAN BY <2>1
  <2>3. ShellTypeOK
    BY <2>1, <2>2, <2>4, <2>5, Zenon DEF ShellTypeOK, Lines
  <2> QED BY <2>1, <2>3, NoAnswersYet DEF AsTyped, CallsAsTyped
<1> QED BY <1>2, <1>3, <1>4, <1>6, <1>7, <1>8, <1>9 DEF ValidationInv, ValidationTypeOK

(* Each step of a program keeps its part of the invariant by the lemma on  *)
(* that program, and the other parts because it leaves alone what they     *)
(* speak of; so does each flow of a tap.                                   *)
LEMMA ValidationStep ==
    ASSUME ValidationInv, [ValidationNext]_validationVars
    PROVE  ValidationInv'
<1> USE DEF ValidationInv, ValidationTypeOK
<1>k. UNCHANGED kernelVars => EnergyTypeOK' BY DEF kernelVars, EnergyTypeOK
<1>f. UNCHANGED forkVars => ForkTypeOK' BY DEF forkVars, ForkTypeOK
<1>s. UNCHANGED subdivideVars => SubdivideTypeOK' BY DEF subdivideVars, SubdivideTypeOK
<1>h. UNCHANGED shellVars => ShellTypeOK' /\ AsTyped' /\ CallsAsTyped'
  BY DEF shellVars, ShellTypeOK, AsTyped, CallsAsTyped
<1>i. UNCHANGED forkVars /\ active'["child"] = active["child"] /\ reach'["child"] = reach["child"]
        /\ child_list'["parent"] = child_list["parent"]
      => ForkInv'
  BY DEF forkVars, ForkInv, ChildListReady, ForkIsolated
<1>t. UNCHANGED subdivideVars /\ (\A k \in {"main"} \cup Threads : active'[k] = active[k])
      => ThreadInv'
  BY DEF subdivideVars, ThreadInv
<1>1. CASE ForkProgram
  <2>1. ForkStep /\ UNCHANGED <<subdivideVars, shellVars>> BY <1>1 DEF ForkProgram
  <2>2. /\ \A k \in {"main"} \cup Threads : active'[k] = active[k]
        /\ \A r \in {MainReserve} \cup {ReserveOf[k] : k \in Threads} : tap'[r] = tap[r]
        /\ level'[MainReserve] <= level[MainReserve]
    BY <2>1, ForkSparesThreads
  <2>3. EnergyTypeOK' /\ ForkTypeOK' BY <2>1, ForkKeepsTypes
  <2>4. level[MainReserve] \in Nat /\ level'[MainReserve] \in Nat
    BY <2>3, ThreadsAndReserves, MaxLevelAssumption DEF EnergyTypeOK
  <2>5. ShareInv'
    <3>1. UNCHANGED <<share, main_pc, turn>> /\ Sum' = Sum BY <2>1 DEF subdivideVars, Sum
    <3>2. \A k \in Threads : tap'[ReserveOf[k]] = tap[ReserveOf[k]] BY <2>2
    <3>3. tap'[MainReserve] = tap[MainReserve] BY <2>2
    <3>4. level'[MainReserve] > 0 => level[MainReserve] > 0 BY <2>2, <2>4
    <3>5. \A i \in 1..(turn - 1) : Order[i] \in Threads
      BY ThreadsAndReserves DEF SubdivideTypeOK
    <3>6. Order[turn] \in Threads BY ThreadsAndReserves DEF SubdivideTypeOK
    <3> QED BY <3>1, <3>2, <3>3, <3>4, <3>5, <3>6 DEF ShareInv, PartSet
  <2>6. ForkInv' BY <2>1, ForkKeepsInv
  <2> QED BY <2>1, <2>2, <2>3, <2>5, <2>6, <1>s, <1>h, <1>t
<1>2. CASE SubdivideProgram
  <2>1. SubdivideStep /\ UNCHANGED <<forkVars, shellVars>> BY <1>2 DEF SubdivideProgram
  <2>2. EnergyTypeOK' /\ SubdivideTypeOK' BY <2>1, SubdivideKeepsTypes
  <2>3. ForkInv' BY <2>1, <1>i, SubdivideSparesFork
  <2>4. ThreadInv' /\ ShareInv' BY <2>1, SubdivideKeepsThreadInv, SubdivideKeepsShareInv
  <2> QED BY <2>1, <2>2, <2>3, <2>4, <1>f, <1>h
<1>3. CASE Shell
  <2>1. ShellStep /\ UNCHANGED <<kernelVars, forkVars, subdivideVars>> BY <1>3 DEF Shell
  <2>2. ShellTypeOK' /\ AsTyped' /\ CallsAsTyped' BY <2>1, ShellKeepsTypes, ShellKeepsOrder
  <2>3. ForkInv' /\ ThreadInv' BY <2>1, <1>i, <1>t DEF kernelVars
  <2>0. Sum' = Sum BY <2>1 DEF subdivideVars, Sum
  <2>4. ShareInv' BY <2>0, <2>1 DEF ShareInv, PartSet, kernelVars, subdivideVars
  <2> QED BY <2>1, <2>2, <2>3, <2>4, <1>k, <1>f, <1>s
<1>4. ASSUME NEW r \in Reserves, Tap(r) PROVE ValidationInv'
  <2>1. Flow(r) /\ UNCHANGED <<forkVars, subdivideVars, shellVars>> BY <1>4 DEF Tap
  <2>2. EnergyTypeOK'
    <3>1. \E t \in Tasks : KernelCall(t, r) BY <2>1, ThreadsAndReserves DEF KernelCall
    <3> QED BY <3>1, KernelKeepsTypes
  <2>3. ShareInv' BY <2>1, FlowKeepsShareInv DEF subdivideVars
  <2>4. ForkInv' /\ ThreadInv' BY <2>1, <1>i, <1>t DEF Flow
  <2> QED BY <2>1, <2>2, <2>3, <2>4, <1>f, <1>s, <1>h
<1>5. CASE UNCHANGED validationVars
  <2>1. UNCHANGED <<kernelVars, forkVars, subdivideVars, shellVars>> BY <1>5 DEF validationVars
  <2>2. ForkInv' /\ ThreadInv' BY <2>1, <1>i, <1>t DEF kernelVars
  <2>0. Sum' = Sum BY <2>1 DEF subdivideVars, Sum
  <2>3. ShareInv' BY <2>0, <2>1 DEF ShareInv, PartSet, kernelVars, subdivideVars
  <2> QED BY <2>1, <2>2, <2>3, <1>k, <1>f, <1>s, <1>h
<1> QED BY <1>1, <1>2, <1>3, <1>4, <1>5 DEF ValidationNext

(* In every reachable state the invariant of the three programs of         *)
(* cinder_validation holds.                                                *)
THEOREM ValidationInvariance == ValidationSpec => []ValidationInv
<1>1. ValidationInit => ValidationInv BY ValidationStarts
<1>2. ValidationInv /\ [ValidationNext]_validationVars => ValidationInv' BY ValidationStep
<1> QED BY <1>1, <1>2, PTL DEF ValidationSpec

(* Every variable has its type: what the tests rely on when they use it as *)
(* an index or a count (each share is an int, test_method stops at maxval, *)
(* no handler asks a fifth question).                                      *)
THEOREM ValidationTypeCorrect == ValidationSpec => []ValidationTypeOK
<1>1. ValidationInv => ValidationTypeOK BY DEF ValidationInv
<1> QED BY <1>1, ValidationInvariance, PTL

(* The child of test1_fork.c has the test reserve, and only that, from     *)
(* fork on.                                                                *)
THEOREM ChildSpendsItsOwn == ValidationSpec => []ForkIsolated
<1>1. ValidationInv => ForkIsolated BY DEF ValidationInv, ForkInv
<1> QED BY <1>1, ValidationInvariance, PTL

(* For all weights whose sum is positive and fits an int, the rates of the *)
(* three taps of test2_subdivide_thread.c never add up to more than 100;   *)
(* and for all weights the main reserve is empty until they are all set.   *)
THEOREM TapsSpendTheWhole == ValidationSpec => []SharesOfTheWhole
<1>1. ValidationInv => SharesOfTheWhole BY DEF ValidationInv, ShareInv, PartSet, SharesOfTheWhole
<1> QED BY <1>1, ValidationInvariance, PTL

(* Each thread of test2_subdivide_thread.c counts on its own reserve,      *)
(* which no other thread has.                                              *)
THEOREM ThreadsKeepApart == ValidationSpec => []ThreadsOnOwnReserve
<1>1. ValidationInv => ThreadsOnOwnReserve
  BY ThreadsAndReserves DEF ValidationInv, ThreadInv, ThreadsOnOwnReserve
<1> QED BY <1>1, ValidationInvariance, PTL

(* While no line is too long, a call of cinder_ptest.c gets the answers to *)
(* its own questions in their order.                                       *)
THEOREM CallsCarryAnswers == ValidationSpec => []CallsAsTyped
<1>1. ValidationInv => CallsAsTyped BY DEF ValidationInv
<1> QED BY <1>1, ValidationInvariance, PTL
=============================================================================
