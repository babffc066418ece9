-------------------------- MODULE PowerArbiter_proofs --------------------------
(***************************************************************************)
(* Proofs about the whole daemon, for every value of its constants:        *)
(* ArbiterInv holds in every reachable state, and with it the safety       *)
(* properties of PowerArbiter.                                             *)
(*                                                                         *)
(* A step of the daemon is a step of Controller, for which CoreStep of     *)
(* Controller_proofs says that it keeps CoreInv, or it unhooks a record in *)
(* the loop of reserveDataDBEmpty, which EmptyKeepsCore is about.  A turn  *)
(* of that loop on a record that left the hash before ends the run in      *)
(* "corrupted": the theorems are about the states up to there.             *)
(***************************************************************************)
EXTENDS PowerArbiter, Controller_proofs

(* A step of a handler moves the handler of its client and no other.       *)
LEMMA HandlerMovesOne ==
    ASSUME TypeOK, NEW c \in Clients, Handler(c)
    PROVE  \A d \in Clients : d # c => pc'[d] = pc[d]
BY DEF TypeOK, HandlerTypeOK, Goto, Handler, HandlerStep, Receive, CheckParams,
   LockDatabase, LookupMiss, LookupHit, LockRecord, UnlockRecord, UnlockDatabase,
   Respond, StatCreateReserve, StatCreateTap, StatSetRate, StatRecordReserve,
   StatDeleteTap, StatPutReserve, StatExpose, GetTapParams, SetTapParams, SetRecord,
   AddEntry, RemoveEntry

(* RemoveEntry moves its handler on. *)
LEMMA RemoveMovesOn ==
    ASSUME TypeOK, NEW c \in Clients, RemoveEntry(c)
    PROVE  pc[c] = "remove" /\ pc'[c] # pc[c]
BY DEF TypeOK, HandlerTypeOK, RemoveEntry, Goto

(* A step that moves no handler unhooks nothing. *)
LEMMA QuietStep ==
    ASSUME TypeOK, UNCHANGED pc
    PROVE  RemovesFound
BY RemoveMovesOn DEF RemovesFound

(* A handler serves a remove only if the record is still in the hash. *)
LEMMA ServeStep ==
    ASSUME TypeOK, NEW c \in Clients, Handler(c), ~StaleRemove(c)
    PROVE  [Next]_vars /\ RemovesFound
<1>1. ASSUME NEW d \in Clients, RemoveEntry(d)
      PROVE  ptr[d] = data[req[d].uid]
  <2>1. pc[d] = "remove" /\ pc'[d] # pc[d]
    BY <1>1, RemoveMovesOn
  <2>2. d = c
    BY <2>1, HandlerMovesOne
  <2> QED
    BY <2>1, <2>2 DEF StaleRemove
<1> QED
  BY <1>1 DEF Next, RemovesFound

(* What a turn of the emptying does to the variables of Controller.        *)
Emptied(u) ==
    /\ data[u] # NULL
    /\ RemoveRecord(u, data[u])
    /\ UNCHANGED <<kernelVars, handlerVars, logged, reaperVars>>

(* What the other steps of the daemon do to the variables of Controller.   *)
LEMMA StepKinds ==
    ASSUME TypeOK, ArbiterNext
    PROVE  \/ [Next]_vars /\ RemovesFound
           \/ EmptyTurn /\ \E u \in Uids : Emptied(u)
<1>1. ASSUME NEW c \in Clients, Serve(c)
      PROVE  [Next]_vars /\ RemovesFound
  BY <1>1, ServeStep DEF Serve, Handler
<1>2. ASSUME NEW c \in Clients, SendFails(c)
      PROVE  [Next]_vars /\ RemovesFound
  <2>1. Handler(c) /\ ~StaleRemove(c)
    BY <1>2 DEF SendFails, Respond, Handler, HandlerStep, StaleRemove
  <2> QED
    BY <2>1, ServeStep
<1>3. ASSUME NEW c \in Clients, ClientTask(c)
      PROVE  [Next]_vars /\ RemovesFound
  BY <1>3, QuietStep DEF ClientTask, Next, TaskPut, TaskExpose, handlerVars
<1>4. CASE ReaperClear
  BY <1>4, QuietStep DEF ReaperClear, Next, ReaperThread, ReaperStep, ReaperLock,
     ReaperDestroy, ReaperCountUsers, ReaperPut, ReaperDone, handlerVars
<1>5. CASE UNCHANGED controllerVars
  BY <1>5, QuietStep DEF controllerVars, vars, handlerVars
<1>6. ASSUME EmptyTurn
      PROVE  \E u \in Uids : Emptied(u)
  BY <1>6 DEF EmptyTurn, EmptyFrame, Emptied
<1>7. ASSUME BeginEmpty
      PROVE  UNCHANGED controllerVars
  BY <1>7 DEF BeginEmpty, EmptyFrame, controllerVars, vars, handlerVars, reaperVars
<1> QED
  BY <1>1, <1>2, <1>3, <1>4, <1>5, <1>6, <1>7 DEF ArbiterNext, SessionStep,
     ReaperLoop, MainStep, MainFrame, Ends, Connect, Disconnect, EndSession,
     SendToNobody, UseGone, OutOfMemory, Accept,
     ReceiverCheck, AcceptFails, ReaperCheck, ReaperDestroysAgain, ReaperQuits,
     ReaperSleeps, SigTerm, MainWakes, SignalInactive, DisposeSocket,
     WaitForClients, EmptyStale, EmptyRaces, SignalReaper, WaitForReaper,
     DestroyDatabase, MainReturns
-----------------------------------------------------------------------------
(* A record that main unhooks stays intact: who works on it goes on, and    *)
(* its reserve is still its own.                                           *)
LEMMA EmptyKeepsCore ==
    ASSUME CoreInv, NEW u \in Uids, Emptied(u)
    PROVE  CoreInv'
<1> DEFINE x == data[u]
<1>1. /\ x # NULL /\ RemoveRecord(u, x)
      /\ UNCHANGED <<kernelVars, handlerVars, logged, reaperVars>>
      /\ UNCHANGED <<record, dbase_lock, data_lock>>
  BY DEF Emptied, RemoveRecord
<1>2. /\ Live' = Live \ {x} /\ Dead' = Dead \cup {x} /\ Allocated' = Allocated
      /\ RecordsInOnePlace'
  BY <1>1, RemoveMoves DEF CoreInv, TypeOK
<1>3. x \in Records
  BY <1>1 DEF CoreInv, TypeOK, DatabaseTypeOK
<1>4. TypeOK'
  <2>1. DatabaseTypeOK'
    BY <1>1, <1>3, DatabaseTypes DEF CoreInv, TypeOK
  <2>2. KernelTypeOK' /\ HandlerTypeOK' /\ ReaperTypeOK'
    BY <1>1 DEF CoreInv, TypeOK, KernelTypeOK, HandlerTypeOK, ReaperTypeOK, kernelVars,
       handlerVars, reaperVars
  <2> QED
    BY <2>1, <2>2 DEF TypeOK
<1>5. /\ Len(dead_list') >= Len(dead_list)
      /\ rpc = "put" => ReaperRecord' = ReaperRecord
  BY <1>1, <1>3 DEF RemoveRecord, reaperVars, ReaperRecord, CoreInv, RecordsInv, TypeOK,
     DatabaseTypeOK, ReaperTypeOK
<1>6. LockInv'
  BY <1>1 DEF CoreInv, LockInv, handlerVars, reaperVars, InRecord
<1>7. LocalsInv'
  <2>1. \A c \in Clients : req[c].uid \in Uids => 
           (data[req[c].uid] = NULL => data'[req[c].uid] = NULL)
    BY <1>1 DEF RemoveRecord, CoreInv, TypeOK, DatabaseTypeOK
  <2>2. \A c \in Clients : pc[c] = "add" => data'[req[c].uid] = NULL
    BY <2>1, HandlerRequest DEF CoreInv, LocalsInv
  <2> QED
    BY <1>1, <1>2, <2>2 DEF CoreInv, LocalsInv, handlerVars, HasRecord
<1>8. RecordsInv'
  <2>1. rpc = "put" => /\ cursor <= Len(dead_list')
                       /\ record[ReaperRecord'].reserve_created
    BY <1>5 DEF CoreInv, RecordsInv, TypeOK, DatabaseTypeOK, ReaperTypeOK
  <2> QED
    BY <1>1, <1>2, <2>1 DEF CoreInv, RecordsInv, reaperVars
<1>9. LocksStand'
  BY <1>1, <1>2 DEF CoreInv, LocksStand, handlerVars, HasRecord
<1>10. SoleHolder'
  BY <1>1, <1>5 DEF CoreInv, SoleHolder, kernelVars, handlerVars, reaperVars,
     ReaperReserve
<1>11. ReservesAccountedFor'
  <2>1. \A r \in ReserveIds : Owners(r)' = Owners(r)
    BY <1>1, <1>2 DEF Owners, HasReserve, handlerVars
  <2> QED
    BY <1>1, <2>1 DEF CoreInv, ReservesAccountedFor, Accounted, kernelVars
<1> QED
  BY <1>2, <1>4, <1>6, <1>7, <1>8, <1>9, <1>10, <1>11 DEF CoreInv

(* The part about the database and the kernel. *)
LEMMA DatabaseStep ==
    ASSUME CoreInv, GrantIsValid, HoldsUntilEmptied, [ArbiterNext]_allVars
    PROVE  CoreInv' /\ GrantIsValid' /\ HoldsUntilEmptied'
<1> DEFINE early == {"sigterm", "inactive", "dispose", "clients"}
<1>1. TypeOK
  BY DEF CoreInv
<1>2. main_pc' \in early => main_pc \in early
  BY DEF ArbiterNext, allVars, arbiterVars, loopVars, SessionStep, ReaperLoop, MainStep,
     MainFrame, Ends, Connect, Disconnect, EndSession, Serve, SendFails, SendToNobody,
     UseGone, OutOfMemory, ClientTask, Accept, ReceiverCheck, AcceptFails, ReaperCheck, ReaperClear,
     ReaperDestroysAgain, ReaperQuits, ReaperSleeps, SigTerm, MainWakes, SignalInactive, DisposeSocket,
     WaitForClients, BeginEmpty, EmptyTurn, IterAt, EmptyStale, EmptyRaces,
     SignalReaper, WaitForReaper, DestroyDatabase, MainReturns
<1>3. CASE [Next]_vars /\ RemovesFound
  <2>1. CoreInv'
    BY <1>3, CoreStep
  <2>2. GrantIsValid'
    BY <1>3, GrantStep
  <2>3. HandlersHoldLiveRecords => HandlersHoldLiveRecords'
    BY <1>3, HoldStep
  <2> QED
    BY <1>2, <2>1, <2>2, <2>3 DEF HoldsUntilEmptied
<1>4. ASSUME EmptyTurn, NEW u \in Uids, Emptied(u)
      PROVE  CoreInv' /\ GrantIsValid' /\ HoldsUntilEmptied'
  <2>1. CoreInv'
    BY <1>4, EmptyKeepsCore
  <2>2. GrantIsValid'
    BY <1>4 DEF Emptied, kernelVars, handlerVars, GrantIsValid
  <2>3. main_pc' \notin early
    BY <1>4 DEF EmptyTurn, IterAt
  <2> QED
    BY <2>1, <2>2, <2>3 DEF HoldsUntilEmptied
<1>5. CASE UNCHANGED allVars
  <2>1. [Next]_vars /\ UNCHANGED pc
    BY <1>5 DEF allVars, controllerVars, vars, handlerVars
  <2> QED
    BY <1>1, <1>3, <2>1, QuietStep
<1> QED
  BY <1>1, <1>3, <1>4, <1>5, StepKinds
-----------------------------------------------------------------------------
(* The variables of main, the receiver, the reaper's loop and the sessions *)
(* keep their types.                                                       *)
LEMMA ArbiterTypeStep ==
    ASSUME ArbiterTypeOK, TypeOK', [ArbiterNext]_allVars
    PROVE  ArbiterTypeOK'
<1> USE DEF ArbiterTypeOK, allVars, arbiterVars, loopVars, iterVars, contextVars, Ends,
            Session
<1>1. ASSUME NEW c \in Clients, SessionStep(c)
      PROVE  ArbiterTypeOK'
  BY <1>1 DEF SessionStep, Connect, Disconnect, EndSession, Serve, SendFails,
     SendToNobody, UseGone, OutOfMemory, ClientTask, Accept
<1>2. CASE ReceiverCheck \/ AcceptFails
  BY <1>2 DEF ReceiverCheck, AcceptFails
<1>3. CASE ReaperLoop
  BY <1>3 DEF ReaperLoop, ReaperCheck, ReaperClear, ReaperDestroysAgain, ReaperQuits,
     ReaperSleeps
<1>4. CASE SigTerm \/ EmptyRaces
  BY <1>4 DEF SigTerm, EmptyRaces
<1>5. CASE MainStep
  BY <1>5 DEF MainStep, MainFrame, MainWakes, SignalInactive, DisposeSocket,
     WaitForClients, BeginEmpty, EmptyTurn, EmptyFrame, IterAt, EmptyStale,
     SignalReaper, WaitForReaper, DestroyDatabase, MainReturns
<1>6. CASE UNCHANGED allVars
  BY <1>6
<1> QED
  BY <1>1, <1>2, <1>3, <1>4, <1>5, <1>6 DEF ArbiterNext

(* The flags and the reaper follow main. *)
LEMMA ShutdownStep ==
    ASSUME ArbiterTypeOK, ShutdownInv, [ArbiterNext]_allVars
    PROVE  ShutdownInv'
<1> USE DEF ArbiterTypeOK, ShutdownInv, allVars, arbiterVars, loopVars, contextVars, Ends
<1>1. ASSUME NEW c \in Clients, SessionStep(c)
      PROVE  ShutdownInv'
  <2>1. UNCHANGED <<term, main_pc, reaper_pc, should_quit, active, reaper_should_exit,
                    reaper_exited>>
    BY <1>1 DEF SessionStep, Connect, Disconnect, EndSession, Serve, SendFails,
       SendToNobody, UseGone, OutOfMemory, ClientTask, Accept
  <2>2. UNCHANGED rpc
    BY <1>1 DEF SessionStep, Connect, Disconnect, EndSession, Serve, SendFails,
       SendToNobody, UseGone, OutOfMemory, ClientTask, Accept, controllerVars, vars, reaperVars,
       HandlerStep, TaskPut, TaskExpose, Receive, CheckParams, LockDatabase,
       LookupMiss, LookupHit, LockRecord, UnlockRecord, UnlockDatabase, Respond,
       StatCreateReserve, StatCreateTap, StatSetRate, StatRecordReserve,
       StatDeleteTap, StatPutReserve, StatExpose, GetTapParams, SetTapParams,
       SetRecord, AddEntry, RemoveEntry
  <2> QED
    BY <2>1, <2>2
<1>2. CASE ReceiverCheck \/ AcceptFails
  BY <1>2 DEF ReceiverCheck, AcceptFails, controllerVars, vars, reaperVars
<1>3. CASE ReaperCheck
  BY <1>3 DEF ReaperCheck, controllerVars, vars, reaperVars
<1>4. CASE ReaperClear
  <2>1. reaper_pc' # "clear" => rpc' = "asleep"
    BY <1>4 DEF ReaperClear
  <2>2. reaper_pc' \in {"clear", "decide"} /\ reaper_pc # "exited"
    BY <1>4 DEF ReaperClear
  <2> QED
    BY <1>4, <2>1, <2>2 DEF ReaperClear
<1>5. CASE ReaperDestroysAgain \/ ReaperQuits \/ ReaperSleeps
  BY <1>5 DEF ReaperDestroysAgain, ReaperQuits, ReaperSleeps, controllerVars, vars, reaperVars
<1>6. CASE SigTerm \/ EmptyRaces
  BY <1>6 DEF SigTerm, EmptyRaces, controllerVars, vars, reaperVars
<1>7. CASE MainStep
  BY <1>7 DEF MainStep, MainFrame, MainWakes, SignalInactive, DisposeSocket,
     WaitForClients, BeginEmpty, EmptyTurn, EmptyFrame, IterAt, EmptyStale,
     SignalReaper, WaitForReaper, DestroyDatabase, MainReturns, controllerVars, vars,
     reaperVars
<1>8. CASE UNCHANGED allVars
  BY <1>8 DEF controllerVars, vars, reaperVars
<1> QED
  BY <1>1, <1>2, <1>3, <1>4, <1>5, <1>6, <1>7, <1>8 DEF ArbiterNext, ReaperLoop

(* The daemon starts in the invariant. *)
LEMMA ArbiterInitInv == ArbiterInit => ArbiterInv
<1> SUFFICES ASSUME ArbiterInit
             PROVE  ArbiterInv
  OBVIOUS
<1>1. IndInv /\ GrantIsValid
  BY InitInv DEF ArbiterInit
<1>2. CoreInv /\ HandlersHoldLiveRecords /\ TypeOK
  BY <1>1 DEF IndInv, CoreInv
<1>3. ArbiterTypeOK
  <2>1. {term, should_quit, active, reaper_should_exit, reaper_exited,
         listening} \subseteq BOOLEAN
    BY Zenon DEF ArbiterInit
  <2>2. session \in [Clients -> {"none", "pending", "open", "gone"}]
    BY DEF ArbiterInit
  <2>3. /\ daemon = "running" /\ main_pc = "sigterm" /\ receiver_pc = "check"
        /\ reaper_pc = "check" /\ num_users \in Nat
        /\ iter_record = NULL /\ iter_tmp = NULL
    BY DEF ArbiterInit
  <2> QED
    BY <1>2, <2>1, <2>2, <2>3 DEF ArbiterTypeOK
<1>4. ShutdownInv
  BY DEF ArbiterInit, Init, ShutdownInv
<1>5. HoldsUntilEmptied
  BY <1>2 DEF HoldsUntilEmptied
<1> QED
  BY <1>1, <1>2, <1>3, <1>4, <1>5 DEF ArbiterInv

(* No step of the daemon leaves the invariant. *)
LEMMA ArbiterStep ==
    ASSUME ArbiterInv, [ArbiterNext]_allVars
    PROVE  ArbiterInv'
<1>1. CoreInv' /\ GrantIsValid' /\ HoldsUntilEmptied'
  BY DatabaseStep DEF ArbiterInv
<1>2. ArbiterTypeOK'
  BY <1>1, ArbiterTypeStep DEF ArbiterInv, CoreInv
<1>3. ShutdownInv'
  BY ShutdownStep DEF ArbiterInv
<1> QED
  BY <1>1, <1>2, <1>3 DEF ArbiterInv
-----------------------------------------------------------------------------
(* The theorems. *)

(* Every reachable state of the daemon satisfies the invariant. *)
THEOREM ArbiterInvariance == ArbiterSpec => []ArbiterInv
<1>1. ArbiterInit => ArbiterInv
  BY ArbiterInitInv
<1>2. ArbiterInv /\ [ArbiterNext]_allVars => ArbiterInv'
  BY ArbiterStep
<1> QED
  BY <1>1, <1>2, PTL DEF ArbiterSpec

(* All variables of the daemon have their types in every reachable state.  *)
THEOREM ArbiterTypeCorrect == ArbiterSpec => []ArbiterTypeOK
<1>1. ArbiterInv => ArbiterTypeOK
  BY DEF ArbiterInv
<1> QED
  BY <1>1, ArbiterInvariance, PTL

(* Not even in the shutdown does a handler work with a record whose lock   *)
(* the reaper destroyed.                                                   *)
THEOREM LocksOutliveHandlers == ArbiterSpec => []NoDestroyedLockUsed
<1>1. ArbiterInv => NoDestroyedLockUsed
  BY DEF ArbiterInv, CoreInv, LocksStand, NoDestroyedLockUsed
<1> QED
  BY <1>1, ArbiterInvariance, PTL

(* main destroys the database only when the reaper is gone. *)
THEOREM DestroyAfterReaper == ArbiterSpec => []ReaperGoneBeforeDestroy
<1>1. ArbiterInv => ReaperGoneBeforeDestroy
  BY DEF ArbiterInv, ShutdownInv, ReaperGoneBeforeDestroy
<1> QED
  BY <1>1, ArbiterInvariance, PTL

(* Records stay in one place and reserves stay accounted for, through the  *)
(* shutdown.                                                               *)
THEOREM ShutdownLosesNothing ==
    ArbiterSpec => [](RecordsInOnePlace /\ ReservesAccountedFor)
<1>1. ArbiterInv => RecordsInOnePlace /\ ReservesAccountedFor
  BY DEF ArbiterInv, CoreInv
<1> QED
  BY <1>1, ArbiterInvariance, PTL

(* A granted reserve is held by the client and the arbiter until the       *)
(* response is sent, even if main unhooks the record in between.           *)
THEOREM ArbiterGrantsHold == ArbiterSpec => []GrantIsValid
<1>1. ArbiterInv => GrantIsValid
  BY DEF ArbiterInv
<1> QED
  BY <1>1, ArbiterInvariance, PTL

(* The arbiter puts no reserve that another task holds, the reserves of    *)
(* records that the shutdown unhooked included.                            *)
THEOREM ArbiterTakesNothingUsed == ArbiterSpec => NoPutWhileUsed
<1>1. ArbiterInv /\ [ArbiterNext]_allVars =>
        [\A r \in ReserveIds :
            Arbiter \in users[r] /\ Arbiter \notin users'[r] =>
                users[r] = {Arbiter}]_vars
  <2> SUFFICES ASSUME ArbiterInv, [ArbiterNext]_allVars, NEW r \in ReserveIds,
                      Arbiter \in users[r], Arbiter \notin users'[r]
               PROVE  users[r] = {Arbiter}
    OBVIOUS
  <2>1. CoreInv /\ TypeOK
    BY DEF ArbiterInv, CoreInv
  <2>2. CASE [Next]_vars
    BY <2>1, <2>2, PutStep
  <2>3. CASE \E u \in Uids : Emptied(u)
    BY <2>3 DEF Emptied, kernelVars
  <2>4. CASE UNCHANGED allVars
    BY <2>4 DEF allVars, controllerVars, vars, kernelVars
  <2> QED
    BY <2>1, <2>2, <2>3, <2>4, StepKinds
<1> QED
  BY <1>1, ArbiterInvariance, PTL DEF ArbiterSpec, NoPutWhileUsed

(* The whole daemon uses its containers as RecordStore allows, also when   *)
(* main empties the hash without the lock: a stale pointer or a collision  *)
(* in the containers ends the run before it could be written.              *)
THEOREM ArbiterStores == ArbiterSpec => StoresRecords
<1>1. ArbiterInit => Store!Init
  BY DEF ArbiterInit, Init, DatabaseInit, Store!Init
<1>2. ArbiterInv /\ [ArbiterNext]_allVars => [Store!Next]_<<data, dead_list>>
  <2> SUFFICES ASSUME ArbiterInv, [ArbiterNext]_allVars
               PROVE  Store!Next \/ UNCHANGED <<data, dead_list>>
    OBVIOUS
  <2>1. CoreInv /\ TypeOK
    BY DEF ArbiterInv, CoreInv
  <2>2. CASE [Next]_vars /\ RemovesFound
    BY <2>1, <2>2, StoreStep
  <2>3. ASSUME NEW u \in Uids, Emptied(u)
        PROVE  Store!Next
    BY <2>3, RemoveIsStored DEF Emptied, RemoveRecord
  <2>4. CASE UNCHANGED allVars
    BY <2>4 DEF allVars, controllerVars, vars, dbaseVars
  <2> QED
    BY <2>1, <2>2, <2>3, <2>4, StepKinds
<1> QED
  BY <1>1, <1>2, ArbiterInvariance, PTL DEF ArbiterSpec, StoresRecords, Store!Spec
=============================================================================
