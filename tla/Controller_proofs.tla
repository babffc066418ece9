--------------------------- MODULE Controller_proofs ---------------------------
(***************************************************************************)
(* Proofs about Controller, for every value of its constants: IndInv holds *)
(* in every reachable state, and with it the safety properties of          *)
(* Controller.  One lemma says for each part of IndInv that no step of a   *)
(* handler, the reaper or a client breaks it.  The lemmas assume no more   *)
(* than CoreInv where they can: PowerArbiter_proofs uses them too.         *)
(***************************************************************************)
EXTENDS Controller, FiniteSetTheorems, TLAPS

(* The handlers build their responses from the fields of the protocol. *)
LEMMA ResponseTypes ==
    ASSUME NEW e \in Errors, NEW f \in Flags,
           NEW r \in ReserveIds \cup RootIds \cup {NoReserve},
           NEW par \in TapParams \cup {NoParams}
    PROVE  Response(e, f, r, par) \in Replies
BY DEF Response, Replies

(* Each kind of response is well formed. *)
LEMMA ReplyTypes ==
    /\ \A e \in Errors : Status(e) \in Replies
    /\ \A r \in ReserveIds : Granted(r) \in Replies
    /\ \A r \in RootIds : UseRoot(r) \in Replies
    /\ \A par \in TapParams : Params(par) \in Replies
BY ResponseTypes DEF Status, Granted, UseRoot, Params, Errors, Flags

(* The record the reaper is at is one of the dead list. *)
LEMMA ReaperRecordDead ==
    ASSUME CoreInv, ReaperAtRecord \/ rpc = "put"
    PROVE  ReaperRecord \in Dead /\ ReaperRecord \in Records
BY DEF CoreInv, TypeOK, DatabaseTypeOK, ReaperTypeOK, RecordsInv, ReaperAtRecord,
       ReaperRecord, Dead

(* The record a handler works on is one the database knows. *)
LEMMA HandlerRecord ==
    ASSUME CoreInv, NEW c \in Clients, HasRecord(c)
    PROVE  /\ req[c] \in Requests
           /\ req[c].uid \in Uids
           /\ ptr[c] \in Records
           /\ ptr[c] # NULL
           /\ ptr[c] \in Allocated
           /\ record[ptr[c]].par \in TapParams
           /\ record[ptr[c]].reserve_created =>
                record[ptr[c]].reserve_id \in ReserveIds
<1>1. req[c] \in Requests
  BY DEF CoreInv, TypeOK, HandlerTypeOK, LocalsInv, HasRecord, RecordPcs
<1>2. req[c].uid \in Uids
  BY <1>1 DEF Requests
<1>3. ptr[c] \in Records /\ ptr[c] # NULL /\ ptr[c] \in Allocated
  BY DEF CoreInv, TypeOK, HandlerTypeOK, LocalsInv
<1>4. record[ptr[c]].par \in TapParams
  BY <1>3 DEF CoreInv, RecordsInv
<1>5. record[ptr[c]].reserve_created => record[ptr[c]].reserve_id \in ReserveIds
  BY <1>3 DEF CoreInv, TypeOK, DatabaseTypeOK, RecordType, RecordsInv
<1> QED
  BY <1>1, <1>2, <1>3, <1>4, <1>5

(* As long as nobody else empties the hash, it is still in it. *)
LEMMA HandlerRecordLive ==
    ASSUME IndInv, NEW c \in Clients, HasRecord(c)
    PROVE  ptr[c] = data[req[c].uid] /\ ptr[c] \in Live
<1>1. req[c].uid \in Uids /\ ptr[c] # NULL
  BY HandlerRecord DEF IndInv
<1>2. ptr[c] = data[req[c].uid]
  BY DEF IndInv, HandlersHoldLiveRecords
<1> QED
  BY <1>1, <1>2 DEF Live

(* A handler that unhooks a record finds it under the uid of its request.  *)
RemovesFound ==
    \A c \in Clients : RemoveEntry(c) => ptr[c] = data[req[c].uid]

(* The handlers of the daemon do.                                          *)
LEMMA RemovesFoundByHandlers ==
    ASSUME IndInv
    PROVE  RemovesFound
BY HandlerRecordLive DEF RemovesFound, RemoveEntry, HasRecord

(* A request that is served is one of client.c. *)
LEMMA HandlerRequest ==
    ASSUME CoreInv, NEW c \in Clients, pc[c] # "idle"
    PROVE  /\ req[c] \in Requests
           /\ req[c].uid \in Uids
           /\ req[c].op \in {"set", "add"} => req[c].par \in TapParams
<1>1. req[c] \in Requests
  BY DEF CoreInv, TypeOK, HandlerTypeOK, LocalsInv
<1> QED
  BY <1>1 DEF Requests

(* System calls made with a task, a reserve and parameters keep the types. *)
LEMMA KernelTypes ==
    ASSUME KernelTypeOK
    PROVE  /\ \A t \in Tasks, r \in ReserveIds :
                 CreateReserve(t, r) \/ PutReserve(t, r) => KernelTypeOK'
           /\ \A r \in ReserveIds : CreateTap(r) \/ DeleteTap(r) => KernelTypeOK'
           /\ \A r \in ReserveIds, par \in TapParams :
                 TapSetRate(r, par) => KernelTypeOK'
           /\ \A t, d \in Tasks, r \in ReserveIds :
                 ExposeReserve(t, d, r) => KernelTypeOK'
           /\ UNCHANGED kernelVars => KernelTypeOK'
<1> USE DEF KernelTypeOK
<1>1. \A t \in Tasks, r \in ReserveIds : CreateReserve(t, r) => KernelTypeOK'
  BY DEF CreateReserve
<1>2. \A t \in Tasks, r \in ReserveIds : PutReserve(t, r) => KernelTypeOK'
  BY DEF PutReserve
<1>3. \A r \in ReserveIds : CreateTap(r) \/ DeleteTap(r) => KernelTypeOK'
  BY DEF CreateTap, DeleteTap
<1>4. \A r \in ReserveIds, par \in TapParams : TapSetRate(r, par) => KernelTypeOK'
  BY DEF TapSetRate, Rates
<1>5. \A t, d \in Tasks, r \in ReserveIds : ExposeReserve(t, d, r) => KernelTypeOK'
  BY DEF ExposeReserve
<1>6. UNCHANGED kernelVars => KernelTypeOK'
  BY DEF kernelVars
<1> QED
  BY <1>1, <1>2, <1>3, <1>4, <1>5, <1>6

(* Database operations made with a thread, a uid, a record, a reserve and  *)
(* parameters keep the types.                                              *)
LEMMA DatabaseTypes ==
    ASSUME DatabaseTypeOK
    PROVE  /\ \A t \in Threads : DBLock(t) => DatabaseTypeOK'
           /\ DBUnlock => DatabaseTypeOK'
           /\ \A t \in Threads, x \in Records : RecordLock(t, x) => DatabaseTypeOK'
           /\ \A x \in Records :
                 RecordUnlock(x) \/ DestroyRecordLock(x) => DatabaseTypeOK'
           /\ \A u \in Uids, x \in Records, par \in TapParams :
                 AddRecord(u, x, par) => DatabaseTypeOK'
           /\ \A u \in Uids, x \in Records : RemoveRecord(u, x) => DatabaseTypeOK'
           /\ \A x \in Records, par \in TapParams :
                 SetRecordParams(x, par) => DatabaseTypeOK'
           /\ \A x \in Records, r \in ReserveIds :
                 SetRecordReserve(x, r) => DatabaseTypeOK'
           /\ UNCHANGED dbaseVars => DatabaseTypeOK'
<1> USE DEF DatabaseTypeOK
<1>1. \A t \in Threads : DBLock(t) => DatabaseTypeOK'
  BY DEF DBLock
<1>2. DBUnlock => DatabaseTypeOK'
  BY DEF DBUnlock
<1>3. \A t \in Threads, x \in Records : RecordLock(t, x) => DatabaseTypeOK'
  BY DEF RecordLock
<1>4. \A x \in Records : RecordUnlock(x) \/ DestroyRecordLock(x) => DatabaseTypeOK'
  BY DEF RecordUnlock, DestroyRecordLock
<1>5. \A u \in Uids, x \in Records, par \in TapParams :
         AddRecord(u, x, par) => DatabaseTypeOK'
  BY DEF AddRecord, NewRecord, RecordType
<1>6. \A u \in Uids, x \in Records : RemoveRecord(u, x) => DatabaseTypeOK'
  BY DEF RemoveRecord
<1>7. \A x \in Records, par \in TapParams :
         SetRecordParams(x, par) => DatabaseTypeOK'
  BY DEF SetRecordParams, RecordType
<1>8. \A x \in Records, r \in ReserveIds : SetRecordReserve(x, r) => DatabaseTypeOK'
  BY DEF SetRecordReserve, RecordType
<1>9. UNCHANGED dbaseVars => DatabaseTypeOK'
  BY DEF dbaseVars
<1> QED
  BY <1>1, <1>2, <1>3, <1>4, <1>5, <1>6, <1>7, <1>8, <1>9

(* The variables of the kernel keep their types. *)
LEMMA KernelTypeStep ==
    ASSUME CoreInv, [Next]_vars
    PROVE  KernelTypeOK'
<1> USE KernelTypes DEF CoreInv, TypeOK, Tasks
<1>1. ASSUME NEW c \in Clients,
             \/ StatCreateReserve(c) \/ StatCreateTap(c) \/ StatSetRate(c)
             \/ StatDeleteTap(c) \/ StatPutReserve(c)
      PROVE  KernelTypeOK'
  <2> USE DEF HandlerTypeOK, LocalsInv, SetupPcs, SyscallFails
  <2>1. CASE StatCreateReserve(c)
    BY <2>1 DEF StatCreateReserve
  <2>2. CASE StatCreateTap(c)
    BY <2>2 DEF StatCreateTap
  <2>3. CASE StatSetRate(c)
    <3>1. record[ptr[c]].par \in TapParams
      BY <2>3 DEF StatSetRate, RecordsInv, HasRecord, RecordPcs
    <3> QED BY <2>3, <3>1 DEF StatSetRate
  <2>4. CASE StatDeleteTap(c)
    BY <2>4 DEF StatDeleteTap
  <2>5. CASE StatPutReserve(c)
    BY <2>5 DEF StatPutReserve
  <2> QED BY <1>1, <2>1, <2>2, <2>3, <2>4, <2>5
<1>2. ASSUME NEW c \in Clients, StatExpose(c) \/ SetTapParams(c)
      PROVE  KernelTypeOK'
  <2> DEFINE r == record[ptr[c]].reserve_id
  <2>1. ptr[c] \in Records
    BY <1>2 DEF StatExpose, SetTapParams, HandlerTypeOK, LocalsInv, HasRecord,
       RecordPcs
  <2>2. record[ptr[c]].reserve_created => r \in ReserveIds
    BY <2>1 DEF RecordsInv, DatabaseTypeOK, RecordType
  <2>3. CASE StatExpose(c)
    BY <2>2, <2>3 DEF StatExpose, SyscallFails
  <2>4. CASE SetTapParams(c)
    <3>1. req[c].par \in TapParams
      BY <2>4 DEF SetTapParams, HandlerTypeOK, LocalsInv, Requests
    <3> QED BY <2>2, <2>4, <3>1 DEF SetTapParams, SyscallFails
  <2> QED BY <1>2, <2>3, <2>4
<1>3. ASSUME NEW c \in Clients, TaskPut(c) \/ TaskExpose(c)
      PROVE  KernelTypeOK'
  BY <1>3 DEF TaskPut, TaskExpose
<1>4. ASSUME NEW ok \in BOOLEAN, ReaperPut(ok)
      PROVE  KernelTypeOK'
  <2>1. ReaperReserve \in ReserveIds
    BY <1>4, ReaperRecordDead DEF ReaperPut, ReaperReserve, RecordsInv,
       DatabaseTypeOK, RecordType
  <2> QED BY <1>4, <2>1 DEF ReaperPut, SyscallFails
<1>5. CASE UNCHANGED kernelVars
  BY <1>5
<1> QED
  BY <1>1, <1>2, <1>3, <1>4, <1>5 DEF Next, Handler, HandlerStep, ReaperThread,
     ReaperStep, vars, Receive, CheckParams, LockDatabase, LookupMiss, LookupHit,
     LockRecord, UnlockRecord, UnlockDatabase, Respond, StatRecordReserve,
     GetTapParams, SetRecord, AddEntry, RemoveEntry, ReaperLock, ReaperDestroy,
     ReaperCountUsers, ReaperDone

(* The variables of the database keep their types. *)
LEMMA DatabaseTypeStep ==
    ASSUME CoreInv, [Next]_vars
    PROVE  DatabaseTypeOK'
<1> USE DatabaseTypes DEF CoreInv, TypeOK, Threads
<1>1. ASSUME NEW c \in Clients, LockDatabase(c) \/ UnlockDatabase(c)
      PROVE  DatabaseTypeOK'
  BY <1>1 DEF LockDatabase, UnlockDatabase
<1>2. ASSUME NEW c \in Clients, LockRecord(c) \/ UnlockRecord(c)
      PROVE  DatabaseTypeOK'
  <2>1. HasRecord(c)
    BY <1>2 DEF LockRecord, UnlockRecord, HasRecord, RecordPcs
  <2> QED
    BY <1>2, <2>1, HandlerRecord DEF LockRecord, UnlockRecord
<1>3. ASSUME NEW c \in Clients, StatRecordReserve(c)
      PROVE  DatabaseTypeOK'
  <2>1. HasRecord(c) /\ new_reserve[c] \in ReserveIds
    BY <1>3 DEF StatRecordReserve, HasRecord, RecordPcs, HandlerTypeOK, LocalsInv,
       SetupPcs
  <2> QED
    BY <1>3, <2>1, HandlerRecord DEF StatRecordReserve
<1>4. ASSUME NEW c \in Clients, SetRecord(c)
      PROVE  DatabaseTypeOK'
  <2>1. HasRecord(c) /\ req[c].par \in TapParams
    BY <1>4, HandlerRequest DEF SetRecord, HasRecord, RecordPcs, LocalsInv
  <2> QED
    BY <1>4, <2>1, HandlerRecord DEF SetRecord
<1>5. ASSUME NEW c \in Clients, AddEntry(c)
      PROVE  DatabaseTypeOK'
  <2>1. req[c].uid \in Uids /\ req[c].par \in TapParams
    BY <1>5, HandlerRequest DEF AddEntry, LocalsInv
  <2> QED
    BY <1>5, <2>1 DEF AddEntry
<1>6. ASSUME NEW c \in Clients, RemoveEntry(c)
      PROVE  DatabaseTypeOK'
  <2>1. HasRecord(c)
    BY <1>6 DEF RemoveEntry, HasRecord
  <2> QED
    BY <1>6, <2>1, HandlerRecord DEF RemoveEntry
<1>7. CASE ReaperLock \/ ReaperDone
  BY <1>7 DEF ReaperLock, ReaperDone
<1>8. CASE ReaperDestroy \/ \E ok \in BOOLEAN : ReaperPut(ok)
  <2>1. ReaperRecord \in Records
    BY <1>8, ReaperRecordDead DEF ReaperDestroy, ReaperPut
  <2> QED
    BY <1>8, <2>1 DEF ReaperDestroy, ReaperPut
<1>9. CASE UNCHANGED dbaseVars
  BY <1>9
<1> QED
  BY <1>1, <1>2, <1>3, <1>4, <1>5, <1>6, <1>7, <1>8, <1>9 DEF Next, Handler,
     HandlerStep, ReaperThread, ReaperStep, vars, Receive, CheckParams, LookupMiss,
     LookupHit, Respond, StatCreateReserve, StatCreateTap, StatSetRate,
     StatDeleteTap, StatPutReserve, StatExpose, GetTapParams, SetTapParams,
     TaskPut, TaskExpose, ReaperCountUsers

(* The variables of the reaper keep their types. *)
LEMMA ReaperTypeStep ==
    ASSUME CoreInv, [Next]_vars
    PROVE  ReaperTypeOK'
<1> USE DEF CoreInv, TypeOK, ReaperTypeOK, reaperVars
<1>1. CASE ReaperLock
  BY <1>1 DEF ReaperLock
<1>2. CASE ReaperDestroy
  BY <1>2 DEF ReaperDestroy
<1>3. CASE ReaperCountUsers
  BY <1>3 DEF ReaperCountUsers
<1>4. CASE \E ok \in BOOLEAN : ReaperPut(ok)
  BY <1>4 DEF ReaperPut
<1>5. CASE ReaperDone
  BY <1>5 DEF ReaperDone
<1>6. CASE UNCHANGED reaperVars
  BY <1>6
<1> QED
  BY <1>1, <1>2, <1>3, <1>4, <1>5, <1>6 DEF Next, Handler, HandlerStep,
     ReaperThread, ReaperStep, vars, Receive, CheckParams, LockDatabase, LookupMiss,
     LookupHit, LockRecord, UnlockRecord, UnlockDatabase, Respond,
     StatCreateReserve, StatCreateTap, StatSetRate, StatRecordReserve,
     StatDeleteTap, StatPutReserve, StatExpose, GetTapParams, SetTapParams,
     SetRecord, AddEntry, RemoveEntry, TaskPut, TaskExpose

(* The variables of the handlers keep their types. *)
LEMMA HandlerTypeStep ==
    ASSUME CoreInv, [Next]_vars
    PROVE  HandlerTypeOK'
<1> USE DEF CoreInv, TypeOK, HandlerTypeOK, HandlerPcs, Goto, handlerVars
<1>1. ASSUME NEW c \in Clients, Receive(c)
      PROVE  HandlerTypeOK'
  BY <1>1 DEF Receive
<1>2. ASSUME NEW c \in Clients,
             CheckParams(c) \/ LookupMiss(c) \/ AddEntry(c) \/ RemoveEntry(c)
      PROVE  HandlerTypeOK'
  <2>1. reply' \in [Clients -> Replies \cup {NoReply}]
    BY <1>2, ReplyTypes DEF CheckParams, LookupMiss, AddEntry, RemoveEntry, Answer,
       Errors
  <2> QED
    BY <1>2, <2>1 DEF CheckParams, LookupMiss, AddEntry, RemoveEntry
<1>3. ASSUME NEW c \in Clients, LookupHit(c)
      PROVE  HandlerTypeOK'
  <2>1. data[req[c].uid] \in Records
    BY <1>3, HandlerRequest DEF LookupHit, DatabaseTypeOK
  <2>2. reply' \in [Clients -> Replies \cup {NoReply}]
    BY <1>3, ReplyTypes DEF LookupHit, Answer, Errors
  <2> QED
    BY <1>3, <2>1, <2>2 DEF LookupHit
<1>4. ASSUME NEW c \in Clients, LockDatabase(c) \/ UnlockRecord(c)
      PROVE  HandlerTypeOK'
  BY <1>4 DEF LockDatabase, UnlockRecord
<1>5. ASSUME NEW c \in Clients, LockRecord(c)
      PROVE  HandlerTypeOK'
  BY <1>5 DEF LockRecord, LocalsInv
<1>6. ASSUME NEW c \in Clients, UnlockDatabase(c) \/ Respond(c)
      PROVE  HandlerTypeOK'
  BY <1>6 DEF UnlockDatabase, Respond, Answer
<1>7. ASSUME NEW c \in Clients,
             StatCreateReserve(c) \/ StatCreateTap(c) \/ StatSetRate(c)
      PROVE  HandlerTypeOK'
  <2>1. reply' \in [Clients -> Replies \cup {NoReply}]
    BY <1>7, ReplyTypes DEF StatCreateReserve, StatCreateTap, StatSetRate, Answer,
       Errors
  <2>2. new_reserve' \in [Clients -> ReserveIds \cup {NoReserve}]
    BY <1>7 DEF StatCreateReserve, StatCreateTap, StatSetRate
  <2>3. pc' \in [Clients -> HandlerPcs]
    BY <1>7 DEF StatCreateReserve, StatCreateTap, StatSetRate
  <2> QED
    BY <1>7, <2>1, <2>2, <2>3 DEF StatCreateReserve, StatCreateTap, StatSetRate
<1>8. ASSUME NEW c \in Clients,
             StatRecordReserve(c) \/ StatDeleteTap(c) \/ StatPutReserve(c)
      PROVE  HandlerTypeOK'
  <2>1. pc[c] = "put_reserve" => new_reserve[c] \in ReserveIds
    BY DEF LocalsInv, SetupPcs
  <2> QED
    BY <1>8, <2>1 DEF StatRecordReserve, StatDeleteTap, StatPutReserve
<1>9. ASSUME NEW c \in Clients, StatExpose(c) \/ GetTapParams(c)
      PROVE  HandlerTypeOK'
  <2>1. HasRecord(c)
    BY <1>9 DEF StatExpose, GetTapParams, HasRecord, RecordPcs
  <2>2. reply' \in [Clients -> Replies \cup {NoReply}]
    BY <1>9, <2>1, HandlerRecord, ReplyTypes DEF StatExpose, GetTapParams, Answer,
       Errors
  <2> QED
    BY <1>9, <2>2 DEF StatExpose, GetTapParams
<1>10. ASSUME NEW c \in Clients, SetTapParams(c) \/ SetRecord(c)
       PROVE  HandlerTypeOK'
  <2>1. reply' \in [Clients -> Replies \cup {NoReply}]
    BY <1>10, ReplyTypes DEF SetTapParams, SetRecord, Answer, Errors
  <2> QED
    BY <1>10, <2>1 DEF SetTapParams, SetRecord
<1>11. CASE UNCHANGED <<handlerVars, logged>>
  BY <1>11
<1> QED
  BY <1>1, <1>2, <1>3, <1>4, <1>5, <1>6, <1>7, <1>8, <1>9, <1>10, <1>11 DEF Next,
     Handler, HandlerStep, ReaperThread, ReaperStep, vars, TaskPut, TaskExpose,
     ReaperLock, ReaperDestroy, ReaperCountUsers, ReaperPut, ReaperDone

(* RemoveRecord moves the record it is given, if it is that of the uid,    *)
(* from the hash to the end of the dead list.                              *)
LEMMA RemoveMoves ==
    ASSUME DatabaseTypeOK, RecordsInOnePlace, NEW u \in Uids, data[u] # NULL,
           RemoveRecord(u, data[u])
    PROVE  /\ data[u] \in Live /\ data[u] \notin Dead
           /\ Live' = Live \ {data[u]}
           /\ Dead' = Dead \cup {data[u]}
           /\ Allocated' = Allocated
           /\ RecordsInOnePlace'
<1> DEFINE x == data[u]
<1>1. x \in Records /\ x \in Live /\ x \notin Dead
  BY DEF DatabaseTypeOK, RecordsInOnePlace, Live
<1>2. /\ dead_list' = Append(dead_list, x)
      /\ data' = [data EXCEPT ![u] = NULL]
  BY DEF RemoveRecord
<1>3. /\ Len(dead_list) \in Nat
      /\ DOMAIN dead_list = 1 .. Len(dead_list)
      /\ DOMAIN dead_list' = 1 .. Len(dead_list) + 1
      /\ \A i \in 1 .. Len(dead_list) : dead_list'[i] = dead_list[i]
      /\ dead_list'[Len(dead_list) + 1] = x
  BY <1>1, <1>2 DEF DatabaseTypeOK
<1>4. Live' = Live \ {x}
  BY <1>1, <1>2 DEF DatabaseTypeOK, RecordsInOnePlace, Live
<1>5. Dead' = Dead \cup {x}
  BY <1>3 DEF Dead
<1>6. \A v, w \in Uids : data'[v] = data'[w] /\ data'[v] # NULL => v = w
  BY <1>2 DEF DatabaseTypeOK, RecordsInOnePlace
<1>7. \A i, j \in DOMAIN dead_list' : dead_list'[i] = dead_list'[j] => i = j
  BY <1>1, <1>3 DEF RecordsInOnePlace, Dead
<1>8. RecordsInOnePlace'
  BY <1>4, <1>5, <1>6, <1>7 DEF RecordsInOnePlace
<1> QED
  BY <1>1, <1>4, <1>5, <1>8 DEF Allocated

(* RemoveEntry moves the record the handler found. *)
LEMMA RemoveEntryMoves ==
    ASSUME CoreInv, RemovesFound, NEW c \in Clients, RemoveEntry(c)
    PROVE  /\ ptr[c] \in Live /\ ptr[c] \notin Dead
           /\ Live' = Live \ {ptr[c]}
           /\ Dead' = Dead \cup {ptr[c]}
           /\ Allocated' = Allocated
           /\ RecordsInOnePlace'
<1>1. req[c].uid \in Uids /\ ptr[c] # NULL
  BY HandlerRecord DEF RemoveEntry, HasRecord
<1>2. ptr[c] = data[req[c].uid]
  BY DEF RemovesFound
<1>3. RemoveRecord(req[c].uid, data[req[c].uid])
  BY <1>2 DEF RemoveEntry
<1> QED
  BY <1>1, <1>2, <1>3, RemoveMoves DEF CoreInv, TypeOK

(* A new record makes the database larger by that record, which is then     *)
(* under the uid of the request.                                           *)
LEMMA AddRecordMaps ==
    ASSUME CoreInv, NEW c \in Clients, AddEntry(c), NEW x \in Records,
           AddRecord(req[c].uid, x, req[c].par)
    PROVE  /\ Live' = Live \cup {x} /\ Dead' = Dead
           /\ Allocated' = Allocated \cup {x}
           /\ RecordsInOnePlace'
<1>1. /\ x \notin Live /\ x \notin Dead
      /\ data' = [data EXCEPT ![req[c].uid] = x]
      /\ dead_list' = dead_list
  BY DEF AddRecord, Allocated
<1>2. req[c].uid \in Uids /\ data[req[c].uid] = NULL
  BY HandlerRequest DEF AddEntry, CoreInv, LocalsInv
<1>3. Live' = Live \cup {x} /\ Dead' = Dead
  BY <1>1, <1>2, NULLAssumption DEF CoreInv, TypeOK, DatabaseTypeOK, Live, Dead
<1>4. \A u, v \in Uids : data'[u] = data'[v] /\ data'[u] # NULL => u = v
  BY <1>1, NULLAssumption DEF CoreInv, TypeOK, DatabaseTypeOK, RecordsInOnePlace,
     Live
<1> QED
  BY <1>1, <1>3, <1>4 DEF CoreInv, RecordsInOnePlace, Allocated

(* Whether or not malloc succeeds, no record is lost or in two places. *)
LEMMA AddEntryMaps ==
    ASSUME CoreInv, NEW c \in Clients, AddEntry(c)
    PROVE  /\ Allocated \subseteq Allocated'
           /\ RecordsInOnePlace'
<1>1. CASE UNCHANGED dbaseVars
  BY <1>1 DEF dbaseVars, CoreInv, RecordsInOnePlace, Live, Dead, Allocated
<1>2. ASSUME NEW x \in Records, AddRecord(req[c].uid, x, req[c].par)
      PROVE  Allocated \subseteq Allocated' /\ RecordsInOnePlace'
  BY <1>2, AddRecordMaps
<1> QED
  BY <1>1, <1>2 DEF AddEntry

(* No other step touches the hash or the dead list. *)
LEMMA OthersMoveNothing ==
    ASSUME [Next]_vars,
           ~ \E c \in Clients : AddEntry(c) \/ RemoveEntry(c)
    PROVE  UNCHANGED <<data, dead_list>>
BY ZenonT(40) DEF Next, Handler, HandlerStep, ReaperThread, ReaperStep, vars, dbaseVars,
   Receive, CheckParams, LockDatabase, DBLock, LookupMiss, LookupHit, LockRecord,
   RecordLock, UnlockRecord, RecordUnlock, UnlockDatabase, DBUnlock, Respond,
   StatCreateReserve, StatCreateTap, StatSetRate, StatRecordReserve,
   SetRecordReserve, StatDeleteTap, StatPutReserve, StatExpose, GetTapParams,
   SetTapParams, SetRecord, SetRecordParams, TaskPut, TaskExpose, ReaperLock,
   ReaperDestroy, DestroyRecordLock, ReaperCountUsers, ReaperPut, ReaperDone

(* Every record stays in one place. *)
LEMMA PlaceStep ==
    ASSUME CoreInv, RemovesFound, [Next]_vars
    PROVE  RecordsInOnePlace'
<1>1. CASE \E c \in Clients : AddEntry(c) \/ RemoveEntry(c)
  BY <1>1, AddEntryMaps, RemoveEntryMoves
<1>2. CASE ~ \E c \in Clients : AddEntry(c) \/ RemoveEntry(c)
  BY <1>2, OthersMoveNothing DEF CoreInv, RecordsInOnePlace, Live, Dead
<1> QED
  BY <1>1, <1>2

(* The locks stay with the threads inside the critical sections. *)
LEMMA LockStep ==
    ASSUME CoreInv, [Next]_vars
    PROVE  LockInv'
<1> USE DEF kernelVars, dbaseVars, handlerVars, reaperVars
<1> USE ClientsAssumption, LockAssumption DEF CoreInv, TypeOK, DatabaseTypeOK,
    HandlerTypeOK, ReaperTypeOK, LocalsInv, LockInv, Threads, HasRecord,
    InRecord, RecordPcs, LockedPcs, HandlerPcs
<1>1. ASSUME NEW c \in Clients, Receive(c)
      PROVE  LockInv'
  BY <1>1 DEF Receive, Goto
<1>2. ASSUME NEW c \in Clients, CheckParams(c)
      PROVE  LockInv'
  BY <1>2 DEF CheckParams, Goto
<1>3. ASSUME NEW c \in Clients, LockDatabase(c)
      PROVE  LockInv'
  BY <1>3 DEF LockDatabase, Goto, DBLock
<1>4. ASSUME NEW c \in Clients, LookupMiss(c)
      PROVE  LockInv'
  BY <1>4 DEF LookupMiss, Goto
<1>5. ASSUME NEW c \in Clients, LookupHit(c)
      PROVE  LockInv'
  BY <1>5 DEF LookupHit, Goto
<1>6. ASSUME NEW c \in Clients, LockRecord(c)
      PROVE  LockInv'
  BY <1>6 DEF LockRecord, Goto, RecordLock
<1>7. ASSUME NEW c \in Clients, UnlockRecord(c)
      PROVE  LockInv'
  BY <1>7 DEF UnlockRecord, Goto, RecordUnlock
<1>8. ASSUME NEW c \in Clients, UnlockDatabase(c)
      PROVE  LockInv'
  BY <1>8 DEF UnlockDatabase, Goto, DBUnlock
<1>9. ASSUME NEW c \in Clients, Respond(c)
      PROVE  LockInv'
  BY <1>9 DEF Respond, Goto
<1>10. ASSUME NEW c \in Clients, StatCreateReserve(c)
      PROVE  LockInv'
  BY <1>10 DEF StatCreateReserve, Goto
<1>11. ASSUME NEW c \in Clients, StatCreateTap(c)
      PROVE  LockInv'
  <2>1. /\ pc[c] = "create_tap"
        /\ \/ pc' = [pc EXCEPT ![c] = "set_rate"]
           \/ pc' = [pc EXCEPT ![c] = "put_reserve"]
        /\ UNCHANGED <<dbaseVars, ptr, rpc>>
    BY <1>11 DEF StatCreateTap, Goto
  <2> QED
    BY <2>1
<1>12. ASSUME NEW c \in Clients, StatSetRate(c)
      PROVE  LockInv'
  BY <1>12 DEF StatSetRate, Goto
<1>13. ASSUME NEW c \in Clients, StatRecordReserve(c)
      PROVE  LockInv'
  BY <1>13 DEF StatRecordReserve, Goto, SetRecordReserve
<1>14. ASSUME NEW c \in Clients, StatDeleteTap(c)
      PROVE  LockInv'
  BY <1>14 DEF StatDeleteTap, Goto
<1>15. ASSUME NEW c \in Clients, StatPutReserve(c)
      PROVE  LockInv'
  BY <1>15 DEF StatPutReserve, Goto
<1>16. ASSUME NEW c \in Clients, StatExpose(c)
      PROVE  LockInv'
  BY <1>16 DEF StatExpose, Goto
<1>17. ASSUME NEW c \in Clients, GetTapParams(c)
      PROVE  LockInv'
  BY <1>17 DEF GetTapParams, Goto
<1>18. ASSUME NEW c \in Clients, SetTapParams(c)
      PROVE  LockInv'
  BY <1>18 DEF SetTapParams, Goto
<1>19. ASSUME NEW c \in Clients, SetRecord(c)
      PROVE  LockInv'
  BY <1>19 DEF SetRecord, Goto, SetRecordParams
<1>20. ASSUME NEW c \in Clients, AddEntry(c)
      PROVE  LockInv'
  BY <1>20 DEF AddEntry, Goto, AddRecord, NewRecord
<1>21. ASSUME NEW c \in Clients, RemoveEntry(c)
      PROVE  LockInv'
  BY <1>21 DEF RemoveEntry, Goto, RemoveRecord
<1>22. ASSUME NEW c \in Clients, TaskPut(c)
      PROVE  LockInv'
  BY <1>22 DEF TaskPut
<1>23. ASSUME NEW c \in Clients, TaskExpose(c)
      PROVE  LockInv'
  BY <1>23 DEF TaskExpose
<1>24. CASE ReaperLock
  BY <1>24 DEF ReaperLock, DBLock
<1>25. CASE ReaperDestroy
  BY <1>25 DEF ReaperDestroy, DestroyRecordLock, ReaperAtRecord
<1>26. CASE ReaperCountUsers
  BY <1>26 DEF ReaperCountUsers, ReaperAtRecord
<1>27. ASSUME NEW ok \in BOOLEAN, ReaperPut(ok)
      PROVE  LockInv'
  BY <1>27 DEF ReaperPut, DestroyRecordLock
<1>28. CASE ReaperDone
  BY <1>28 DEF ReaperDone, DBUnlock
<1>29. CASE UNCHANGED vars
  BY <1>29 DEF vars
<1> QED
  BY <1>1, <1>2, <1>3, <1>4, <1>5, <1>6, <1>7, <1>8, <1>9, <1>10, <1>11,
      <1>12, <1>13, <1>14, <1>15, <1>16, <1>17, <1>18, <1>19, <1>20, <1>21,
      <1>22, <1>23, <1>24, <1>25, <1>26, <1>27, <1>28, <1>29 DEF Next,
      Handler, HandlerStep, ReaperThread, ReaperStep

(* The handlers' locals stay meaningful. *)
LEMMA LocalsStep ==
    ASSUME CoreInv, RemovesFound, [Next]_vars
    PROVE  LocalsInv'
<1> USE DEF kernelVars, dbaseVars, handlerVars, reaperVars
<1> USE NULLAssumption, NoReserveAssumption, SentinelsAssumption,
    LockAssumption DEF CoreInv, TypeOK, DatabaseTypeOK, HandlerTypeOK,
    ReaperTypeOK, LocalsInv, LockInv, HasRecord, RecordPcs, LockedPcs,
    SetupPcs, HandlerPcs, Requests, Allocated, Live, Dead
<1>1. ASSUME NEW c \in Clients, Receive(c)
      PROVE  LocalsInv'
  BY <1>1 DEF Receive, Goto
<1>2. ASSUME NEW c \in Clients, CheckParams(c)
      PROVE  LocalsInv'
  BY <1>2 DEF CheckParams, Goto, Answer
<1>3. ASSUME NEW c \in Clients, LockDatabase(c)
      PROVE  LocalsInv'
  BY <1>3 DEF LockDatabase, Goto, DBLock
<1>4. ASSUME NEW c \in Clients, LookupMiss(c)
      PROVE  LocalsInv'
  BY <1>4 DEF LookupMiss, Goto, Answer
<1>5. ASSUME NEW c \in Clients, LookupHit(c)
      PROVE  LocalsInv'
  BY <1>5, HandlerRecord DEF LookupHit, Goto, Answer
<1>6. ASSUME NEW c \in Clients, LockRecord(c)
      PROVE  LocalsInv'
  BY <1>6 DEF LockRecord, Goto, RecordLock
<1>7. ASSUME NEW c \in Clients, UnlockRecord(c)
      PROVE  LocalsInv'
  BY <1>7 DEF UnlockRecord, Goto, RecordUnlock
<1>8. ASSUME NEW c \in Clients, UnlockDatabase(c)
      PROVE  LocalsInv'
  <2>1. Allocated' = Allocated
    BY <1>8 DEF UnlockDatabase, Goto, DBUnlock
  <2> HIDE DEF Allocated, Live, Dead
  <2> QED
    BY <1>8, <2>1 DEF UnlockDatabase, Goto, DBUnlock
<1>9. ASSUME NEW c \in Clients, Respond(c)
      PROVE  LocalsInv'
  BY <1>9 DEF Respond, Goto, Answer
<1>10. ASSUME NEW c \in Clients, StatCreateReserve(c)
      PROVE  LocalsInv'
  BY <1>10 DEF StatCreateReserve, Goto, Answer
<1>11. ASSUME NEW c \in Clients, StatCreateTap(c)
      PROVE  LocalsInv'
  BY <1>11 DEF StatCreateTap, Goto, Answer
<1>12. ASSUME NEW c \in Clients, StatSetRate(c)
      PROVE  LocalsInv'
  BY <1>12 DEF StatSetRate, Goto, Answer
<1>13. ASSUME NEW c \in Clients, StatRecordReserve(c)
      PROVE  LocalsInv'
  BY <1>13 DEF StatRecordReserve, Goto, SetRecordReserve
<1>14. ASSUME NEW c \in Clients, StatDeleteTap(c)
      PROVE  LocalsInv'
  BY <1>14 DEF StatDeleteTap, Goto
<1>15. ASSUME NEW c \in Clients, StatPutReserve(c)
      PROVE  LocalsInv'
  BY <1>15 DEF StatPutReserve, Goto
<1>16. ASSUME NEW c \in Clients, StatExpose(c)
      PROVE  LocalsInv'
  BY <1>16 DEF StatExpose, Goto, Answer
<1>17. ASSUME NEW c \in Clients, GetTapParams(c)
      PROVE  LocalsInv'
  BY <1>17 DEF GetTapParams, Goto, Answer
<1>18. ASSUME NEW c \in Clients, SetTapParams(c)
      PROVE  LocalsInv'
  BY <1>18 DEF SetTapParams, Goto, Answer
<1>19. ASSUME NEW c \in Clients, SetRecord(c)
      PROVE  LocalsInv'
  BY <1>19 DEF SetRecord, Goto, Answer, SetRecordParams
<1>20. ASSUME NEW c \in Clients, AddEntry(c)
      PROVE  LocalsInv'
  <2>1. Allocated \subseteq Allocated'
    BY <1>20, AddEntryMaps
  <2> HIDE DEF Allocated, Live, Dead
  <2> QED
    BY <1>20, <2>1 DEF AddEntry, Goto, Answer, AddRecord
<1>21. ASSUME NEW c \in Clients, RemoveEntry(c)
      PROVE  LocalsInv'
  <2>1. Allocated \subseteq Allocated'
    BY <1>21, RemoveEntryMoves
  <2> HIDE DEF Allocated, Live, Dead
  <2> QED
    BY <1>21, <2>1 DEF RemoveEntry, Goto, Answer, RemoveRecord
<1>22. ASSUME NEW c \in Clients, TaskPut(c)
      PROVE  LocalsInv'
  BY <1>22 DEF TaskPut
<1>23. ASSUME NEW c \in Clients, TaskExpose(c)
      PROVE  LocalsInv'
  BY <1>23 DEF TaskExpose
<1>24. CASE ReaperLock
  BY <1>24 DEF ReaperLock, DBLock
<1>25. CASE ReaperDestroy
  BY <1>25 DEF ReaperDestroy, DestroyRecordLock
<1>26. CASE ReaperCountUsers
  BY <1>26 DEF ReaperCountUsers
<1>27. ASSUME NEW ok \in BOOLEAN, ReaperPut(ok)
      PROVE  LocalsInv'
  BY <1>27 DEF ReaperPut, DestroyRecordLock
<1>28. CASE ReaperDone
  <2>1. Allocated' = Allocated
    BY <1>28 DEF ReaperDone, DBUnlock
  <2> HIDE DEF Allocated, Live, Dead
  <2> QED
    BY <1>28, <2>1 DEF ReaperDone, DBUnlock
<1>29. CASE UNCHANGED vars
  BY <1>29 DEF vars
<1> HIDE DEF CoreInv, TypeOK, DatabaseTypeOK, HandlerTypeOK, ReaperTypeOK, LocalsInv,
    LockInv
<1> QED
  BY <1>1, <1>2, <1>3, <1>4, <1>5, <1>6, <1>7, <1>8, <1>9, <1>10, <1>11,
      <1>12, <1>13, <1>14, <1>15, <1>16, <1>17, <1>18, <1>19, <1>20, <1>21,
      <1>22, <1>23, <1>24, <1>25, <1>26, <1>27, <1>28, <1>29 DEF Next,
      Handler, HandlerStep, ReaperThread, ReaperStep

(* The records stay initialised. *)
LEMMA RecordsStep ==
    ASSUME CoreInv, [Next]_vars
    PROVE  RecordsInv'
<1> USE DEF kernelVars, dbaseVars, handlerVars, reaperVars
<1> USE NoReserveAssumption DEF CoreInv, TypeOK, DatabaseTypeOK, HandlerTypeOK,
    ReaperTypeOK, RecordsInv, LocalsInv, HasRecord, RecordPcs, SetupPcs,
    RecordType, Requests, Allocated, Live, Dead, ReaperRecord, LockInv,
    LockedPcs
<1>1. ASSUME NEW c \in Clients, Receive(c)
      PROVE  RecordsInv'
  BY <1>1 DEF Receive
<1>2. ASSUME NEW c \in Clients, CheckParams(c)
      PROVE  RecordsInv'
  BY <1>2 DEF CheckParams
<1>3. ASSUME NEW c \in Clients, LockDatabase(c)
      PROVE  RecordsInv'
  BY <1>3 DEF LockDatabase, DBLock
<1>4. ASSUME NEW c \in Clients, LookupMiss(c)
      PROVE  RecordsInv'
  BY <1>4 DEF LookupMiss
<1>5. ASSUME NEW c \in Clients, LookupHit(c)
      PROVE  RecordsInv'
  BY <1>5 DEF LookupHit
<1>6. ASSUME NEW c \in Clients, LockRecord(c)
      PROVE  RecordsInv'
  BY <1>6 DEF LockRecord, RecordLock
<1>7. ASSUME NEW c \in Clients, UnlockRecord(c)
      PROVE  RecordsInv'
  BY <1>7 DEF UnlockRecord, RecordUnlock
<1>8. ASSUME NEW c \in Clients, UnlockDatabase(c)
      PROVE  RecordsInv'
  BY <1>8 DEF UnlockDatabase, DBUnlock
<1>9. ASSUME NEW c \in Clients, Respond(c)
      PROVE  RecordsInv'
  BY <1>9 DEF Respond
<1>10. ASSUME NEW c \in Clients, StatCreateReserve(c)
      PROVE  RecordsInv'
  BY <1>10 DEF StatCreateReserve
<1>11. ASSUME NEW c \in Clients, StatCreateTap(c)
      PROVE  RecordsInv'
  BY <1>11 DEF StatCreateTap
<1>12. ASSUME NEW c \in Clients, StatSetRate(c)
      PROVE  RecordsInv'
  BY <1>12 DEF StatSetRate
<1>13. ASSUME NEW c \in Clients, StatRecordReserve(c)
      PROVE  RecordsInv'
  BY <1>13 DEF StatRecordReserve, SetRecordReserve
<1>14. ASSUME NEW c \in Clients, StatDeleteTap(c)
      PROVE  RecordsInv'
  BY <1>14 DEF StatDeleteTap
<1>15. ASSUME NEW c \in Clients, StatPutReserve(c)
      PROVE  RecordsInv'
  BY <1>15 DEF StatPutReserve
<1>16. ASSUME NEW c \in Clients, StatExpose(c)
      PROVE  RecordsInv'
  BY <1>16 DEF StatExpose
<1>17. ASSUME NEW c \in Clients, GetTapParams(c)
      PROVE  RecordsInv'
  BY <1>17 DEF GetTapParams
<1>18. ASSUME NEW c \in Clients, SetTapParams(c)
      PROVE  RecordsInv'
  BY <1>18 DEF SetTapParams
<1>19. ASSUME NEW c \in Clients, SetRecord(c)
      PROVE  RecordsInv'
  BY <1>19 DEF SetRecord, SetRecordParams
<1>20. ASSUME NEW c \in Clients, AddEntry(c)
      PROVE  RecordsInv'
  <2>1. CASE UNCHANGED dbaseVars
    BY <1>20, <2>1 DEF AddEntry
  <2>2. ASSUME NEW x \in Records, AddRecord(req[c].uid, x, req[c].par)
        PROVE  RecordsInv'
    <3>1. Allocated' = Allocated \cup {x} /\ x \notin Allocated
      BY <1>20, <2>2, AddRecordMaps DEF AddRecord
    <3>2. /\ record' = [record EXCEPT ![x] = NewRecord(req[c].par)]
          /\ req[c].par \in TapParams
          /\ UNCHANGED <<dead_list, rpc, cursor>>
      BY <1>20, <2>2, HandlerRequest DEF AddEntry, AddRecord
    <3>3. rpc = "put" => ReaperRecord # x
      BY <3>1, ReaperRecordDead
    <3> HIDE DEF Allocated, Live, Dead
    <3> QED
      BY <3>1, <3>2, <3>3 DEF NewRecord
  <2> QED
    BY <1>20, <2>1, <2>2 DEF AddEntry
<1>21. ASSUME NEW c \in Clients, RemoveEntry(c)
      PROVE  RecordsInv'
  BY <1>21 DEF RemoveEntry, RemoveRecord
<1>22. ASSUME NEW c \in Clients, TaskPut(c)
      PROVE  RecordsInv'
  BY <1>22 DEF TaskPut
<1>23. ASSUME NEW c \in Clients, TaskExpose(c)
      PROVE  RecordsInv'
  BY <1>23 DEF TaskExpose
<1>24. CASE ReaperLock
  BY <1>24 DEF ReaperLock, DBLock
<1>25. CASE ReaperDestroy
  BY <1>25 DEF ReaperDestroy, DestroyRecordLock, ReaperAtRecord
<1>26. CASE ReaperCountUsers
  BY <1>26 DEF ReaperCountUsers, ReaperAtRecord
<1>27. ASSUME NEW ok \in BOOLEAN, ReaperPut(ok)
      PROVE  RecordsInv'
  BY <1>27 DEF ReaperPut, DestroyRecordLock
<1>28. CASE ReaperDone
  BY <1>28 DEF ReaperDone, DBUnlock
<1>29. CASE UNCHANGED vars
  BY <1>29 DEF vars
<1> QED
  BY <1>1, <1>2, <1>3, <1>4, <1>5, <1>6, <1>7, <1>8, <1>9, <1>10, <1>11,
      <1>12, <1>13, <1>14, <1>15, <1>16, <1>17, <1>18, <1>19, <1>20, <1>21,
      <1>22, <1>23, <1>24, <1>25, <1>26, <1>27, <1>28, <1>29 DEF Next,
      Handler, HandlerStep, ReaperThread, ReaperStep

(* A handler past its lookup keeps a live record. *)
LEMMA HoldStep ==
    ASSUME CoreInv, HandlersHoldLiveRecords, [Next]_vars
    PROVE  HandlersHoldLiveRecords'
<1> USE DEF kernelVars, dbaseVars, handlerVars, reaperVars
<1> USE NULLAssumption, LockAssumption DEF CoreInv, TypeOK, DatabaseTypeOK,
    HandlerTypeOK, ReaperTypeOK, LocalsInv, HandlersHoldLiveRecords,
    HasRecord, RecordPcs, LockInv, LockedPcs, Live, Allocated, Requests
<1>1. ASSUME NEW c \in Clients, Receive(c)
      PROVE  HandlersHoldLiveRecords'
  BY <1>1 DEF Receive, Goto
<1>2. ASSUME NEW c \in Clients, CheckParams(c)
      PROVE  HandlersHoldLiveRecords'
  BY <1>2 DEF CheckParams, Goto
<1>3. ASSUME NEW c \in Clients, LockDatabase(c)
      PROVE  HandlersHoldLiveRecords'
  BY <1>3 DEF LockDatabase, Goto, DBLock
<1>4. ASSUME NEW c \in Clients, LookupMiss(c)
      PROVE  HandlersHoldLiveRecords'
  BY <1>4 DEF LookupMiss, Goto
<1>5. ASSUME NEW c \in Clients, LookupHit(c)
      PROVE  HandlersHoldLiveRecords'
  BY <1>5 DEF LookupHit, Goto
<1>6. ASSUME NEW c \in Clients, LockRecord(c)
      PROVE  HandlersHoldLiveRecords'
  BY <1>6 DEF LockRecord, Goto, RecordLock
<1>7. ASSUME NEW c \in Clients, UnlockRecord(c)
      PROVE  HandlersHoldLiveRecords'
  BY <1>7 DEF UnlockRecord, Goto, RecordUnlock
<1>8. ASSUME NEW c \in Clients, UnlockDatabase(c)
      PROVE  HandlersHoldLiveRecords'
  BY <1>8 DEF UnlockDatabase, Goto, DBUnlock
<1>9. ASSUME NEW c \in Clients, Respond(c)
      PROVE  HandlersHoldLiveRecords'
  BY <1>9 DEF Respond, Goto
<1>10. ASSUME NEW c \in Clients, StatCreateReserve(c)
      PROVE  HandlersHoldLiveRecords'
  BY <1>10 DEF StatCreateReserve, Goto
<1>11. ASSUME NEW c \in Clients, StatCreateTap(c)
      PROVE  HandlersHoldLiveRecords'
  BY <1>11 DEF StatCreateTap, Goto
<1>12. ASSUME NEW c \in Clients, StatSetRate(c)
      PROVE  HandlersHoldLiveRecords'
  BY <1>12 DEF StatSetRate, Goto
<1>13. ASSUME NEW c \in Clients, StatRecordReserve(c)
      PROVE  HandlersHoldLiveRecords'
  BY <1>13 DEF StatRecordReserve, Goto, SetRecordReserve
<1>14. ASSUME NEW c \in Clients, StatDeleteTap(c)
      PROVE  HandlersHoldLiveRecords'
  BY <1>14 DEF StatDeleteTap, Goto
<1>15. ASSUME NEW c \in Clients, StatPutReserve(c)
      PROVE  HandlersHoldLiveRecords'
  BY <1>15 DEF StatPutReserve, Goto
<1>16. ASSUME NEW c \in Clients, StatExpose(c)
      PROVE  HandlersHoldLiveRecords'
  BY <1>16 DEF StatExpose, Goto
<1>17. ASSUME NEW c \in Clients, GetTapParams(c)
      PROVE  HandlersHoldLiveRecords'
  BY <1>17 DEF GetTapParams, Goto
<1>18. ASSUME NEW c \in Clients, SetTapParams(c)
      PROVE  HandlersHoldLiveRecords'
  BY <1>18 DEF SetTapParams, Goto
<1>19. ASSUME NEW c \in Clients, SetRecord(c)
      PROVE  HandlersHoldLiveRecords'
  BY <1>19 DEF SetRecord, Goto, SetRecordParams
<1>20. ASSUME NEW c \in Clients, AddEntry(c)
      PROVE  HandlersHoldLiveRecords'
  BY <1>20 DEF AddEntry, Goto, AddRecord, NewRecord
<1>21. ASSUME NEW c \in Clients, RemoveEntry(c)
      PROVE  HandlersHoldLiveRecords'
  BY <1>21 DEF RemoveEntry, Goto, RemoveRecord
<1>22. ASSUME NEW c \in Clients, TaskPut(c)
      PROVE  HandlersHoldLiveRecords'
  BY <1>22 DEF TaskPut
<1>23. ASSUME NEW c \in Clients, TaskExpose(c)
      PROVE  HandlersHoldLiveRecords'
  BY <1>23 DEF TaskExpose
<1>24. CASE ReaperLock
  BY <1>24 DEF ReaperLock, DBLock
<1>25. CASE ReaperDestroy
  BY <1>25, ReaperRecordDead DEF RecordsInOnePlace, ReaperDestroy, DestroyRecordLock
<1>26. CASE ReaperCountUsers
  BY <1>26 DEF ReaperCountUsers
<1>27. ASSUME NEW ok \in BOOLEAN, ReaperPut(ok)
      PROVE  HandlersHoldLiveRecords'
  BY <1>27, ReaperRecordDead DEF RecordsInOnePlace, ReaperPut, DestroyRecordLock
<1>28. CASE ReaperDone
  BY <1>28 DEF ReaperDone, DBUnlock
<1>29. CASE UNCHANGED vars
  BY <1>29 DEF vars
<1> QED
  BY <1>1, <1>2, <1>3, <1>4, <1>5, <1>6, <1>7, <1>8, <1>9, <1>10, <1>11,
      <1>12, <1>13, <1>14, <1>15, <1>16, <1>17, <1>18, <1>19, <1>20, <1>21,
      <1>22, <1>23, <1>24, <1>25, <1>26, <1>27, <1>28, <1>29 DEF Next,
      Handler, HandlerStep, ReaperThread, ReaperStep

(* A reserve whose only user is the arbiter, by its count. *)
LEMMA OneUserIsArbiter ==
    ASSUME CoreInv, NEW r \in ReserveIds, Arbiter \in users[r], SoleUser(r)
    PROVE  users[r] = {Arbiter}
<1>1. IsFiniteSet(Tasks)
  BY ClientsAssumption, FS_AddElement DEF Tasks
<1>2. IsFiniteSet(users[r])
  BY <1>1, FS_Subset DEF CoreInv, TypeOK, KernelTypeOK
<1>3. PICK t : users[r] = {t}
  BY <1>2, FS_Singleton DEF SoleUser, NumReserveUsers
<1> QED
  BY <1>3

(* The thread inside the database is alone there. *)
LEMMA OneThreadInside ==
    ASSUME CoreInv, NEW c \in Clients, pc[c] \in LockedPcs
    PROVE  /\ rpc = "asleep"
           /\ \A d \in Clients : d # c => /\ pc[d] \notin LockedPcs
                                          /\ new_reserve[d] = NoReserve
<1>1. dbase_lock = c /\ dbase_lock # Reaper
  BY LockAssumption DEF CoreInv, LockInv
<1>2. rpc = "asleep"
  BY <1>1 DEF CoreInv, LockInv
<1>3. \A d \in Clients : d # c => pc[d] \notin LockedPcs
  BY <1>1 DEF CoreInv, LockInv
<1> QED
  BY <1>2, <1>3 DEF CoreInv, LocalsInv, SetupPcs, LockedPcs, RecordPcs

(* While the reaper is in the database no handler is. *)
LEMMA NoneInsideWithReaper ==
    ASSUME CoreInv, rpc # "asleep"
    PROVE  \A c \in Clients : pc[c] \notin LockedPcs /\ new_reserve[c] = NoReserve
BY LockAssumption DEF CoreInv, LockInv, LocalsInv, SetupPcs, LockedPcs, RecordPcs

(* The reaper destroys the lock of a dead record, while no handler is in   *)
(* the database; nobody else destroys one.                                 *)
LEMMA LocksStandStep ==
    ASSUME CoreInv, [Next]_vars
    PROVE  LocksStand'
<1> USE LockAssumption DEF CoreInv, LocksStand
<1>1. CASE ReaperDestroy \/ \E ok \in BOOLEAN : ReaperPut(ok)
  <2>1. ReaperRecord \in Dead /\ ReaperRecord \notin Live
    BY <1>1, ReaperRecordDead DEF ReaperDestroy, ReaperPut, RecordsInOnePlace
  <2>2. \A c \in Clients : ~HasRecord(c)
    BY <1>1, NoneInsideWithReaper DEF ReaperDestroy, ReaperPut, ReaperAtRecord,
       HasRecord, LockedPcs
  <2>3. UNCHANGED <<data, pc, ptr>>
        /\ data_lock' = [data_lock EXCEPT ![ReaperRecord] = NoMutex]
    BY <1>1 DEF ReaperDestroy, ReaperPut, DestroyRecordLock, handlerVars
  <2> QED
    BY <2>1, <2>2, <2>3 DEF Live, HasRecord, RecordPcs, TypeOK, DatabaseTypeOK
<1>2. ASSUME NEW c \in Clients, AddEntry(c)
      PROVE  LocksStand'
  <2>1. /\ UNCHANGED ptr
        /\ \A d \in Clients : HasRecord(d)' => HasRecord(d)
    BY <1>2 DEF AddEntry, Goto, HasRecord, RecordPcs, TypeOK, HandlerTypeOK
  <2>2. CASE UNCHANGED dbaseVars
    BY <2>1, <2>2 DEF dbaseVars, Live
  <2>3. ASSUME NEW x \in Records, AddRecord(req[c].uid, x, req[c].par)
        PROVE  LocksStand'
    <3>1. Live' = Live \cup {x}
      BY <1>2, <2>3, AddRecordMaps
    <3>2. data_lock' = [data_lock EXCEPT ![x] = Free]
      BY <2>3 DEF AddRecord
    <3>3. \A d \in Clients : HasRecord(d) => ptr[d] \in Records
      BY HandlerRecord
    <3>4. Live \subseteq Records
      BY NULLAssumption DEF Live, TypeOK, DatabaseTypeOK
    <3> QED
      BY <2>1, <3>1, <3>2, <3>3, <3>4 DEF TypeOK, DatabaseTypeOK
  <2> QED
    BY <1>2, <2>2, <2>3 DEF AddEntry
<1>3. ASSUME NEW c \in Clients, LookupHit(c)
      PROVE  LocksStand'
  <2>1. data[req[c].uid] \in Live
    BY <1>3, HandlerRequest DEF LookupHit, Live
  <2>2. /\ ptr' = [ptr EXCEPT ![c] = data[req[c].uid]]
        /\ UNCHANGED <<data, data_lock>>
        /\ \A d \in Clients : d # c => pc'[d] = pc[d]
    BY <1>3 DEF LookupHit, dbaseVars, Goto, TypeOK, HandlerTypeOK
  <2> QED
    BY <2>1, <2>2 DEF Live, HasRecord, TypeOK, HandlerTypeOK
<1>4. ASSUME NEW c \in Clients, LockRecord(c) \/ UnlockRecord(c)
      PROVE  LocksStand'
  <2>1. /\ UNCHANGED <<data, ptr>>
        /\ \A d \in Clients : HasRecord(d)' => HasRecord(d)
    BY <1>4 DEF LockRecord, UnlockRecord, RecordLock, RecordUnlock, Goto, HasRecord,
       RecordPcs, TypeOK, HandlerTypeOK
  <2>2. /\ c # NoMutex
        /\ \/ data_lock' = [data_lock EXCEPT ![ptr[c]] = c]
           \/ data_lock' = [data_lock EXCEPT ![ptr[c]] = Free]
    BY <1>4 DEF LockRecord, UnlockRecord, RecordLock, RecordUnlock, Threads
  <2>3. \A x \in Records : data_lock[x] # NoMutex => data_lock'[x] # NoMutex
    BY <2>2 DEF Threads, TypeOK, DatabaseTypeOK
  <2>4. /\ Live' = Live /\ Live \subseteq Records
        /\ \A d \in Clients : HasRecord(d) => ptr[d] \in Records
    BY <2>1, NULLAssumption, HandlerRecord DEF Live, TypeOK, DatabaseTypeOK
  <2> QED
    BY <2>1, <2>3, <2>4
<1>5. ASSUME NEW c \in Clients, RemoveEntry(c)
      PROVE  LocksStand'
  <2>1. /\ UNCHANGED <<ptr, data_lock>>
        /\ \A d \in Clients : HasRecord(d)' => HasRecord(d)
        /\ Live' \subseteq Live
    BY <1>5 DEF RemoveEntry, RemoveRecord, Goto, HasRecord, RecordPcs, Live, TypeOK,
       DatabaseTypeOK, HandlerTypeOK
  <2> QED
    BY <2>1
<1>6. ASSUME NEW c \in Clients, UnlockDatabase(c)
      PROVE  LocksStand'
  <2>1. /\ UNCHANGED <<data, data_lock>>
        /\ \A d \in Clients : HasRecord(d)' => HasRecord(d) /\ ptr'[d] = ptr[d]
    BY <1>6 DEF UnlockDatabase, DBUnlock, Goto, HasRecord, RecordPcs, TypeOK,
       HandlerTypeOK
  <2> QED
    BY <2>1 DEF Live
<1>7. ASSUME UNCHANGED <<data, data_lock, ptr>>,
             \A d \in Clients : HasRecord(d)' => HasRecord(d)
      PROVE  LocksStand'
  BY <1>7 DEF Live
<1>8. ASSUME NEW c \in Clients,
             \/ Receive(c) \/ CheckParams(c) \/ LockDatabase(c) \/ LookupMiss(c)
             \/ Respond(c) \/ StatCreateReserve(c) \/ StatCreateTap(c)
             \/ StatSetRate(c) \/ StatRecordReserve(c) \/ StatDeleteTap(c)
             \/ StatPutReserve(c) \/ StatExpose(c) \/ GetTapParams(c)
             \/ SetTapParams(c) \/ SetRecord(c)
      PROVE  LocksStand'
  <2>1. UNCHANGED <<data, data_lock, ptr>>
    BY <1>8 DEF dbaseVars, Receive, CheckParams, LockDatabase, DBLock, LookupMiss,
       Respond, StatCreateReserve, StatCreateTap, StatSetRate, StatRecordReserve,
       SetRecordReserve, StatDeleteTap, StatPutReserve, StatExpose, GetTapParams,
       SetTapParams, SetRecord, SetRecordParams
  <2>2. HasRecord(c)' => HasRecord(c)
    BY <1>8 DEF HasRecord, RecordPcs, Goto, TypeOK, HandlerTypeOK, Receive,
       CheckParams, LockDatabase, LookupMiss, Respond, StatCreateReserve,
       StatCreateTap, StatSetRate, StatRecordReserve, StatDeleteTap, StatPutReserve,
       StatExpose, GetTapParams, SetTapParams, SetRecord
  <2>3. \A d \in Clients : d # c => pc'[d] = pc[d]
    BY <1>8 DEF Goto, TypeOK, HandlerTypeOK, Receive, CheckParams, LockDatabase,
       LookupMiss, Respond, StatCreateReserve, StatCreateTap, StatSetRate,
       StatRecordReserve, StatDeleteTap, StatPutReserve, StatExpose, GetTapParams,
       SetTapParams, SetRecord
  <2>4. \A d \in Clients : HasRecord(d)' => HasRecord(d)
    BY <2>2, <2>3 DEF HasRecord
  <2> QED
    BY <1>7, <2>1, <2>4
<1>9. CASE \/ \E c \in Clients : TaskPut(c) \/ TaskExpose(c)
           \/ ReaperLock \/ ReaperCountUsers \/ ReaperDone \/ UNCHANGED vars
  <2>1. UNCHANGED <<data, data_lock, pc, ptr>>
    BY <1>9 DEF vars, dbaseVars, handlerVars, TaskPut, TaskExpose, ReaperLock, DBLock,
       ReaperCountUsers, ReaperDone, DBUnlock
  <2> QED
    BY <1>7, <2>1 DEF HasRecord
<1> QED
  BY <1>1, <1>2, <1>3, <1>4, <1>5, <1>6, <1>8, <1>9 DEF Next, Handler, HandlerStep,
     ReaperThread, ReaperStep

(* What the reaper and statReserve know of the users of a reserve stays    *)
(* true.                                                                   *)
LEMMA SoleStep ==
    ASSUME CoreInv, [Next]_vars
    PROVE  SoleHolder'
<1>1. ASSUME NEW c \in Clients, Handler(c), pc[c] \in LockedPcs
      PROVE  SoleHolder'
  <2>1. /\ rpc = "asleep"
        /\ \A d \in Clients : d # c => new_reserve[d] = NoReserve
    BY <1>1, OneThreadInside
  <2>2. /\ rpc' = rpc
        /\ \/ UNCHANGED <<users, new_reserve>>
           \/ StatCreateReserve(c) \/ StatRecordReserve(c) \/ StatPutReserve(c)
           \/ StatExpose(c)
    BY <1>1 DEF Handler, HandlerStep, kernelVars, handlerVars, reaperVars, LockedPcs,
       RecordPcs, Receive, CheckParams, LockDatabase, LookupMiss, LookupHit,
       LockRecord, UnlockRecord, UnlockDatabase, Respond, StatCreateReserve,
       StatCreateTap, CreateTap, StatSetRate, TapSetRate, StatRecordReserve,
       StatDeleteTap, DeleteTap, StatPutReserve, StatExpose, GetTapParams,
       SetTapParams, SetRecord, AddEntry, RemoveEntry, SyscallFails
  <2>3. CASE UNCHANGED <<users, new_reserve>>
    BY <2>1, <2>2, <2>3 DEF CoreInv, SoleHolder
  <2>4. CASE StatCreateReserve(c)
    <3>1. /\ \A d \in Clients : d # c => new_reserve'[d] = NoReserve
          /\ new_reserve'[c] # NoReserve => users'[new_reserve'[c]] = {Arbiter}
      BY <2>1, <2>4 DEF StatCreateReserve, CreateReserve, SyscallFails, CoreInv,
         TypeOK, KernelTypeOK, HandlerTypeOK, LocalsInv, SetupPcs
    <3> QED
      BY <2>1, <2>2, <3>1 DEF SoleHolder
  <2>5. CASE StatRecordReserve(c) \/ StatPutReserve(c) \/ StatExpose(c)
    <3>1. \A d \in Clients : new_reserve'[d] = NoReserve
      BY <2>1, <2>5 DEF StatRecordReserve, StatPutReserve, StatExpose, CoreInv,
         TypeOK, HandlerTypeOK, LocalsInv, SetupPcs
    <3> QED
      BY <2>1, <2>2, <3>1 DEF SoleHolder
  <2> QED
    BY <2>2, <2>3, <2>4, <2>5
<1>2. ASSUME NEW c \in Clients, Handler(c), pc[c] \notin LockedPcs
      PROVE  SoleHolder'
  <2>1. UNCHANGED <<users, new_reserve, record, dead_list, rpc, cursor>>
    BY <1>2 DEF Handler, HandlerStep, kernelVars, dbaseVars, reaperVars, LockedPcs,
       RecordPcs, Receive, CheckParams, LockDatabase, DBLock, LookupMiss, LookupHit,
       LockRecord, UnlockRecord, UnlockDatabase, Respond, StatCreateReserve,
       StatCreateTap, StatSetRate, StatRecordReserve, StatDeleteTap, StatPutReserve,
       StatExpose, GetTapParams, SetTapParams, SetRecord, AddEntry, RemoveEntry
  <2> QED
    BY <2>1 DEF CoreInv, SoleHolder, ReaperReserve, ReaperRecord
<1>3. ASSUME NEW c \in Clients, TaskPut(c) \/ TaskExpose(c)
      PROVE  SoleHolder'
  <2>1. UNCHANGED <<new_reserve, record, dead_list, rpc, cursor>>
    BY <1>3 DEF TaskPut, TaskExpose, dbaseVars, handlerVars, reaperVars
  <2>2. \A r \in ReserveIds : users[r] = {Arbiter} => users'[r] = {Arbiter}
    BY <1>3, ClientsAssumption DEF TaskPut, TaskExpose, PutReserve, ExposeReserve,
       CoreInv, TypeOK, KernelTypeOK
  <2>3. rpc = "put" => ReaperReserve \in ReserveIds
    BY ReaperRecordDead DEF ReaperReserve, CoreInv, TypeOK, DatabaseTypeOK,
       RecordType, RecordsInv
  <2> QED
    BY <2>1, <2>2, <2>3 DEF CoreInv, TypeOK, HandlerTypeOK, SoleHolder,
       ReaperReserve, ReaperRecord
<1>4. CASE ReaperLock \/ ReaperDestroy \/ ReaperDone
  BY <1>4 DEF ReaperLock, ReaperDestroy, ReaperDone, kernelVars, handlerVars,
     CoreInv, SoleHolder, ReaperAtRecord
<1>5. CASE ReaperCountUsers
  <2>1. ReaperReserve \in ReserveIds
    BY <1>5, ReaperRecordDead DEF ReaperCountUsers, ReaperReserve, CoreInv, TypeOK,
       DatabaseTypeOK, RecordType, RecordsInv
  <2>2. UNCHANGED <<users, new_reserve, record, dead_list>>
    BY <1>5 DEF ReaperCountUsers, kernelVars, dbaseVars, handlerVars
  <2>3. rpc' = "put" => cursor' = cursor /\ users[ReaperReserve] = {Arbiter}
    BY <1>5, <2>1, OneUserIsArbiter DEF ReaperCountUsers, ReaperAtRecord,
       ReserveInfo
  <2> QED
    BY <2>2, <2>3 DEF CoreInv, SoleHolder, ReaperReserve, ReaperRecord
<1>6. ASSUME NEW ok \in BOOLEAN, ReaperPut(ok)
      PROVE  SoleHolder'
  BY <1>6, NoneInsideWithReaper DEF ReaperPut, handlerVars, SoleHolder
<1>7. CASE UNCHANGED vars
  BY <1>7 DEF vars, kernelVars, dbaseVars, handlerVars, reaperVars, CoreInv,
     SoleHolder, ReaperReserve, ReaperRecord
<1> QED
  BY <1>1, <1>2, <1>3, <1>4, <1>5, <1>6, <1>7 DEF Next, ReaperThread, ReaperStep

(* The arbiter's own puts, one for a reserve it could not set up and one    *)
(* by the reaper, are of reserves nobody else holds.                       *)
LEMMA PutStep ==
    ASSUME CoreInv, [Next]_vars, NEW r \in ReserveIds,
           Arbiter \in users[r], Arbiter \notin users'[r]
    PROVE  users[r] = {Arbiter}
<1> USE DEF CoreInv, TypeOK, KernelTypeOK
<1>1. ASSUME NEW c \in Clients, StatPutReserve(c)
      PROVE  users[r] = {Arbiter}
  BY <1>1 DEF StatPutReserve, PutReserve, SyscallFails, kernelVars, SoleHolder,
     LocalsInv, SetupPcs
<1>2. ASSUME NEW ok \in BOOLEAN, ReaperPut(ok)
      PROVE  users[r] = {Arbiter}
  BY <1>2 DEF ReaperPut, PutReserve, SyscallFails, kernelVars, SoleHolder
<1>3. ASSUME NEW c \in Clients, TaskPut(c) \/ TaskExpose(c)
      PROVE  FALSE
  BY <1>3, ClientsAssumption DEF TaskPut, TaskExpose, PutReserve, ExposeReserve
<1>4. ASSUME NEW c \in Clients, StatCreateReserve(c) \/ StatExpose(c)
      PROVE  FALSE
  BY <1>4 DEF StatCreateReserve, StatExpose, CreateReserve, ExposeReserve,
     SyscallFails, kernelVars
<1>5. CASE UNCHANGED users
  BY <1>5
<1> QED
  BY <1>1, <1>2, <1>3, <1>4, <1>5 DEF Next, Handler, HandlerStep, ReaperThread,
     ReaperStep, vars, kernelVars, Receive, CheckParams, LockDatabase, LookupMiss,
     LookupHit, LockRecord, UnlockRecord, UnlockDatabase, Respond, StatCreateTap,
     CreateTap, StatSetRate, TapSetRate, StatRecordReserve, StatDeleteTap,
     DeleteTap, GetTapParams, SetTapParams, SetRecord, AddEntry, RemoveEntry,
     SyscallFails, ReaperLock, ReaperDestroy, ReaperCountUsers, ReaperDone

(* A client that waits for its response drops nothing itself, so it keeps  *)
(* what it holds and the arbiter keeps it too.                             *)
LEMMA HoldersKept ==
    ASSUME CoreInv, [Next]_vars, NEW c \in Clients, pc[c] # "idle",
           NEW r \in ReserveIds, {c, Arbiter} \subseteq users[r]
    PROVE  {c, Arbiter} \subseteq users'[r]
<1>1. Arbiter \in users'[r]
  BY PutStep, ClientsAssumption
<1>2. c \in users'[r]
  <2> USE DEF CoreInv, TypeOK, KernelTypeOK
  <2>1. ASSUME NEW d \in Clients, StatPutReserve(d)
        PROVE  c \in users'[r]
    BY <2>1, ClientsAssumption DEF StatPutReserve, PutReserve, SyscallFails,
       kernelVars
  <2>2. ASSUME NEW ok \in BOOLEAN, ReaperPut(ok)
        PROVE  c \in users'[r]
    BY <2>2, ClientsAssumption DEF ReaperPut, PutReserve, SyscallFails, kernelVars
  <2>3. ASSUME NEW d \in Clients, TaskPut(d) \/ TaskExpose(d)
        PROVE  c \in users'[r]
    BY <2>3 DEF TaskPut, TaskExpose, PutReserve, ExposeReserve
  <2>4. ASSUME NEW d \in Clients, StatCreateReserve(d)
        PROVE  c \in users'[r]
    BY <2>4 DEF StatCreateReserve, CreateReserve, SyscallFails, kernelVars,
       ReservesAccountedFor, Accounted
  <2>5. ASSUME NEW d \in Clients, StatExpose(d)
        PROVE  c \in users'[r]
    BY <2>5 DEF StatExpose, ExposeReserve, SyscallFails, kernelVars
  <2>6. CASE UNCHANGED users
    BY <2>6
  <2> QED
    BY <2>1, <2>2, <2>3, <2>4, <2>5, <2>6 DEF Next, Handler, HandlerStep,
       ReaperThread, ReaperStep, vars, kernelVars, Receive, CheckParams,
       LockDatabase, LookupMiss, LookupHit, LockRecord, UnlockRecord,
       UnlockDatabase, Respond, StatCreateTap, CreateTap, StatSetRate, TapSetRate,
       StatRecordReserve, StatDeleteTap, DeleteTap, GetTapParams, SetTapParams,
       SetRecord, AddEntry, RemoveEntry, SyscallFails, ReaperLock, ReaperDestroy,
       ReaperCountUsers, ReaperDone
<1> QED
  BY <1>1, <1>2

(* The owners of a reserve depend on four variables only. *)
LEMMA OwnersSame ==
    ASSUME UNCHANGED <<data, dead_list, record, new_reserve>>, NEW r
    PROVE  Owners(r)' = Owners(r)
BY DEF Owners, HasReserve, Allocated, Live, Dead

(* The steps that change what a reserve's owners are. *)
LEMMA OwnersOthers ==
    ASSUME CoreInv, RemovesFound, [Next]_vars, NEW r \in ReserveIds,
           ~ \E c \in Clients : \/ StatCreateReserve(c) \/ StatRecordReserve(c)
                                \/ StatPutReserve(c)
    PROVE  Owners(r)' = Owners(r)
<1> USE DEF CoreInv, TypeOK, DatabaseTypeOK, HandlerTypeOK
<1>1. ASSUME NEW c \in Clients, RemoveEntry(c)
      PROVE  Owners(r)' = Owners(r)
  <2>1. Allocated' = Allocated
    BY <1>1, RemoveEntryMoves
  <2> QED
    BY <1>1, <2>1 DEF RemoveEntry, RemoveRecord, Owners, HasReserve
<1>2. ASSUME NEW c \in Clients, AddEntry(c)
      PROVE  Owners(r)' = Owners(r)
  <2>1. CASE UNCHANGED dbaseVars
    BY <1>2, <2>1, OwnersSame DEF AddEntry, dbaseVars
  <2>2. ASSUME NEW x \in Records, AddRecord(req[c].uid, x, req[c].par)
        PROVE  Owners(r)' = Owners(r)
    <3>1. /\ x \notin Allocated
          /\ record' = [record EXCEPT ![x] = NewRecord(req[c].par)]
          /\ new_reserve' = new_reserve
      BY <1>2, <2>2 DEF AddRecord, AddEntry
    <3>2. Allocated' = Allocated \cup {x}
      BY <1>2, <2>2, AddRecordMaps
    <3>3. \A y \in Records : HasReserve(y, r)' <=> HasReserve(y, r)
      BY <3>1, <3>2 DEF HasReserve, NewRecord
    <3> QED
      BY <3>1, <3>3 DEF Owners
  <2> QED
    BY <1>2, <2>1, <2>2 DEF AddEntry
<1>3. ASSUME NEW c \in Clients, SetRecord(c)
      PROVE  Owners(r)' = Owners(r)
  <2>1. ptr[c] \in Records
    BY <1>3, HandlerRecord DEF SetRecord, HasRecord, RecordPcs
  <2>2. Allocated' = Allocated
    BY <1>3 DEF SetRecord, SetRecordParams, Allocated, Live, Dead
  <2>3. \A y \in Records : HasReserve(y, r)' <=> HasReserve(y, r)
    BY <1>3, <2>1, <2>2 DEF SetRecord, SetRecordParams, HasReserve, RecordType
  <2> QED
    BY <1>3, <2>3 DEF SetRecord, Owners
<1>4. CASE UNCHANGED <<data, dead_list, record, new_reserve>>
  BY <1>4, OwnersSame
<1> QED
  BY <1>1, <1>2, <1>3, <1>4 DEF Next, Handler, HandlerStep, ReaperThread,
     ReaperStep, vars, dbaseVars, handlerVars, Receive, CheckParams, LockDatabase,
     DBLock, LookupMiss, LookupHit, LockRecord, RecordLock, UnlockRecord,
     RecordUnlock, UnlockDatabase, DBUnlock, Respond, StatCreateTap, StatSetRate,
     StatDeleteTap, StatExpose, GetTapParams, SetTapParams, TaskPut, TaskExpose,
     ReaperLock, ReaperDestroy, DestroyRecordLock, ReaperCountUsers, ReaperPut,
     ReaperDone

(* A reserve that a handler sets up is in nobody else's hands. *)
LEMMA SetupOwner ==
    ASSUME CoreInv, NEW c \in Clients, pc[c] \in SetupPcs
    PROVE  /\ new_reserve[c] \in ReserveIds
           /\ new_reserve[c] \in minted
           /\ new_reserve[c] \notin logged
           /\ Owners(new_reserve[c]) = {<<"handler", c>>}
           /\ \A d \in Clients : new_reserve[d] = new_reserve[c] => d = c
           /\ \A x \in Records : ~HasReserve(x, new_reserve[c])
<1> DEFINE r == new_reserve[c]
<1>1. r \in ReserveIds
  BY DEF CoreInv, TypeOK, HandlerTypeOK, LocalsInv
<1>2. <<"handler", c>> \in Owners(r)
  BY DEF Owners
<1>3. \A x, y \in Owners(r) : x = y
  BY <1>1 DEF CoreInv, ReservesAccountedFor, Accounted
<1>4. Owners(r) = {<<"handler", c>>}
  BY <1>2, <1>3
<1>5. \A d \in Clients : new_reserve[d] = r => d = c
  <2> SUFFICES ASSUME NEW d \in Clients, new_reserve[d] = r
               PROVE  d = c
    OBVIOUS
  <2>1. <<"handler", d>> \in Owners(r)
    BY DEF Owners
  <2> QED
    BY <2>1, <1>4
<1>6. \A x \in Records : ~HasReserve(x, r)
  <2> SUFFICES ASSUME NEW x \in Records, HasReserve(x, r)
               PROVE  FALSE
    OBVIOUS
  <2>1. <<"record", x>> \in Owners(r)
    BY DEF Owners
  <2> QED
    BY <2>1, <1>4
<1>7. r \in minted /\ r \notin logged
  BY <1>1, <1>2 DEF CoreInv, ReservesAccountedFor, Accounted
<1> QED
  BY <1>1, <1>4, <1>5, <1>6, <1>7

(* Every reserve stays accounted for. *)
LEMMA AccountStep ==
    ASSUME CoreInv, RemovesFound, [Next]_vars
    PROVE  ReservesAccountedFor'
<1> SUFFICES ASSUME NEW r \in ReserveIds
             PROVE  Accounted(r)'
  BY DEF ReservesAccountedFor
<1>0. Accounted(r)
  BY DEF CoreInv, ReservesAccountedFor
<1>1. ASSUME NEW c \in Clients, StatCreateReserve(c)
      PROVE  Accounted(r)'
  <2>1. UNCHANGED <<data, dead_list, record, logged>>
    BY <1>1 DEF StatCreateReserve, dbaseVars
  <2>2. \A x \in Records : HasReserve(x, r)' <=> HasReserve(x, r)
    BY <2>1 DEF HasReserve, Allocated, Live, Dead
  <2>3. CASE UNCHANGED <<kernelVars, new_reserve>>
    BY <1>0, <2>1, <2>3, OwnersSame DEF Accounted, kernelVars
  <2>4. ASSUME NEW s \in ReserveIds, CreateReserve(Arbiter, s),
               new_reserve' = [new_reserve EXCEPT ![c] = s]
        PROVE  Accounted(r)'
    <3>1. new_reserve[c] = NoReserve
      BY <1>1 DEF StatCreateReserve, CoreInv, LocalsInv, SetupPcs
    <3>2. CASE r = s
      <4>1. Owners(r) = {} /\ r \notin logged
        BY <2>4, <3>2, <1>0 DEF CreateReserve, Accounted
      <4>2. \A d \in Clients : new_reserve'[d] = r => d = c
        <5>1. \A d \in Clients : new_reserve[d] # r
          BY <4>1 DEF Owners
        <5> QED
          BY <2>4, <5>1 DEF CoreInv, TypeOK, HandlerTypeOK
      <4>3. new_reserve'[c] = r
        BY <2>4, <3>2 DEF CoreInv, TypeOK, HandlerTypeOK
      <4>4. \A x \in Records : ~HasReserve(x, r)'
        BY <2>2, <4>1 DEF Owners
      <4>5. Owners(r)' = {<<"handler", c>>}
        BY <4>2, <4>3, <4>4 DEF Owners
      <4>6. r \in minted' /\ r \notin logged'
        BY <2>1, <2>4, <3>2, <4>1 DEF CreateReserve
      <4> QED
        BY <4>5, <4>6 DEF Accounted
    <3>3. CASE r # s
      <4>1. Owners(r)' = Owners(r)
        BY <2>2, <2>4, <3>1, <3>3, NoReserveAssumption DEF Owners, CoreInv, TypeOK,
           HandlerTypeOK
      <4>2. users'[r] = users[r] /\ (r \in minted' <=> r \in minted)
        BY <2>4, <3>3 DEF CreateReserve, CoreInv, TypeOK, KernelTypeOK
      <4> QED
        BY <1>0, <2>1, <4>1, <4>2 DEF Accounted
    <3> QED
      BY <3>2, <3>3
  <2> QED
    BY <1>1, <2>3, <2>4 DEF StatCreateReserve, SyscallFails
<1>2. ASSUME NEW c \in Clients, StatRecordReserve(c)
      PROVE  Accounted(r)'
  <2> DEFINE s == new_reserve[c]
             x == ptr[c]
  <2>1. /\ record' = [record EXCEPT ![x] = [reserve_created |-> TRUE,
                                            reserve_id |-> s,
                                            par |-> record[x].par]]
        /\ new_reserve' = [new_reserve EXCEPT ![c] = NoReserve]
        /\ UNCHANGED <<kernelVars, data, dead_list, logged>>
    BY <1>2 DEF StatRecordReserve, SetRecordReserve
  <2>2. x \in Records /\ x \in Allocated /\ ~record[x].reserve_created
    BY <1>2, HandlerRecord DEF StatRecordReserve, HasRecord, RecordPcs, CoreInv,
       LocalsInv, SetupPcs, Allocated
  <2>3. Allocated' = Allocated
    BY <2>1 DEF Allocated, Live, Dead
  <2>4. /\ Owners(s) = {<<"handler", c>>} /\ s \in minted /\ s \notin logged
        /\ \A d \in Clients : new_reserve[d] = s => d = c
        /\ \A y \in Records : ~HasReserve(y, s)
    BY <1>2, SetupOwner DEF StatRecordReserve, SetupPcs
  <2>5. \A y \in Records : HasReserve(y, r)' <=> HasReserve(y, r) \/ (y = x /\ r = s)
    <3>1. \A y \in Records : y # x => record'[y] = record[y]
      BY <2>1 DEF CoreInv, TypeOK, DatabaseTypeOK
    <3>2. record'[x].reserve_created /\ record'[x].reserve_id = s
      BY <2>1, <2>2 DEF CoreInv, TypeOK, DatabaseTypeOK
    <3> QED
      BY <2>2, <2>3, <3>1, <3>2 DEF HasReserve
  <2>6. \A d \in Clients : new_reserve'[d] = r <=> new_reserve[d] = r /\ d # c
    BY <2>1, NoReserveAssumption DEF CoreInv, TypeOK, HandlerTypeOK
  <2>7. CASE r = s
    <3>1. Owners(r)' = {<<"record", x>>}
      BY <2>2, <2>4, <2>5, <2>6, <2>7 DEF Owners
    <3> QED
      BY <2>1, <2>4, <2>7, <3>1 DEF Accounted, kernelVars
  <2>8. CASE r # s
    <3>1. \A y \in Records : HasReserve(y, r)' <=> HasReserve(y, r)
      BY <2>5, <2>8
    <3>2. \A d \in Clients : new_reserve'[d] = r <=> new_reserve[d] = r
      BY <2>6, <2>8
    <3>3. Owners(r)' = Owners(r)
      BY <3>1, <3>2 DEF Owners
    <3> QED
      BY <1>0, <2>1, <3>3 DEF Accounted, kernelVars
  <2> QED
    BY <2>7, <2>8
<1>3. ASSUME NEW c \in Clients, StatPutReserve(c)
      PROVE  Accounted(r)'
  <2> DEFINE s == new_reserve[c]
  <2>1. /\ new_reserve' = [new_reserve EXCEPT ![c] = NoReserve]
        /\ UNCHANGED <<data, dead_list, record, minted>>
        /\ \/ PutReserve(Arbiter, s) /\ UNCHANGED logged
           \/ UNCHANGED users /\ logged' = logged \cup {s}
    BY <1>3 DEF StatPutReserve, PutReserve, SyscallFails, kernelVars, dbaseVars
  <2>2. /\ s \in ReserveIds /\ s \in minted /\ s \notin logged
        /\ \A d \in Clients : new_reserve[d] = s => d = c
        /\ \A y \in Records : ~HasReserve(y, s)
    BY <1>3, SetupOwner DEF StatPutReserve, SetupPcs
  <2>3. \A y \in Records : HasReserve(y, r)' <=> HasReserve(y, r)
    BY <2>1 DEF HasReserve, Allocated, Live, Dead
  <2>4. \A d \in Clients : new_reserve'[d] = r <=> new_reserve[d] = r /\ d # c
    BY <2>1, NoReserveAssumption DEF CoreInv, TypeOK, HandlerTypeOK
  <2>5. CASE r = s
    <3>1. Owners(r)' = {}
      BY <2>2, <2>3, <2>4, <2>5 DEF Owners
    <3>2. Arbiter \in users'[r] => r \in logged'
      BY <2>1, <2>2, <2>5 DEF PutReserve, CoreInv, TypeOK, KernelTypeOK
    <3> QED
      BY <2>1, <2>2, <2>5, <3>1, <3>2 DEF Accounted
  <2>6. CASE r # s
    <3>1. Owners(r)' = Owners(r)
      BY <2>3, <2>4, <2>6 DEF Owners
    <3>2. users'[r] = users[r] /\ (r \in logged' <=> r \in logged)
      BY <2>1, <2>6 DEF PutReserve, CoreInv, TypeOK, KernelTypeOK
    <3> QED
      BY <1>0, <2>1, <3>1, <3>2 DEF Accounted
  <2> QED
    BY <2>5, <2>6
<1>4. CASE ~ \E c \in Clients : \/ StatCreateReserve(c) \/ StatRecordReserve(c)
                                \/ StatPutReserve(c)
  <2>1. Owners(r)' = Owners(r)
    BY <1>4, OwnersOthers
  <2>2. /\ UNCHANGED <<logged, minted>>
        /\ \/ UNCHANGED users
           \/ \E t \in Tasks, s \in ReserveIds : PutReserve(t, s)
           \/ \E t \in Tasks, d \in Clients, s \in ReserveIds :
                    ExposeReserve(t, d, s)
    <3>1. ASSUME NEW c \in Clients, StatExpose(c)
          PROVE  \/ UNCHANGED users
                 \/ \E t \in Tasks, d \in Clients, s \in ReserveIds :
                    ExposeReserve(t, d, s)
      <4>1. record[ptr[c]].reserve_id \in ReserveIds
        BY <3>1, HandlerRecord DEF StatExpose, HasRecord, RecordPcs
      <4> QED
        BY <3>1, <4>1 DEF StatExpose, SyscallFails, kernelVars, Tasks
    <3>2. ASSUME NEW ok \in BOOLEAN, ReaperPut(ok)
          PROVE  \/ UNCHANGED users
                 \/ \E t \in Tasks, s \in ReserveIds : PutReserve(t, s)
      <4>1. ReaperReserve \in ReserveIds
        BY <3>2, ReaperRecordDead DEF ReaperPut, ReaperReserve, CoreInv, TypeOK,
           DatabaseTypeOK, RecordType, RecordsInv
      <4> QED
        BY <3>2, <4>1 DEF ReaperPut, SyscallFails, kernelVars, Tasks
    <3>3. ASSUME NEW c \in Clients, TaskPut(c) \/ TaskExpose(c)
          PROVE  \/ \E t \in Tasks, s \in ReserveIds : PutReserve(t, s)
                 \/ \E t \in Tasks, d \in Clients, s \in ReserveIds :
                    ExposeReserve(t, d, s)
      BY <3>3 DEF TaskPut, TaskExpose, Tasks
    <3>4. UNCHANGED <<logged, minted>>
      BY <1>4 DEF Next, Handler, HandlerStep, ReaperThread, ReaperStep, vars,
         kernelVars, Receive, CheckParams, LockDatabase, LookupMiss, LookupHit,
         LockRecord, UnlockRecord, UnlockDatabase, Respond, StatCreateTap,
         CreateTap, StatSetRate, TapSetRate, StatDeleteTap, DeleteTap, StatExpose,
         ExposeReserve, GetTapParams, SetTapParams, SetRecord, AddEntry,
         RemoveEntry, TaskPut, PutReserve, TaskExpose, SyscallFails, ReaperLock,
         ReaperDestroy, ReaperCountUsers, ReaperPut, ReaperDone
    <3>5. \/ UNCHANGED users
          \/ \E c \in Clients : StatExpose(c) \/ TaskPut(c) \/ TaskExpose(c)
          \/ \E ok \in BOOLEAN : ReaperPut(ok)
      BY <1>4 DEF Next, Handler, HandlerStep, ReaperThread, ReaperStep, vars,
         kernelVars, Receive, CheckParams, LockDatabase, LookupMiss, LookupHit,
         LockRecord, UnlockRecord, UnlockDatabase, Respond, StatCreateTap,
         CreateTap, StatSetRate, TapSetRate, StatDeleteTap, DeleteTap,
         GetTapParams, SetTapParams, SetRecord, AddEntry, RemoveEntry,
         SyscallFails, ReaperLock, ReaperDestroy, ReaperCountUsers, ReaperDone
    <3> QED
      BY <3>1, <3>2, <3>3, <3>4, <3>5
  <2>3. /\ Arbiter \in users'[r] => Arbiter \in users[r]
        /\ users[r] = {} => users'[r] = {}
    BY <2>2, ClientsAssumption DEF PutReserve, ExposeReserve, CoreInv, TypeOK,
       KernelTypeOK
  <2> QED
    BY <1>0, <2>1, <2>2, <2>3 DEF Accounted
<1> QED
  BY <1>1, <1>2, <1>3, <1>4

(* No two records have the same reserve. *)
LEMMA OneRecord ==
    ASSUME CoreInv, NEW r \in ReserveIds, NEW x \in Records, NEW y \in Records,
           HasReserve(x, r), HasReserve(y, r)
    PROVE  x = y
<1>1. <<"record", x>> \in Owners(r) /\ <<"record", y>> \in Owners(r)
  BY DEF Owners
<1> QED
  BY <1>1 DEF CoreInv, ReservesAccountedFor, Accounted

(* A step that leaves the records with a reserve alone, and of their        *)
(* reserves neither drops the arbiter's hold nor touches the tap while the *)
(* arbiter holds it, keeps the taps as the records say.                    *)
LEMMA TapsKept ==
    ASSUME IndInv, [Next]_vars,
           \A x \in Records : record'[x].reserve_created =>
              /\ record'[x] = record[x]
              /\ x \in Allocated' => x \in Allocated
              /\ x \in Live' => x \in Live,
           \A x \in Allocated : record[x].reserve_created =>
              /\ Arbiter \in users'[record[x].reserve_id]
                   <=> Arbiter \in users[record[x].reserve_id]
              /\ Arbiter \in users[record[x].reserve_id] =>
                   tap'[record[x].reserve_id] = tap[record[x].reserve_id],
           \A c \in Clients :
              /\ pc'[c] = "record_params" <=> pc[c] = "record_params"
              /\ pc[c] = "record_params" => ptr'[c] = ptr[c] /\ req'[c] = req[c]
    PROVE  /\ \A x \in Allocated' : TapMatches(x)'
           /\ \A c \in Clients :
                 pc'[c] = "record_params" /\ record'[ptr'[c]].reserve_created
                   => tap'[record'[ptr'[c]].reserve_id] = Rate(req'[c].par)
<1>1. ASSUME NEW x \in Allocated'
      PROVE  TapMatches(x)'
  <2>1. BetweenWrites(x)' <=> BetweenWrites(x)
    BY DEF BetweenWrites
  <2>2. x \in Records
    BY DatabaseTypeStep, NULLAssumption DEF IndInv, Allocated, Live, Dead,
       DatabaseTypeOK
  <2> QED
    BY <2>1, <2>2 DEF IndInv, KernelMatchesRecords, TapMatches
<1>2. ASSUME NEW c \in Clients, pc'[c] = "record_params",
             record'[ptr'[c]].reserve_created
      PROVE  tap'[record'[ptr'[c]].reserve_id] = Rate(req'[c].par)
  <2>1. /\ pc[c] = "record_params" /\ ptr'[c] = ptr[c] /\ req'[c] = req[c]
        /\ ptr[c] \in Live /\ ptr[c] \in Records
    BY <1>2, HandlerRecord, HandlerRecordLive DEF IndInv, HasRecord, RecordPcs
  <2> QED
    BY <1>2, <2>1 DEF IndInv, KernelMatchesRecords, TapMatches, WritesMatch,
       Allocated
<1> QED
  BY <1>1, <1>2

(* The same for a step that also leaves the reserve that a handler is about *)
(* to record alone.                                                        *)
LEMMA MatchKept ==
    ASSUME IndInv, [Next]_vars,
           \A x \in Records : record'[x].reserve_created =>
              /\ record'[x] = record[x]
              /\ x \in Allocated' => x \in Allocated
              /\ x \in Live' => x \in Live,
           \A x \in Allocated : record[x].reserve_created =>
              /\ Arbiter \in users'[record[x].reserve_id]
                   <=> Arbiter \in users[record[x].reserve_id]
              /\ Arbiter \in users[record[x].reserve_id] =>
                   tap'[record[x].reserve_id] = tap[record[x].reserve_id],
           \A c \in Clients :
              /\ pc'[c] = "record_params" <=> pc[c] = "record_params"
              /\ pc[c] = "record_params" => ptr'[c] = ptr[c] /\ req'[c] = req[c],
           \A c \in Clients : pc'[c] = "record_reserve" =>
              /\ pc[c] = "record_reserve"
              /\ new_reserve'[c] = new_reserve[c]
              /\ tap'[new_reserve[c]] = tap[new_reserve[c]]
              /\ record'[ptr'[c]] = record[ptr[c]]
    PROVE  KernelMatchesRecords'
BY TapsKept DEF IndInv, KernelMatchesRecords, WritesMatch

(* The tap of a reserve that is being set up belongs to no record, so what  *)
(* the handler does to it disturbs none.                                   *)
LEMMA SetupDisturbsNone ==
    ASSUME CoreInv, NEW c \in Clients, pc[c] \in SetupPcs
    PROVE  \A x \in Allocated : record[x].reserve_created =>
              record[x].reserve_id # new_reserve[c]
<1>1. Allocated \subseteq Records
  BY NULLAssumption DEF Allocated, Live, Dead, CoreInv, TypeOK, DatabaseTypeOK
<1> QED
  BY <1>1, SetupOwner DEF HasReserve

(* The taps stay at the rates of their records. *)
LEMMA MatchStep ==
    ASSUME IndInv, [Next]_vars
    PROVE  KernelMatchesRecords'
<1> USE RemovesFoundByHandlers DEF IndInv, CoreInv, TypeOK, DatabaseTypeOK,
    HandlerTypeOK, kernelVars, dbaseVars, handlerVars, reaperVars
<1>a. Allocated \subseteq Records
  BY NULLAssumption DEF Allocated, Live, Dead
<1>b. \A x \in Allocated : record[x].reserve_created =>
         record[x].reserve_id \in ReserveIds
  BY <1>a DEF RecordType, RecordsInv
<1>1. ASSUME NEW c \in Clients,
             \/ Receive(c) \/ CheckParams(c) \/ LockDatabase(c) \/ LookupMiss(c)
             \/ LookupHit(c) \/ LockRecord(c) \/ UnlockRecord(c)
             \/ UnlockDatabase(c) \/ Respond(c) \/ GetTapParams(c)
      PROVE  KernelMatchesRecords'
  <2>1. UNCHANGED <<kernelVars, data, dead_list, record>>
    BY <1>1 DEF Receive, CheckParams, LockDatabase, DBLock, LookupMiss, LookupHit,
       LockRecord, RecordLock, UnlockRecord, RecordUnlock, UnlockDatabase, DBUnlock,
       Respond, GetTapParams
  <2>2. \A d \in Clients :
           /\ pc'[d] = "record_params" <=> pc[d] = "record_params"
           /\ pc'[d] = "record_reserve" <=> pc[d] = "record_reserve"
           /\ pc[d] \in {"record_params", "record_reserve"} =>
                UNCHANGED <<ptr[d], req[d], new_reserve[d]>>
    BY <1>1 DEF LocalsInv, Goto, Receive, CheckParams, LockDatabase, LookupMiss,
       LookupHit, LockRecord, UnlockRecord, UnlockDatabase, Respond, GetTapParams
  <2>3. Allocated' = Allocated /\ Live' = Live
    BY <2>1 DEF Allocated, Live, Dead
  <2> QED
    BY <2>1, <2>2, <2>3 DEF KernelMatchesRecords, TapMatches, WritesMatch,
       BetweenWrites
<1>2. CASE ReaperLock \/ ReaperDestroy \/ ReaperCountUsers \/ ReaperDone
  <2>1. /\ UNCHANGED <<kernelVars, data, dead_list, record>>
        /\ UNCHANGED <<pc, ptr, req, new_reserve>>
    BY <1>2 DEF ReaperLock, DBLock, ReaperDestroy, DestroyRecordLock,
       ReaperCountUsers, ReaperDone, DBUnlock
  <2>2. Allocated' = Allocated /\ Live' = Live
    BY <2>1 DEF Allocated, Live, Dead
  <2> QED
    BY <2>1, <2>2 DEF KernelMatchesRecords, TapMatches, WritesMatch, BetweenWrites
<1>3. ASSUME NEW c \in Clients, AddEntry(c) \/ RemoveEntry(c)
      PROVE  KernelMatchesRecords'
  <2>1. UNCHANGED <<kernelVars, ptr, req, new_reserve>>
    BY <1>3 DEF AddEntry, RemoveEntry
  <2>2. \A d \in Clients :
           /\ pc'[d] = "record_params" <=> pc[d] = "record_params"
           /\ pc'[d] = "record_reserve" => pc[d] = "record_reserve"
    BY <1>3 DEF AddEntry, RemoveEntry, Goto
  <2> DEFINE Kept(x) == /\ record'[x].reserve_created =>
                            /\ record'[x] = record[x]
                            /\ x \in Allocated' => x \in Allocated
                            /\ x \in Live' => x \in Live
                        /\ x \in Allocated => record'[x] = record[x]
  <2>3. \A x \in Records : Kept(x)
    <3>1. CASE RemoveEntry(c)
      BY <3>1, RemoveEntryMoves DEF RemoveEntry, RemoveRecord
    <3>2. CASE AddEntry(c) /\ UNCHANGED dbaseVars
      BY <3>2 DEF Allocated, Live, Dead
    <3>3. ASSUME NEW x \in Records, AddEntry(c), AddRecord(req[c].uid, x, req[c].par)
          PROVE  \A y \in Records : Kept(y)
      <4>1. /\ x \notin Allocated /\ ~record'[x].reserve_created
            /\ \A y \in Records : y # x => record'[y] = record[y]
        BY <3>3 DEF AddRecord, NewRecord
      <4>2. Allocated' = Allocated \cup {x} /\ Live' = Live \cup {x}
        BY <1>3, <3>3, AddRecordMaps
      <4> QED
        BY <4>1, <4>2
    <3> QED
      BY <1>3, <3>1, <3>2, <3>3 DEF AddEntry
  <2>4. \A d \in Clients : pc[d] = "record_reserve" =>
           ptr[d] \in Allocated /\ ptr[d] \in Records
    BY HandlerRecord DEF HasRecord, RecordPcs, Allocated
  <2> QED
    BY <2>1, <2>2, <2>3, <2>4, MatchKept
<1>4. ASSUME NEW c \in Clients, StatExpose(c)
      PROVE  KernelMatchesRecords'
  <2>1. /\ UNCHANGED <<tap, record, data, dead_list, ptr, req, new_reserve>>
        /\ \A r \in ReserveIds : Arbiter \in users'[r] <=> Arbiter \in users[r]
    <3>1. record[ptr[c]].reserve_id \in ReserveIds
      BY <1>4, HandlerRecord DEF StatExpose, HasRecord, RecordPcs
    <3> QED
      BY <1>4, <3>1, ClientsAssumption DEF StatExpose, ExposeReserve, SyscallFails,
         KernelTypeOK
  <2>2. Allocated' = Allocated /\ Live' = Live
    BY <2>1 DEF Allocated, Live, Dead
  <2>3. \A d \in Clients :
           /\ pc'[d] = "record_params" <=> pc[d] = "record_params"
           /\ pc'[d] = "record_reserve" <=> pc[d] = "record_reserve"
    BY <1>4 DEF StatExpose, Goto
  <2> QED
    BY <1>b, <2>1, <2>2, <2>3, MatchKept
<1>5. ASSUME NEW c \in Clients, TaskPut(c) \/ TaskExpose(c)
      PROVE  KernelMatchesRecords'
  <2>1. /\ UNCHANGED <<record, data, dead_list, pc, ptr, req, new_reserve>>
        /\ \A r \in ReserveIds : /\ Arbiter \in users'[r] <=> Arbiter \in users[r]
                                 /\ Arbiter \in users[r] => tap'[r] = tap[r]
    <3>1. ASSUME NEW r \in ReserveIds, PutReserve(c, r)
          PROVE  \A s \in ReserveIds :
                    /\ Arbiter \in users'[s] <=> Arbiter \in users[s]
                    /\ Arbiter \in users[s] => tap'[s] = tap[s]
      BY <3>1, ClientsAssumption DEF PutReserve, KernelTypeOK
    <3>2. ASSUME NEW r \in ReserveIds, NEW d \in Clients, ExposeReserve(c, d, r)
          PROVE  \A s \in ReserveIds :
                    /\ Arbiter \in users'[s] <=> Arbiter \in users[s]
                    /\ Arbiter \in users[s] => tap'[s] = tap[s]
      BY <3>2, ClientsAssumption DEF ExposeReserve, KernelTypeOK
    <3> QED
      BY <1>5, <3>1, <3>2 DEF TaskPut, TaskExpose
  <2>2. Allocated' = Allocated /\ Live' = Live
    BY <2>1 DEF Allocated, Live, Dead
  <2>3. \A d \in Clients : pc[d] = "record_reserve" =>
           tap'[new_reserve[d]] = tap[new_reserve[d]]
    BY <2>1, SetupOwner DEF SoleHolder, SetupPcs, LocalsInv
  <2> QED
    BY <1>b, <2>1, <2>2, <2>3, MatchKept
<1>6. ASSUME NEW c \in Clients, StatCreateReserve(c)
      PROVE  KernelMatchesRecords'
  <2>1. UNCHANGED <<tap, record, data, dead_list, ptr, req>>
    BY <1>6 DEF StatCreateReserve, CreateReserve, SyscallFails
  <2>2. Allocated' = Allocated /\ Live' = Live
    BY <2>1 DEF Allocated, Live, Dead
  <2>3. \A d \in Clients :
           /\ pc'[d] = "record_params" <=> pc[d] = "record_params"
           /\ pc'[d] = "record_reserve" =>
                pc[d] = "record_reserve" /\ new_reserve'[d] = new_reserve[d]
    BY <1>6 DEF StatCreateReserve, Goto
  <2>4. \A x \in Allocated : record[x].reserve_created =>
           record[x].reserve_id \in minted
    <3>1. \A x \in Allocated : record[x].reserve_created =>
             <<"record", x>> \in Owners(record[x].reserve_id)
      BY <1>a DEF Owners, HasReserve
    <3> QED
      BY <1>b, <3>1 DEF ReservesAccountedFor, Accounted
  <2>5. \A r \in minted : users'[r] = users[r]
    BY <1>6 DEF StatCreateReserve, CreateReserve, SyscallFails, KernelTypeOK
  <2> QED
    BY <2>1, <2>2, <2>3, <2>4, <2>5, MatchKept
<1>7. ASSUME NEW c \in Clients,
             StatCreateTap(c) \/ StatDeleteTap(c) \/ StatPutReserve(c)
      PROVE  KernelMatchesRecords'
  <2>1. /\ UNCHANGED <<record, data, dead_list, ptr, req>>
        /\ \A r \in ReserveIds : r # new_reserve[c] =>
              users'[r] = users[r] /\ tap'[r] = tap[r]
    BY <1>7 DEF StatCreateTap, CreateTap, StatDeleteTap, DeleteTap, StatPutReserve,
       PutReserve, SyscallFails, KernelTypeOK
  <2>2. Allocated' = Allocated /\ Live' = Live
    BY <2>1 DEF Allocated, Live, Dead
  <2>3. \A d \in Clients :
           /\ pc'[d] = "record_params" <=> pc[d] = "record_params"
           /\ pc'[d] # "record_reserve"
    BY <1>7, OneThreadInside DEF StatCreateTap, StatDeleteTap, StatPutReserve, Goto,
       LockedPcs, RecordPcs
  <2>4. \A x \in Allocated : record[x].reserve_created =>
           record[x].reserve_id # new_reserve[c]
    BY <1>7, SetupDisturbsNone DEF StatCreateTap, StatDeleteTap, StatPutReserve,
       SetupPcs
  <2> QED
    BY <1>b, <2>1, <2>2, <2>3, <2>4, MatchKept
<1>8. ASSUME NEW c \in Clients, StatSetRate(c)
      PROVE  KernelMatchesRecords'
  <2>1. /\ UNCHANGED <<users, record, data, dead_list, ptr, req, new_reserve>>
        /\ \A r \in ReserveIds : r # new_reserve[c] => tap'[r] = tap[r]
    BY <1>8 DEF StatSetRate, TapSetRate, SyscallFails, KernelTypeOK
  <2>2. Allocated' = Allocated /\ Live' = Live
    BY <2>1 DEF Allocated, Live, Dead
  <2>3. \A d \in Clients : pc'[d] = "record_params" <=> pc[d] = "record_params"
    BY <1>8 DEF StatSetRate, Goto
  <2>4. \A x \in Allocated : record[x].reserve_created =>
           record[x].reserve_id # new_reserve[c]
    BY <1>8, SetupDisturbsNone DEF StatSetRate, SetupPcs
  <2>5. \A d \in Clients : pc'[d] = "record_reserve" =>
           d = c /\ tap'[new_reserve[c]] = Rate(record[ptr[c]].par)
    <3>1. new_reserve[c] \in ReserveIds
      BY <1>8, SetupOwner DEF StatSetRate, SetupPcs
    <3>2. \A d \in Clients : d # c => pc'[d] # "record_reserve"
      BY <1>8, OneThreadInside DEF StatSetRate, Goto, LockedPcs, RecordPcs
    <3> QED
      BY <1>8, <3>1, <3>2 DEF StatSetRate, TapSetRate, Goto, KernelTypeOK
  <2> QED
    BY <1>b, <2>1, <2>2, <2>3, <2>4, <2>5, TapsKept
    DEF KernelMatchesRecords, WritesMatch
<1>9. CASE UNCHANGED vars
  BY <1>9 DEF vars, KernelMatchesRecords, TapMatches, WritesMatch, BetweenWrites,
     Allocated, Live, Dead
<1>10. ASSUME NEW c \in Clients, StatRecordReserve(c)
       PROVE  KernelMatchesRecords'
  <2> DEFINE s == new_reserve[c]
             x == ptr[c]
  <2>1. /\ UNCHANGED <<users, tap, data, dead_list, ptr, req>>
        /\ record' = [record EXCEPT ![x] = [reserve_created |-> TRUE,
                                            reserve_id |-> s,
                                            par |-> record[x].par]]
    BY <1>10 DEF StatRecordReserve, SetRecordReserve
  <2>2. Allocated' = Allocated /\ Live' = Live
    BY <2>1 DEF Allocated, Live, Dead
  <2>3. x \in Records /\ x \in Live
    BY <1>10, HandlerRecord, HandlerRecordLive DEF StatRecordReserve, HasRecord,
       RecordPcs
  <2>4. \A d \in Clients : pc'[d] \notin {"record_params", "record_reserve"}
    BY <1>10, OneThreadInside DEF StatRecordReserve, Goto, LockedPcs, RecordPcs
  <2>5. \A d \in Clients : pc[d] # "record_params"
    BY <1>10, OneThreadInside DEF StatRecordReserve, LockedPcs, RecordPcs
  <2>6. Arbiter \in users[s] /\ tap[s] = Rate(record[x].par)
    BY <1>10 DEF StatRecordReserve, SoleHolder, LocalsInv, SetupPcs,
       KernelMatchesRecords, WritesMatch
  <2>7. ASSUME NEW y \in Allocated, y = x
        PROVE  TapMatches(y)'
    BY <2>7, <2>1, <2>3, <2>6 DEF TapMatches
  <2>8. ASSUME NEW y \in Allocated, y # x
        PROVE  TapMatches(y)'
    <3>1. record'[y] = record[y]
      BY <1>a, <2>1, <2>8
    <3> QED
      BY <2>1, <2>2, <2>5, <3>1 DEF KernelMatchesRecords, TapMatches, BetweenWrites
  <2> QED
    BY <2>2, <2>4, <2>7, <2>8 DEF KernelMatchesRecords, WritesMatch
<1>11. ASSUME NEW c \in Clients, SetTapParams(c)
       PROVE  KernelMatchesRecords'
  <2> DEFINE x == ptr[c]
             r == record[x].reserve_id
  <2>1. /\ UNCHANGED <<users, record, data, dead_list, ptr, req, new_reserve>>
        /\ pc[c] = "set"
        /\ \/ tap' = tap /\ pc'[c] = "record_unlock"
           \/ tap' = tap /\ pc'[c] = "record_params" /\ ~record[x].reserve_created
           \/ /\ tap' = [tap EXCEPT ![r] = Rate(req[c].par)]
              /\ pc'[c] = "record_params" /\ record[x].reserve_created
    BY <1>11 DEF SetTapParams, TapSetRate, SyscallFails, Goto
  <2>2. Allocated' = Allocated /\ Live' = Live
    BY <2>1 DEF Allocated, Live, Dead
  <2>3. /\ \A d \in Clients : pc[d] \notin {"record_params", "record_reserve"}
        /\ \A d \in Clients :
              pc'[d] \in {"record_params", "record_reserve"} =>
                d = c /\ pc'[c] = "record_params"
    BY <1>11, <2>1, OneThreadInside DEF SetTapParams, Goto, LockedPcs, RecordPcs
  <2>4. x \in Records /\ x \in Allocated
        /\ (record[x].reserve_created => r \in ReserveIds)
    BY <1>11, HandlerRecord DEF SetTapParams, HasRecord, RecordPcs, Allocated
  <2>5. ASSUME NEW y \in Allocated
        PROVE  TapMatches(y)'
    <3>1. TapMatches(y) /\ ~BetweenWrites(y)
      BY <2>3 DEF KernelMatchesRecords, BetweenWrites
    <3>2. CASE tap' = tap
      BY <2>1, <2>2, <3>1, <3>2 DEF TapMatches
    <3>3. CASE y = x /\ pc'[c] = "record_params"
      <4>1. BetweenWrites(y)'
        BY <2>1, <3>3 DEF BetweenWrites
      <4> QED
        BY <2>1, <2>2, <3>1, <4>1 DEF TapMatches
    <3>4. CASE y # x /\ record[x].reserve_created
                /\ tap' = [tap EXCEPT ![r] = Rate(req[c].par)]
      <4>1. record[y].reserve_created => record[y].reserve_id # r
        BY <1>a, <2>4, <3>4, OneRecord DEF HasReserve
      <4>2. record[y].reserve_created =>
               tap'[record[y].reserve_id] = tap[record[y].reserve_id]
        BY <1>b, <3>4, <4>1 DEF KernelTypeOK
      <4> QED
        BY <2>1, <2>2, <3>1, <4>2 DEF TapMatches
    <3> QED
      BY <2>1, <3>2, <3>3, <3>4
  <2>6. \A d \in Clients : WritesMatch(d)'
    BY <2>1, <2>3, <2>4 DEF WritesMatch, KernelTypeOK
  <2> QED
    BY <2>2, <2>5, <2>6 DEF KernelMatchesRecords
<1>12. ASSUME NEW c \in Clients, SetRecord(c)
       PROVE  KernelMatchesRecords'
  <2> DEFINE x == ptr[c]
  <2>1. /\ UNCHANGED <<users, tap, data, dead_list, ptr, req>>
        /\ record' = [record EXCEPT ![x].par = req[c].par]
    BY <1>12 DEF SetRecord, SetRecordParams
  <2>2. Allocated' = Allocated /\ Live' = Live
    BY <2>1 DEF Allocated, Live, Dead
  <2>3. x \in Records
    BY <1>12, HandlerRecord DEF SetRecord, HasRecord, RecordPcs
  <2>4. \A d \in Clients : pc'[d] \notin {"record_params", "record_reserve"}
    BY <1>12, OneThreadInside DEF SetRecord, Goto, LockedPcs, RecordPcs
  <2>5. \A d \in Clients : d # c => pc[d] # "record_params"
    BY <1>12, OneThreadInside DEF SetRecord, LockedPcs, RecordPcs
  <2>6. /\ record[x].reserve_created =>
             tap[record[x].reserve_id] = Rate(req[c].par)
        /\ x \in Allocated => TapMatches(x)
    BY <1>12 DEF SetRecord, KernelMatchesRecords, WritesMatch
  <2>7. /\ record'[x].reserve_created = record[x].reserve_created
        /\ record'[x].reserve_id = record[x].reserve_id
        /\ record'[x].par = req[c].par
    BY <2>1, <2>3 DEF RecordType
  <2>8. ASSUME NEW y \in Allocated, y = x
        PROVE  TapMatches(y)'
    BY <2>8, <2>1, <2>2, <2>6, <2>7 DEF TapMatches
  <2>9. ASSUME NEW y \in Allocated, y # x
        PROVE  TapMatches(y)'
    <3>1. record'[y] = record[y]
      BY <1>a, <2>1, <2>9
    <3>2. ~BetweenWrites(y)
      BY <2>5, <2>9 DEF BetweenWrites
    <3> QED
      BY <2>1, <2>2, <3>1, <3>2 DEF KernelMatchesRecords, TapMatches
  <2> QED
    BY <2>2, <2>4, <2>8, <2>9 DEF KernelMatchesRecords, WritesMatch
<1>13. ASSUME NEW ok \in BOOLEAN, ReaperPut(ok)
       PROVE  KernelMatchesRecords'
  <2> DEFINE s == ReaperReserve
  <2>1. /\ UNCHANGED <<record, data, dead_list, pc, ptr, req, new_reserve>>
        /\ \A r \in ReserveIds : r # s => users'[r] = users[r] /\ tap'[r] = tap[r]
        /\ Arbiter \in users'[s] => users'[s] = users[s] /\ tap'[s] = tap[s]
    <3>1. s \in ReserveIds
      BY <1>13, ReaperRecordDead DEF ReaperPut, ReaperReserve, RecordType, RecordsInv
    <3> QED
      BY <1>13, <3>1 DEF ReaperPut, PutReserve, DestroyRecordLock, SyscallFails,
         KernelTypeOK
  <2>2. Allocated' = Allocated /\ Live' = Live
    BY <2>1 DEF Allocated, Live, Dead
  <2>3. \A c \in Clients : pc[c] \notin {"record_params", "record_reserve"}
    BY <1>13, NoneInsideWithReaper DEF ReaperPut, LockedPcs, RecordPcs
  <2>4. ASSUME NEW x \in Allocated, record[x].reserve_created,
               record[x].reserve_id = s
        PROVE  x \notin Live
    <3>1. ReaperRecord \in Dead /\ ReaperRecord \in Records
          /\ record[ReaperRecord].reserve_created
      BY <1>13, ReaperRecordDead DEF ReaperPut, RecordsInv
    <3>2. x = ReaperRecord
      BY <1>a, <1>b, <2>4, <3>1, OneRecord DEF HasReserve, ReaperReserve, Allocated
    <3> QED
      BY <3>1, <3>2 DEF RecordsInOnePlace
  <2>5. ASSUME NEW x \in Allocated
        PROVE  TapMatches(x)'
    <3>1. TapMatches(x) /\ ~BetweenWrites(x)
      BY <2>3 DEF KernelMatchesRecords, BetweenWrites
    <3> QED
      BY <1>b, <2>1, <2>2, <2>4, <3>1 DEF TapMatches
  <2> QED
    BY <2>1, <2>2, <2>3, <2>5 DEF KernelMatchesRecords, WritesMatch
<1> QED
  BY <1>1, <1>2, <1>3, <1>4, <1>5, <1>6, <1>7, <1>8, <1>9, <1>10, <1>11, <1>12,
     <1>13 DEF Next, Handler, HandlerStep, ReaperThread, ReaperStep

(* A response that grants a reserve is decided by statReserve alone. *)
LEMMA GrantStep ==
    ASSUME CoreInv, GrantIsValid, [Next]_vars
    PROVE  GrantIsValid'
<1> USE DEF CoreInv, TypeOK, HandlerTypeOK
<1> SUFFICES ASSUME NEW c \in Clients, reply'[c] # NoReply,
                    reply'[c].flags = "PA_RESERVE_GRANTED"
             PROVE  /\ reply'[c].rid \in ReserveIds
                    /\ {c, Arbiter} \subseteq users'[reply'[c].rid]
  BY DEF GrantIsValid
<1>1. CASE reply'[c] = reply[c]
  <2>1. pc[c] # "idle"
    BY <1>1 DEF LocalsInv
  <2>2. reply[c].rid \in ReserveIds /\ {c, Arbiter} \subseteq users[reply[c].rid]
    BY <1>1 DEF GrantIsValid
  <2> QED
    BY <1>1, <2>1, <2>2, HoldersKept
<1>2. CASE StatExpose(c)
  <2> DEFINE r == record[ptr[c]].reserve_id
  <2>1. r \in ReserveIds
    BY <1>2, HandlerRecord DEF StatExpose, HasRecord, RecordPcs
  <2>2. reply'[c] = Granted(r) /\ ExposeReserve(Arbiter, c, r)
    BY <1>2 DEF StatExpose, Answer, Status, Response
  <2> QED
    BY <2>1, <2>2 DEF Granted, Response, ExposeReserve, KernelTypeOK
<1>3. ASSUME ~StatExpose(c), reply'[c] # reply[c]
      PROVE  FALSE
  <2>1. \/ reply'[c] = NoReply
        \/ \E r \in RootIds : reply'[c] = UseRoot(r)
        \/ \E e \in Errors : reply'[c] = Status(e)
        \/ \E par : reply'[c] = Params(par)
    BY <1>3 DEF Next, Handler, HandlerStep, ReaperThread, ReaperStep, vars,
       handlerVars, Errors, Answer, Receive, CheckParams, LockDatabase, LookupMiss,
       LookupHit, LockRecord, UnlockRecord, UnlockDatabase, Respond,
       StatCreateReserve, StatCreateTap, StatSetRate, StatRecordReserve,
       StatDeleteTap, StatPutReserve, StatExpose, GetTapParams, SetTapParams,
       SetRecord, AddEntry, RemoveEntry, TaskPut, TaskExpose, ReaperLock,
       ReaperDestroy, ReaperCountUsers, ReaperPut, ReaperDone
  <2>2. /\ \A r : UseRoot(r).flags = "PA_USE_ROOT_RESERVE"
        /\ \A e : Status(e).flags = "none"
        /\ \A par : Params(par).flags = "none"
    BY DEF UseRoot, Status, Params, Response
  <2> QED
    BY <2>1, <2>2
<1> QED
  BY <1>1, <1>2, <1>3

(* The initial states satisfy the invariant and grant nothing. *)
LEMMA InitInv == Init => IndInv /\ GrantIsValid
<1> SUFFICES ASSUME Init
             PROVE  IndInv /\ GrantIsValid
  OBVIOUS
<1> USE DEF Init
<1>1. KernelTypeOK
  BY DEF KernelInit, KernelTypeOK
<1>2. DatabaseTypeOK
  <2>1. NewRecord(NoParams) \in RecordType
    BY DEF NewRecord, RecordType
  <2>2. record \in [Records -> RecordType] /\ dead_list \in Seq(Records)
    BY <2>1 DEF DatabaseInit
  <2>3. /\ data \in [Uids -> Records \cup {NULL}]
        /\ data_lock \in [Records -> Threads \cup {Free, NoMutex}]
        /\ dbase_lock \in Threads \cup {Free}
    BY DEF DatabaseInit
  <2> QED
    BY <2>2, <2>3 DEF DatabaseTypeOK
<1>3. HandlerTypeOK
  <2>1. pc \in [Clients -> HandlerPcs]
    BY DEF HandlerPcs
  <2>2. /\ req \in [Clients -> Requests \cup {NoRequest}]
        /\ reply \in [Clients -> Replies \cup {NoReply}]
        /\ ptr \in [Clients -> Records \cup {NULL}]
        /\ new_reserve \in [Clients -> ReserveIds \cup {NoReserve}]
        /\ logged \subseteq ReserveIds
    OBVIOUS
  <2> QED
    BY <2>1, <2>2 DEF HandlerTypeOK
<1>4. ReaperTypeOK
  <2>1. clear_err \in BOOLEAN /\ is_empty \in BOOLEAN
    BY Zenon
  <2>2. cursor \in Nat \ {0} /\ rpc \in {"asleep", "scan", "put"}
    BY SMT
  <2> QED
    BY <2>1, <2>2, Zenon DEF ReaperTypeOK
<1>5. Allocated = {} /\ Live = {} /\ Dead = {}
  BY DEF DatabaseInit, Allocated, Live, Dead
<1>6. LockInv
  BY LockAssumption DEF DatabaseInit, LockInv, InRecord, RecordPcs,
     LockedPcs, Threads
<1>7. LocalsInv
  BY DEF LocalsInv, HasRecord, RecordPcs, SetupPcs
<1>8. RecordsInv
  BY <1>5 DEF DatabaseInit, NewRecord, RecordsInv
<1>9. HandlersHoldLiveRecords /\ RecordsInOnePlace /\ LocksStand
  BY <1>5 DEF DatabaseInit, HandlersHoldLiveRecords, RecordsInOnePlace, LocksStand,
     HasRecord, RecordPcs
<1>10. SoleHolder
  BY DEF SoleHolder
<1>11. ReservesAccountedFor
  <2>1. \A r \in ReserveIds : Owners(r) = {}
    BY <1>5, NoReserveAssumption DEF Owners, HasReserve
  <2> QED
    BY <2>1 DEF KernelInit, ReservesAccountedFor, Accounted
<1>12. KernelMatchesRecords
  BY <1>5 DEF KernelMatchesRecords, WritesMatch
<1>13. GrantIsValid
  BY DEF GrantIsValid
<1> QED
  BY <1>1, <1>2, <1>3, <1>4, <1>6, <1>7, <1>8, <1>9, <1>10, <1>11, <1>12, <1>13
  DEF IndInv, CoreInv, TypeOK

(* The core is kept by every step that unhooks only what it found. *)
LEMMA CoreStep ==
    ASSUME CoreInv, RemovesFound, [Next]_vars
    PROVE  CoreInv'
<1>1. TypeOK'
  BY KernelTypeStep, DatabaseTypeStep, HandlerTypeStep, ReaperTypeStep DEF TypeOK
<1>2. LockInv' /\ LocalsInv' /\ RecordsInv' /\ LocksStand'
  BY LockStep, LocalsStep, RecordsStep, LocksStandStep
<1>3. RecordsInOnePlace' /\ SoleHolder' /\ ReservesAccountedFor'
  BY PlaceStep, SoleStep, AccountStep
<1> QED
  BY <1>1, <1>2, <1>3 DEF CoreInv

(* The invariant is inductive. *)
LEMMA InductiveStep ==
    ASSUME IndInv, GrantIsValid, [Next]_vars
    PROVE  IndInv' /\ GrantIsValid'
<1>1. CoreInv'
  BY CoreStep, RemovesFoundByHandlers DEF IndInv
<1>2. HandlersHoldLiveRecords' /\ KernelMatchesRecords'
  BY HoldStep, MatchStep DEF IndInv
<1>3. GrantIsValid'
  BY GrantStep DEF IndInv
<1> QED
  BY <1>1, <1>2, <1>3 DEF IndInv
-----------------------------------------------------------------------------
(* The database as a client of its containers: what Containers_proofs      *)
(* shows the hash and the list to implement.                               *)
Store == INSTANCE RecordStore
StoresRecords == Store!Spec

(* reserveDataDBAddEntry adds one record that nobody has, under a uid that *)
(* has none, or malloc fails and nothing is added.                         *)
LEMMA AddIsStored ==
    ASSUME CoreInv, NEW c \in Clients, AddEntry(c)
    PROVE  Store!Next \/ UNCHANGED <<data, dead_list>>
<1>1. CASE UNCHANGED dbaseVars
  BY <1>1 DEF dbaseVars
<1>2. ASSUME NEW x \in Records, AddRecord(req[c].uid, x, req[c].par)
      PROVE  Store!Next
  <2>1. req[c].uid \in Uids /\ data[req[c].uid] = NULL
    BY HandlerRequest DEF AddEntry, CoreInv, LocalsInv
  <2>2. x \in Records \ Store!Stored
    BY <1>2, NULLAssumption DEF AddRecord, Allocated, Live, Dead, Store!Stored
  <2> QED
    BY <1>2, <2>1, <2>2 DEF AddRecord, Store!Next, Store!Add
<1> QED
  BY <1>1, <1>2 DEF AddEntry

(* Taking the record of a uid out of the hash is the store's removal.      *)
LEMMA RemoveIsStored ==
    ASSUME NEW u \in Uids, data[u] # NULL, RemoveRecord(u, data[u])
    PROVE  Store!Next
BY DEF RemoveRecord, Store!Next, Store!Remove

(* A step that unhooks only what it found uses the containers only as the  *)
(* store allows.                                                           *)
LEMMA StoreStep ==
    ASSUME CoreInv, RemovesFound, [Next]_vars
    PROVE  Store!Next \/ UNCHANGED <<data, dead_list>>
<1>1. ASSUME NEW c \in Clients, RemoveEntry(c)
      PROVE  Store!Next
  <2>1. req[c].uid \in Uids /\ ptr[c] # NULL
    BY <1>1, HandlerRecord DEF RemoveEntry, HasRecord
  <2>2. ptr[c] = data[req[c].uid]
    BY <1>1 DEF RemovesFound
  <2>3. RemoveRecord(req[c].uid, data[req[c].uid])
    BY <1>1, <2>2 DEF RemoveEntry
  <2> QED
    BY <2>1, <2>2, <2>3, RemoveIsStored
<1> QED
  BY <1>1, AddIsStored, OthersMoveNothing

-----------------------------------------------------------------------------
(* The theorems. *)

(* Every reachable state satisfies the inductive invariant, for any number *)
(* of clients, uids, records and reserves and any width of long.           *)
THEOREM Invariance == Spec => []IndInv
<1>1. Init => IndInv /\ GrantIsValid
  BY InitInv
<1>2. IndInv /\ GrantIsValid /\ [Next]_vars => (IndInv /\ GrantIsValid)'
  BY InductiveStep
<1> QED
  BY <1>1, <1>2, PTL DEF Spec

(* The variables of the kernel, the database, the handlers and the reaper  *)
(* have their types in every reachable state.                              *)
THEOREM TypeCorrect == Spec => []TypeOK
<1>1. IndInv => TypeOK
  BY DEF IndInv, CoreInv
<1> QED
  BY <1>1, Invariance, PTL

(* A handler past its lookup works on the record the hash maps its uid to, *)
(* whose lock nobody has destroyed.                                        *)
THEOREM HandlersSafe == Spec => []HandlersHoldLiveRecords
<1>1. IndInv => HandlersHoldLiveRecords
  BY DEF IndInv
<1> QED
  BY <1>1, Invariance, PTL

(* A record is under one uid or once in the dead list, never both. *)
THEOREM PlacesDisjoint == Spec => []RecordsInOnePlace
<1>1. IndInv => RecordsInOnePlace
  BY DEF IndInv, CoreInv
<1> QED
  BY <1>1, Invariance, PTL

(* A reserve the arbiter holds is in the hands of exactly one record or    *)
(* handler, unless the arbiter logged that it could not put it.            *)
THEOREM NoLeakNoDoublePut == Spec => []ReservesAccountedFor
<1>1. IndInv => ReservesAccountedFor
  BY DEF IndInv, CoreInv
<1> QED
  BY <1>1, Invariance, PTL

(* The taps in the kernel flow at the rates of the database, except        *)
(* between the two writes of the handler that changes one.                 *)
THEOREM TapsMatchRecords == Spec => []KernelMatchesRecords
<1>1. IndInv => KernelMatchesRecords
  BY DEF IndInv
<1> QED
  BY <1>1, Invariance, PTL

(* A client that is told PA_RESERVE_GRANTED holds the reserve it is told,  *)
(* and so does the arbiter, until the response is sent.                    *)
THEOREM GrantsHold == Spec => []GrantIsValid
<1>1. Init => IndInv /\ GrantIsValid
  BY InitInv
<1>2. IndInv /\ GrantIsValid /\ [Next]_vars => (IndInv /\ GrantIsValid)'
  BY InductiveStep
<1> QED
  BY <1>1, <1>2, PTL DEF Spec

(* The arbiter puts a reserve only when no other task holds it. *)
THEOREM ReaperTakesNothingUsed == Spec => NoPutWhileUsed
<1>1. IndInv /\ [Next]_vars =>
        [\A r \in ReserveIds :
            Arbiter \in users[r] /\ Arbiter \notin users'[r] =>
                users[r] = {Arbiter}]_vars
  BY PutStep DEF IndInv
<1> QED
  BY <1>1, Invariance, PTL DEF Spec, NoPutWhileUsed

(* The handlers and the reaper use the hash and the dead list only as      *)
(* RecordStore allows: no uid is added twice, no record that was used      *)
(* before is added, and what is taken out of the hash goes to the end of   *)
(* the dead list and stays there.                                          *)
THEOREM ControllerStores == Spec => StoresRecords
<1>1. Init => Store!Init
  BY DEF Init, DatabaseInit, Store!Init
<1>2. IndInv /\ [Next]_vars => [Store!Next]_<<data, dead_list>>
  BY StoreStep, RemovesFoundByHandlers DEF IndInv
<1> QED
  BY <1>1, <1>2, Invariance, PTL DEF Spec, StoresRecords, Store!Spec
=============================================================================
