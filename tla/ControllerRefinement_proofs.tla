--------------------- MODULE ControllerRefinement_proofs ---------------------
(***************************************************************************)
(* The handlers, the reaper and the clients, step by step, implement the   *)
(* atomic map of UidReserveMap, for every value of the constants: each     *)
(* step of Controller is one step of the map or leaves it alone.  One      *)
(* lemma for each request says which step of its handler is the one where  *)
(* it takes effect.                                                        *)
(***************************************************************************)
EXTENDS ControllerRefinement, Controller_proofs

(* What a handler has decided and knows at each place: its response is     *)
(* decided exactly from the step where the request takes effect, each      *)
(* place belongs to one operation, and parameters that may be stored were  *)
(* checked.                                                                *)
DecidedPcs == {"delete_tap", "put_reserve", "record_unlock", "unlock", "respond"}

ProgressInv ==
    \A c \in Clients :
        /\ pc[c] \in DecidedPcs <=> reply[c] # NoReply
        /\ pc[c] \in {"stat", "create_tap", "set_rate", "record_reserve"} =>
              req[c].op = "stat"
        /\ pc[c] = "get" => req[c].op = "get"
        /\ pc[c] \in {"set", "record_params"} => req[c].op = "set"
        /\ pc[c] = "add" => req[c].op = "add"
        /\ pc[c] = "remove" => req[c].op = "remove"
        /\ pc[c] \in {"lock", "lookup", "record_lock", "set", "record_params", "add"}
              /\ req[c].op \in {"set", "add"} => ValidParams(req[c].par)

(* Nothing that the map consists of changes. *)
LEMMA MapKept ==
    ASSUME UNCHANGED <<data, dead_list, record>>
    PROVE  UNCHANGED <<[u \in Uids |-> MapOf(u)], Bound>>
BY DEF MapOf, Bound, Allocated, Live, Dead

(* A uid is mapped as long as it has a record. *)
LEMMA MapEntry ==
    ASSUME CoreInv, NEW u \in Uids
    PROVE  /\ MapOf(u) = NULL <=> data[u] = NULL
           /\ data[u] # NULL => /\ MapOf(u).par = record[data[u]].par
                                /\ MapOf(u).rid = record[data[u]].reserve_id
<1>1. CASE data[u] = NULL
  BY <1>1 DEF MapOf
<1>2. CASE data[u] # NULL
  <2>1. data[u] \in Records /\ data[u] \in Allocated
    BY <1>2 DEF CoreInv, TypeOK, DatabaseTypeOK, Allocated, Live
  <2>2. /\ record[data[u]].par \in TapParams
        /\ record[data[u]].reserve_id \in ReserveIds \cup {NoReserve}
    BY <2>1 DEF CoreInv, TypeOK, DatabaseTypeOK, RecordType, RecordsInv
  <2>3. MapOf(u) \in [par : TapParams, rid : ReserveIds \cup {NoReserve}]
    BY <1>2, <2>2 DEF MapOf
  <2> QED
    BY <1>2, <2>3, UnmappedAssumption DEF MapOf
<1> QED
  BY <1>1, <1>2

(* A handler whose response is open has a request that is pending. *)
LEMMA PendingRequest ==
    ASSUME CoreInv, ProgressInv, NEW c \in Clients,
           pc[c] \notin DecidedPcs \cup {"idle"}
    PROVE  /\ req[c] # NoRequest /\ reply[c] = NoReply
           /\ req[c] \in Requests /\ req[c].uid \in Uids
           /\ \A op : UidMap!Pending(c, op) <=> req[c].op = op
<1>1. req[c] # NoRequest /\ req[c] \in Requests /\ req[c].uid \in Uids
  BY HandlerRequest, SentinelsAssumption
<1>2. reply[c] = NoReply
  BY DEF ProgressInv
<1> QED
  BY <1>1, <1>2 DEF UidMap!Pending

(* No step breaks it. *)
LEMMA ProgressStep ==
    ASSUME CoreInv, ProgressInv, [Next]_vars
    PROVE  ProgressInv'
<1> USE DEF CoreInv, TypeOK, HandlerTypeOK, ProgressInv, DecidedPcs, Goto, Answer
<1>1. ASSUME NEW c \in Clients, Receive(c)
      PROVE  ProgressInv'
  BY <1>1 DEF Receive
<1>2. ASSUME NEW c \in Clients, CheckParams(c)
      PROVE  ProgressInv'
  BY <1>2, ReplyTypes, SentinelsAssumption DEF CheckParams, Errors
<1>3. ASSUME NEW c \in Clients, LockDatabase(c) \/ UnlockDatabase(c) \/ UnlockRecord(c)
      PROVE  ProgressInv'
  BY <1>3 DEF LockDatabase, UnlockDatabase, UnlockRecord
<1>4. ASSUME NEW c \in Clients, LookupMiss(c)
      PROVE  ProgressInv'
  BY <1>4, ReplyTypes, SentinelsAssumption DEF LookupMiss, Errors
<1>5. ASSUME NEW c \in Clients, LookupHit(c)
      PROVE  ProgressInv'
  BY <1>5, ReplyTypes, SentinelsAssumption DEF LookupHit, Errors
<1>6. ASSUME NEW c \in Clients, LockRecord(c)
      PROVE  ProgressInv'
  BY <1>6 DEF LockRecord, LocalsInv
<1>7. ASSUME NEW c \in Clients, Respond(c)
      PROVE  ProgressInv'
  BY <1>7 DEF Respond
<1>8. ASSUME NEW c \in Clients,
             StatCreateReserve(c) \/ StatCreateTap(c) \/ StatSetRate(c)
      PROVE  ProgressInv'
  BY <1>8, ReplyTypes, SentinelsAssumption DEF StatCreateReserve, StatCreateTap,
     StatSetRate, Errors
<1>9. ASSUME NEW c \in Clients,
             StatRecordReserve(c) \/ StatDeleteTap(c) \/ StatPutReserve(c)
      PROVE  ProgressInv'
  BY <1>9 DEF StatRecordReserve, StatDeleteTap, StatPutReserve
<1>10. ASSUME NEW c \in Clients, StatExpose(c)
       PROVE  ProgressInv'
  <2>1. record[ptr[c]].reserve_id \in ReserveIds
    BY <1>10, HandlerRecord DEF StatExpose, HasRecord, RecordPcs
  <2> QED
    BY <1>10, <2>1, ReplyTypes, SentinelsAssumption DEF StatExpose, Errors
<1>11. ASSUME NEW c \in Clients, GetTapParams(c)
       PROVE  ProgressInv'
  <2>1. record[ptr[c]].par \in TapParams
    BY <1>11, HandlerRecord DEF GetTapParams, HasRecord, RecordPcs
  <2> QED
    BY <1>11, <2>1, ReplyTypes, SentinelsAssumption DEF GetTapParams
<1>12. ASSUME NEW c \in Clients,
              SetTapParams(c) \/ SetRecord(c) \/ AddEntry(c) \/ RemoveEntry(c)
       PROVE  ProgressInv'
  BY <1>12, ReplyTypes, SentinelsAssumption DEF SetTapParams, SetRecord, AddEntry,
     RemoveEntry, Errors
<1>13. CASE UNCHANGED handlerVars
  BY <1>13 DEF handlerVars
<1> QED
  BY <1>1, <1>2, <1>3, <1>4, <1>5, <1>6, <1>7, <1>8, <1>9, <1>10, <1>11, <1>12,
     <1>13 DEF Next, Handler, HandlerStep, ReaperThread, ReaperStep, vars, TaskPut,
     TaskExpose, ReaperLock, ReaperDestroy, ReaperCountUsers, ReaperPut, ReaperDone

(* A step that leaves the records, the requests and the responses alone is *)
(* no step of the map.                                                     *)
LEMMA Stutter ==
    ASSUME UNCHANGED <<data, dead_list, record, req, reply>>
    PROVE  UNCHANGED UidMap!mapVars
BY MapKept DEF UidMap!mapVars

(* A request arrives and a response leaves; parameters are refused before  *)
(* the database is looked at.                                              *)
LEMMA CallStep ==
    ASSUME NEW c \in Clients, CoreInv, ProgressInv, Receive(c)
    PROVE  UidMap!Call(c)
<1>1. req[c] = NoRequest /\ \E q \in Requests : req' = [req EXCEPT ![c] = q]
  BY DEF Receive, CoreInv, LocalsInv
<1>2. UNCHANGED <<data, dead_list, record, reply>>
  BY DEF Receive, dbaseVars
<1> QED
  BY <1>1, <1>2, MapKept DEF UidMap!Call

(* A response is sent: the call returns.                                 *)
LEMMA ReturnStep ==
    ASSUME NEW c \in Clients, CoreInv, ProgressInv, Respond(c)
    PROVE  UidMap!Return(c)
<1>1. reply[c] # NoReply
  BY DEF Respond, ProgressInv, DecidedPcs
<1>2. UNCHANGED <<data, dead_list, record>>
  BY DEF Respond, dbaseVars
<1> QED
  BY <1>1, <1>2, MapKept DEF UidMap!Return, Respond, Answer

(* Parameters that are refused: the request is answered before the lock. *)
LEMMA CheckStep ==
    ASSUME NEW c \in Clients, CoreInv, ProgressInv, CheckParams(c)
    PROVE  UidMap!Next \/ UNCHANGED UidMap!mapVars
<1>1. UNCHANGED <<data, dead_list, record, req>>
  BY DEF CheckParams, dbaseVars
<1>2. CASE ValidParams(req[c].par)
  BY <1>1, <1>2, Stutter DEF CheckParams
<1>3. CASE ~ValidParams(req[c].par)
  <2>1. UidMap!Pending(c, "set") \/ UidMap!Pending(c, "add")
    BY PendingRequest DEF CheckParams, DecidedPcs, CoreInv, LocalsInv
  <2>2. UidMap!RefuseParams(c)
    BY <1>1, <1>3, <2>1, MapKept DEF CheckParams, Answer, UidMap!RefuseParams,
       UidMap!Reply
  <2> QED
    BY <2>2 DEF UidMap!Next
<1> QED
  BY <1>2, <1>3

(* A lookup that finds no record decides every request but an add, one     *)
(* that finds a record decides an add.                                     *)
LEMMA LookupMissStep ==
    ASSUME NEW c \in Clients, CoreInv, ProgressInv, LookupMiss(c)
    PROVE  UidMap!Next \/ UNCHANGED UidMap!mapVars
<1> DEFINE op == req[c].op
<1> DEFINE u == req[c].uid
<1>1. UNCHANGED <<data, dead_list, record, req>>
  BY DEF LookupMiss, dbaseVars
<1>2. /\ req[c] \in Requests /\ u \in Uids
      /\ \A o : UidMap!Pending(c, o) <=> op = o
  BY PendingRequest DEF LookupMiss, DecidedPcs
<1>3. MapOf(u) = NULL
  BY <1>2, MapEntry DEF LookupMiss
<1>4. UNCHANGED <<[v \in Uids |-> MapOf(v)], Bound>>
  BY <1>1, MapKept
<1>5. CASE op = "add"
  BY <1>1, <1>5, Stutter DEF LookupMiss
<1>6. CASE op = "stat"
  <2>1. PICK r \in RootIds : reply' = [reply EXCEPT ![c] = UseRoot(r)]
    BY <1>6 DEF LookupMiss, Answer
  <2>2. UidMap!Stat(c)
    BY <1>1, <1>2, <1>3, <1>4, <1>6, <2>1 DEF UidMap!Stat, UidMap!Reply
  <2> QED
    BY <2>2 DEF UidMap!Next
<1>7. CASE op \notin {"add", "stat"}
  <2>1. reply' = [reply EXCEPT ![c] = Status("PA_UID_NOT_FOUND")]
    BY <1>7 DEF LookupMiss, Answer
  <2>2. CASE op = "get"
    BY <1>1, <1>2, <1>3, <1>4, <2>1, <2>2 DEF UidMap!Get, UidMap!Reply, UidMap!Next
  <2>3. CASE op = "set"
    <3>1. ValidParams(req[c].par)
      BY <2>3 DEF ProgressInv, LookupMiss
    <3>2. UidMap!Set(c)
      BY <1>1, <1>2, <1>3, <1>4, <2>1, <2>3, <3>1 DEF UidMap!Set, UidMap!Reply
    <3> QED
      BY <3>2 DEF UidMap!Next
  <2>4. CASE op = "remove"
    <3>1. [v \in Uids |-> MapOf(v)]' = [[v \in Uids |-> MapOf(v)] EXCEPT ![u] = NULL]
      BY <1>2, <1>3, <1>4
    <3>2. UidMap!Remove(c)
      BY <1>1, <1>2, <1>3, <1>4, <2>1, <2>4, <3>1 DEF UidMap!Remove, UidMap!Reply
    <3> QED
      BY <3>2 DEF UidMap!Next
  <2> QED
    BY <1>2, <1>7, <2>2, <2>3, <2>4 DEF Requests
<1> QED
  BY <1>5, <1>6, <1>7

(* The record was found: an add answers, the others go on.               *)
LEMMA LookupHitStep ==
    ASSUME NEW c \in Clients, CoreInv, ProgressInv, LookupHit(c)
    PROVE  UidMap!Next \/ UNCHANGED UidMap!mapVars
<1> DEFINE u == req[c].uid
<1>1. UNCHANGED <<data, dead_list, record, req>>
  BY DEF LookupHit, dbaseVars
<1>2. u \in Uids /\ \A o : UidMap!Pending(c, o) <=> req[c].op = o
  BY PendingRequest DEF LookupHit, DecidedPcs
<1>3. UNCHANGED <<[v \in Uids |-> MapOf(v)], Bound>>
  BY <1>1, MapKept
<1>4. CASE req[c].op = "add"
  <2>1. MapOf(u) # NULL /\ ValidParams(req[c].par)
    BY <1>2, <1>4, MapEntry DEF LookupHit, ProgressInv
  <2>2. reply' = [reply EXCEPT ![c] = Status("PA_UID_EXISTS")]
    BY <1>4 DEF LookupHit, Answer
  <2>3. UidMap!Add(c)
    BY <1>1, <1>2, <1>3, <1>4, <2>1, <2>2 DEF UidMap!Add, UidMap!Reply
  <2> QED
    BY <2>3 DEF UidMap!Next
<1>5. CASE req[c].op # "add"
  BY <1>1, <1>5, Stutter DEF LookupHit
<1> QED
  BY <1>4, <1>5

(* statReserve takes effect when it exposes the reserve or gives up; the   *)
(* write of the new reserve's id to the record is the step Bind.           *)
LEMMA StatFails ==
    ASSUME NEW c \in Clients, IndInv, ProgressInv,
           pc[c] \in {"stat", "create_tap", "set_rate"},
           UNCHANGED <<dbaseVars, req>>,
           reply' = [reply EXCEPT ![c] = Status("PA_FAILURE")]
    PROVE  UidMap!Next
<1> DEFINE u == req[c].uid
<1>1. UNCHANGED <<[v \in Uids |-> MapOf(v)], Bound>>
  BY MapKept DEF dbaseVars
<1>2. u \in Uids /\ UidMap!Pending(c, "stat")
  BY PendingRequest DEF DecidedPcs, ProgressInv, IndInv
<1>3. MapOf(u) # NULL
  BY <1>2, HandlerRecordLive, HandlerRecord, MapEntry DEF HasRecord, RecordPcs, IndInv
<1>4. UidMap!Stat(c)
  BY <1>1, <1>2, <1>3 DEF UidMap!Stat, UidMap!Reply
<1> QED
  BY <1>4 DEF UidMap!Next

(* The system calls of a new reserve stutter or fail the stat.           *)
LEMMA StatSetupStep ==
    ASSUME NEW c \in Clients, IndInv, ProgressInv,
           StatCreateReserve(c) \/ StatCreateTap(c) \/ StatSetRate(c)
    PROVE  UidMap!Next \/ UNCHANGED UidMap!mapVars
<1>1. UNCHANGED <<dbaseVars, req>> /\ pc[c] \in {"stat", "create_tap", "set_rate"}
  BY DEF StatCreateReserve, StatCreateTap, StatSetRate
<1>2. CASE UNCHANGED reply
  BY <1>1, <1>2, Stutter DEF dbaseVars
<1>3. CASE Answer(c, Status("PA_FAILURE"))
  BY <1>1, <1>3, StatFails DEF Answer
<1> QED
  BY <1>2, <1>3 DEF StatCreateReserve, StatCreateTap, StatSetRate

(* The exposure of the reserve answers a stat.                           *)
LEMMA StatExposeStep ==
    ASSUME NEW c \in Clients, IndInv, ProgressInv, StatExpose(c)
    PROVE  UidMap!Next
<1> DEFINE u == req[c].uid
<1> DEFINE r == record[ptr[c]].reserve_id
<1>1. UNCHANGED <<dbaseVars, req>> /\ pc[c] = "stat"
  BY DEF StatExpose
<1>2. CASE Answer(c, Status("PA_FAILURE"))
  BY <1>1, <1>2, StatFails DEF Answer
<1>3. CASE Answer(c, Granted(r))
  <2>1. UNCHANGED <<[v \in Uids |-> MapOf(v)], Bound>>
    BY <1>1, MapKept DEF dbaseVars
  <2>2. u \in Uids /\ UidMap!Pending(c, "stat")
    BY <1>1, PendingRequest DEF DecidedPcs, ProgressInv, IndInv
  <2>3. ptr[c] = data[u] /\ data[u] # NULL /\ r \in ReserveIds
    BY <1>1, HandlerRecordLive, HandlerRecord DEF StatExpose, HasRecord, RecordPcs,
       IndInv
  <2>4. MapOf(u) # NULL /\ MapOf(u).rid = r /\ r # NoReserve
    BY <2>2, <2>3, MapEntry, NoReserveAssumption DEF IndInv
  <2>5. UidMap!Stat(c)
    BY <1>1, <1>3, <2>1, <2>2, <2>4 DEF UidMap!Stat, UidMap!Reply, Answer
  <2> QED
    BY <2>5 DEF UidMap!Next
<1> QED
  BY <1>2, <1>3 DEF StatExpose

(* A reserve being set up is bound to no record yet. *)
LEMMA NewReserveUnbound ==
    ASSUME NEW c \in Clients, IndInv, pc[c] \in SetupPcs
    PROVE  new_reserve[c] \in ReserveIds \ Bound
<1>1. new_reserve[c] \in ReserveIds
  BY DEF IndInv, CoreInv, LocalsInv, TypeOK, HandlerTypeOK
<1>2. ASSUME NEW x \in Allocated, record[x].reserve_created,
             record[x].reserve_id = new_reserve[c]
      PROVE  FALSE
  <2>1. x \in Records
    BY <1>2 DEF IndInv, CoreInv, TypeOK, DatabaseTypeOK, Allocated, Live, Dead
  <2>2. /\ <<"record", x>> \in Owners(new_reserve[c])
        /\ <<"handler", c>> \in Owners(new_reserve[c])
    BY <1>2, <2>1 DEF Owners, HasReserve
  <2>3. <<"record", x>> = <<"handler", c>>
    BY <1>1, <2>2 DEF IndInv, CoreInv, ReservesAccountedFor, Accounted
  <2> QED
    BY <2>3
<1> QED
  BY <1>1, <1>2 DEF Bound

(* A new reserve is bound to the uid when the record takes it.           *)
LEMMA StatRecordReserveStep ==
    ASSUME NEW c \in Clients, IndInv, ProgressInv, StatRecordReserve(c)
    PROVE  UidMap!Next
<1> DEFINE u == req[c].uid
<1> DEFINE x == ptr[c]
<1> DEFINE r == new_reserve[c]
<1> DEFINE M == [v \in Uids |-> MapOf(v)]
<1>1. /\ UNCHANGED <<req, reply, data, dead_list>> /\ pc[c] = "record_reserve"
      /\ record' = [record EXCEPT ![x] = [reserve_created |-> TRUE,
                                          reserve_id |-> r, par |-> @.par]]
  BY DEF StatRecordReserve, SetRecordReserve
<1>2. u \in Uids /\ UidMap!Pending(c, "stat")
  BY <1>1, PendingRequest DEF DecidedPcs, ProgressInv, IndInv
<1>3. HasRecord(c)
  BY <1>1 DEF HasRecord, RecordPcs
<1>4. x = data[u] /\ x # NULL /\ x \in Records /\ x \in Allocated
  BY <1>3, HandlerRecordLive, HandlerRecord DEF IndInv
<1>5. r \in ReserveIds \ Bound
  BY <1>1, NewReserveUnbound DEF SetupPcs
<1>6. ~record[x].reserve_created /\ record[x].reserve_id = NoReserve
  BY <1>1, <1>4 DEF SetupPcs, IndInv, CoreInv, LocalsInv, RecordsInv
<1>7. MapOf(u) # NULL /\ MapOf(u).rid = NoReserve
  BY <1>2, <1>4, <1>6, MapEntry DEF IndInv
<1>8. M' = [M EXCEPT ![u].rid = r]
  <2>1. MapOf(u)' = [MapOf(u) EXCEPT !.rid = r]
    BY <1>1, <1>4 DEF MapOf, IndInv, CoreInv, TypeOK, DatabaseTypeOK
  <2>2. \A v \in Uids : v # u => MapOf(v)' = MapOf(v)
    <3>1. \A v \in Uids : v # u /\ data[v] # NULL => data[v] # x /\ data[v] \in Records
      BY <1>2, <1>4 DEF IndInv, CoreInv, RecordsInOnePlace, TypeOK, DatabaseTypeOK
    <3> QED
      BY <1>1, <1>4, <3>1 DEF MapOf, IndInv, CoreInv, TypeOK, DatabaseTypeOK
  <2>3. M' = [v \in Uids |-> MapOf(v)']
    OBVIOUS
  <2> QED
    BY <1>1, <1>2, <2>1, <2>2, <2>3
<1>9. Bound' = Bound \cup {r}
  <2>1. Allocated' = Allocated /\ Allocated \subseteq Records
    BY <1>1 DEF Allocated, Live, Dead, IndInv, CoreInv, TypeOK, DatabaseTypeOK
  <2>2. record'[x].reserve_created /\ record'[x].reserve_id = r
    BY <1>1, <1>4 DEF IndInv, CoreInv, TypeOK, DatabaseTypeOK
  <2>3. \A y \in Records : y # x => record'[y] = record[y]
    BY <1>1, <1>4 DEF IndInv, CoreInv, TypeOK, DatabaseTypeOK
  <2> QED
    BY <1>4, <1>6, <2>1, <2>2, <2>3 DEF Bound
<1>10. UidMap!Bind(c)
  BY <1>1, <1>2, <1>5, <1>7, <1>8, <1>9 DEF UidMap!Bind
<1> QED
  BY <1>10 DEF UidMap!Next

(* A get takes effect when it reads the record. *)
LEMMA GetStep ==
    ASSUME NEW c \in Clients, IndInv, ProgressInv, GetTapParams(c)
    PROVE  UidMap!Next
<1> DEFINE u == req[c].uid
<1>1. /\ UNCHANGED <<dbaseVars, req>> /\ pc[c] = "get"
      /\ reply' = [reply EXCEPT ![c] = Params(record[ptr[c]].par)]
  BY DEF GetTapParams, Answer
<1>2. UNCHANGED <<[v \in Uids |-> MapOf(v)], Bound>>
  BY <1>1, MapKept DEF dbaseVars
<1>3. u \in Uids /\ UidMap!Pending(c, "get")
  BY <1>1, PendingRequest DEF DecidedPcs, ProgressInv, IndInv
<1>4. ptr[c] = data[u] /\ data[u] # NULL
  BY <1>1, HandlerRecordLive, HandlerRecord DEF HasRecord, RecordPcs, IndInv
<1>5. MapOf(u) # NULL /\ MapOf(u).par = record[ptr[c]].par
  BY <1>3, <1>4, MapEntry DEF IndInv
<1>6. UidMap!Get(c)
  BY <1>1, <1>2, <1>3, <1>5 DEF UidMap!Get, UidMap!Reply
<1> QED
  BY <1>6 DEF UidMap!Next

(* A set takes effect when it writes the record, although the kernel has   *)
(* the new rate before, or when the kernel refuses the rate.               *)
LEMMA SetStep ==
    ASSUME NEW c \in Clients, IndInv, ProgressInv, SetTapParams(c)
    PROVE  UidMap!Next \/ UNCHANGED UidMap!mapVars
<1> DEFINE u == req[c].uid
<1>1. UNCHANGED <<dbaseVars, req>> /\ pc[c] = "set"
  BY DEF SetTapParams
<1>2. CASE UNCHANGED reply
  BY <1>1, <1>2, Stutter DEF dbaseVars
<1>3. CASE /\ record[ptr[c]].reserve_created
           /\ Answer(c, Status("PA_BAD_PERMISSIONS"))
  <2>1. UNCHANGED <<[v \in Uids |-> MapOf(v)], Bound>>
    BY <1>1, MapKept DEF dbaseVars
  <2>2. u \in Uids /\ UidMap!Pending(c, "set")
    BY <1>1, PendingRequest DEF DecidedPcs, ProgressInv, IndInv
  <2>3. ValidParams(req[c].par)
    BY <1>1, <2>2 DEF ProgressInv
  <2>4. ptr[c] = data[u] /\ data[u] # NULL /\ record[ptr[c]].reserve_id \in ReserveIds
    BY <1>1, <1>3, HandlerRecordLive, HandlerRecord DEF HasRecord, RecordPcs, IndInv
  <2>5. MapOf(u) # NULL /\ MapOf(u).rid # NoReserve
    BY <2>2, <2>4, MapEntry, NoReserveAssumption DEF IndInv
  <2>6. UidMap!Set(c)
    BY <1>1, <1>3, <2>1, <2>2, <2>3, <2>5 DEF UidMap!Set, UidMap!Reply, Answer
  <2> QED
    BY <2>6 DEF UidMap!Next
<1> QED
  BY <1>2, <1>3 DEF SetTapParams

(* A set takes effect when the record takes the parameters.              *)
LEMMA SetRecordStep ==
    ASSUME NEW c \in Clients, IndInv, ProgressInv, SetRecord(c)
    PROVE  UidMap!Next
<1> DEFINE u == req[c].uid
<1> DEFINE x == ptr[c]
<1> DEFINE M == [v \in Uids |-> MapOf(v)]
<1>1. /\ UNCHANGED <<req, data, dead_list>> /\ pc[c] = "record_params"
      /\ record' = [record EXCEPT ![x].par = req[c].par]
      /\ reply' = [reply EXCEPT ![c] = Status("PA_NO_ERROR")]
  BY DEF SetRecord, SetRecordParams, Answer
<1>2. u \in Uids /\ UidMap!Pending(c, "set")
  BY <1>1, PendingRequest DEF DecidedPcs, ProgressInv, IndInv
<1>3. ValidParams(req[c].par)
  BY <1>1, <1>2 DEF ProgressInv
<1>4. HasRecord(c)
  BY <1>1 DEF HasRecord, RecordPcs
<1>5. x = data[u] /\ x # NULL /\ x \in Records
  BY <1>4, HandlerRecordLive, HandlerRecord DEF IndInv
<1>6. MapOf(u) # NULL
  BY <1>2, <1>5, MapEntry DEF IndInv
<1>7. record[x] \in RecordType /\ record'[x] = [record[x] EXCEPT !.par = req[c].par]
  BY <1>1, <1>5 DEF IndInv, CoreInv, TypeOK, DatabaseTypeOK
<1>8. \A y \in Records : y # x => record'[y] = record[y]
  BY <1>1, <1>5 DEF IndInv, CoreInv, TypeOK, DatabaseTypeOK
<1>9. M' = [M EXCEPT ![u].par = req[c].par]
  <2>1. MapOf(u)' = [MapOf(u) EXCEPT !.par = req[c].par]
    BY <1>1, <1>5, <1>7 DEF MapOf, RecordType
  <2>2. \A v \in Uids : v # u => MapOf(v)' = MapOf(v)
    <3>1. \A v \in Uids : v # u /\ data[v] # NULL => data[v] # x /\ data[v] \in Records
      BY <1>2, <1>5 DEF IndInv, CoreInv, RecordsInOnePlace, TypeOK, DatabaseTypeOK
    <3> QED
      BY <1>1, <1>8, <3>1 DEF MapOf
  <2>3. M' = [v \in Uids |-> MapOf(v)']
    OBVIOUS
  <2> QED
    BY <1>1, <1>2, <2>1, <2>2, <2>3
<1>10. Bound' = Bound
  <2>1. Allocated' = Allocated /\ Allocated \subseteq Records
    BY <1>1 DEF Allocated, Live, Dead, IndInv, CoreInv, TypeOK, DatabaseTypeOK
  <2>2. \A y \in Records : /\ record'[y].reserve_created = record[y].reserve_created
                           /\ record'[y].reserve_id = record[y].reserve_id
    BY <1>7, <1>8 DEF RecordType
  <2> QED
    BY <2>1, <2>2 DEF Bound
<1>11. UidMap!Set(c)
  BY <1>1, <1>2, <1>3, <1>6, <1>9, <1>10 DEF UidMap!Set, UidMap!Reply
<1> QED
  BY <1>11 DEF UidMap!Next

(* An add takes effect when the record is in the hash or malloc failed, a  *)
(* remove when the record is out of it.                                    *)
LEMMA AddStep ==
    ASSUME NEW c \in Clients, IndInv, ProgressInv, AddEntry(c)
    PROVE  UidMap!Next
<1> DEFINE u == req[c].uid
<1> DEFINE M == [v \in Uids |-> MapOf(v)]
<1>1. UNCHANGED req /\ pc[c] = "add"
  BY DEF AddEntry
<1>2. u \in Uids /\ UidMap!Pending(c, "add")
  BY <1>1, PendingRequest DEF DecidedPcs, ProgressInv, IndInv
<1>3. ValidParams(req[c].par)
  BY <1>1, <1>2 DEF ProgressInv, UidMap!Pending
<1>4. MapOf(u) = NULL /\ data[u] = NULL
  BY <1>1, <1>2, MapEntry DEF IndInv, CoreInv, LocalsInv
<1>5. CASE UNCHANGED dbaseVars /\ Answer(c, Status("PA_FAILURE"))
  <2>1. UNCHANGED <<M, Bound>>
    BY <1>5, MapKept DEF dbaseVars
  <2>2. UidMap!Add(c)
    BY <1>1, <1>2, <1>3, <1>4, <1>5, <2>1 DEF UidMap!Add, UidMap!Reply, Answer
  <2> QED
    BY <2>2 DEF UidMap!Next
<1>6. ASSUME NEW x \in Records, AddRecord(u, x, req[c].par),
             Answer(c, Status("PA_NO_ERROR"))
      PROVE  UidMap!Next
  <2>1. /\ x \in Records \ Allocated
        /\ record' = [record EXCEPT ![x] = NewRecord(req[c].par)]
        /\ data' = [data EXCEPT ![u] = x]
    BY <1>6 DEF AddRecord
  <2>2. Allocated' = Allocated \cup {x}
    BY <1>6, AddRecordMaps DEF IndInv
  <2>3. record'[x] = NewRecord(req[c].par)
    BY <2>1 DEF IndInv, CoreInv, TypeOK, DatabaseTypeOK
  <2>4. \A y \in Records : y # x => record'[y] = record[y]
    BY <2>1 DEF IndInv, CoreInv, TypeOK, DatabaseTypeOK
  <2>5. M' = [M EXCEPT ![u] = [par |-> req[c].par, rid |-> NoReserve]]
    <3>1. MapOf(u)' = [par |-> req[c].par, rid |-> NoReserve]
      <4>1. data'[u] = x /\ x # NULL
        BY <1>2, <2>1, NULLAssumption DEF IndInv, CoreInv, TypeOK, DatabaseTypeOK
      <4> QED
        BY <1>1, <2>3, <4>1 DEF MapOf, NewRecord
    <3>2. \A v \in Uids : v # u => MapOf(v)' = MapOf(v)
      <4>1. \A v \in Uids : data[v] # NULL => data[v] # x /\ data[v] \in Records
        BY <2>1 DEF Allocated, Live, IndInv, CoreInv, TypeOK, DatabaseTypeOK
      <4>2. \A v \in Uids : v # u => data'[v] = data[v]
        BY <1>2, <2>1 DEF IndInv, CoreInv, TypeOK, DatabaseTypeOK
      <4> QED
        BY <2>4, <4>1, <4>2 DEF MapOf
    <3>3. M' = [v \in Uids |-> MapOf(v)']
      OBVIOUS
    <3> QED
      BY <1>1, <1>2, <3>1, <3>2, <3>3
  <2>6. Bound' = Bound
    <3>1. Allocated \subseteq Records
      BY DEF Allocated, Live, Dead, IndInv, CoreInv, TypeOK, DatabaseTypeOK
    <3> QED
      BY <2>1, <2>2, <2>3, <2>4, <3>1 DEF Bound, NewRecord
  <2>7. UidMap!Add(c)
    BY <1>1, <1>2, <1>3, <1>4, <1>6, <2>5, <2>6 DEF UidMap!Add, UidMap!Reply, Answer
  <2> QED
    BY <2>7 DEF UidMap!Next
<1> QED
  BY <1>5, <1>6 DEF AddEntry

(* A remove takes effect when the record leaves the hash.                *)
LEMMA RemoveStep ==
    ASSUME NEW c \in Clients, IndInv, ProgressInv, RemoveEntry(c)
    PROVE  UidMap!Next
<1> DEFINE u == req[c].uid
<1> DEFINE M == [v \in Uids |-> MapOf(v)]
<1>1. /\ UNCHANGED <<req, record>> /\ pc[c] = "remove"
      /\ reply' = [reply EXCEPT ![c] = Status("PA_NO_ERROR")]
      /\ data' = [data EXCEPT ![u] = NULL]
  BY DEF RemoveEntry, RemoveRecord, Answer
<1>2. u \in Uids /\ UidMap!Pending(c, "remove")
  BY <1>1, PendingRequest DEF DecidedPcs, ProgressInv, IndInv
<1>3. MapOf(u) # NULL
  BY <1>1, <1>2, HandlerRecordLive, HandlerRecord, MapEntry DEF HasRecord, IndInv
<1>4. M' = [M EXCEPT ![u] = NULL]
  <2>1. MapOf(u)' = NULL /\ \A v \in Uids : v # u => MapOf(v)' = MapOf(v)
    BY <1>1, <1>2 DEF MapOf, IndInv, CoreInv, TypeOK, DatabaseTypeOK
  <2>2. M' = [v \in Uids |-> MapOf(v)']
    OBVIOUS
  <2> QED
    BY <1>1, <1>2, <2>1, <2>2
<1>5. Bound' = Bound
  <2>1. Allocated' = Allocated
    BY RemoveEntryMoves, RemovesFoundByHandlers DEF IndInv
  <2> QED
    BY <1>1, <2>1 DEF Bound
<1>6. UidMap!Remove(c)
  BY <1>1, <1>2, <1>3, <1>4, <1>5 DEF UidMap!Remove, UidMap!Reply
<1> QED
  BY <1>6 DEF UidMap!Next

(* Each step of a thread or a task is one step of the map, or none. *)
LEMMA SimulationStep ==
    ASSUME IndInv, ProgressInv, [Next]_vars
    PROVE  UidMap!Next \/ UNCHANGED UidMap!mapVars
<1> USE DEF IndInv
<1>1. ASSUME NEW c \in Clients, Receive(c) \/ Respond(c)
      PROVE  UidMap!Next
  BY <1>1, CallStep, ReturnStep DEF UidMap!Next
<1>2. ASSUME NEW c \in Clients, CheckParams(c) \/ LookupMiss(c) \/ LookupHit(c)
      PROVE  UidMap!Next \/ UNCHANGED UidMap!mapVars
  BY <1>2, CheckStep, LookupMissStep, LookupHitStep
<1>3. ASSUME NEW c \in Clients,
             \/ LockDatabase(c) \/ LockRecord(c) \/ UnlockRecord(c)
             \/ UnlockDatabase(c) \/ StatDeleteTap(c) \/ StatPutReserve(c)
             \/ TaskPut(c) \/ TaskExpose(c)
      PROVE  UNCHANGED UidMap!mapVars
  BY <1>3, Stutter DEF LockDatabase, DBLock, LockRecord, RecordLock, UnlockRecord,
     RecordUnlock, UnlockDatabase, DBUnlock, StatDeleteTap, StatPutReserve, TaskPut,
     TaskExpose, dbaseVars, handlerVars
<1>4. ASSUME NEW c \in Clients,
             \/ StatCreateReserve(c) \/ StatCreateTap(c) \/ StatSetRate(c)
             \/ StatRecordReserve(c) \/ StatExpose(c)
      PROVE  UidMap!Next \/ UNCHANGED UidMap!mapVars
  BY <1>4, StatSetupStep, StatRecordReserveStep, StatExposeStep
<1>5. ASSUME NEW c \in Clients,
             \/ GetTapParams(c) \/ SetTapParams(c) \/ SetRecord(c)
             \/ AddEntry(c) \/ RemoveEntry(c)
      PROVE  UidMap!Next \/ UNCHANGED UidMap!mapVars
  BY <1>5, GetStep, SetStep, SetRecordStep, AddStep, RemoveStep
<1>6. CASE ReaperThread \/ UNCHANGED vars
  BY <1>6, Stutter DEF ReaperThread, ReaperStep, ReaperLock, DBLock, ReaperDestroy,
     DestroyRecordLock, ReaperCountUsers, ReaperPut, ReaperDone, DBUnlock, vars,
     dbaseVars, handlerVars
<1> QED
  BY <1>1, <1>2, <1>3, <1>4, <1>5, <1>6 DEF Next, Handler, HandlerStep

(* Nothing is mapped, bound or asked for at the start. *)
LEMMA SimulationInit ==
    ASSUME Init
    PROVE  UidMap!Init /\ ProgressInv
<1>1. /\ [u \in Uids |-> MapOf(u)] = [u \in Uids |-> NULL]
      /\ Allocated = {}
  BY DEF Init, DatabaseInit, MapOf, Allocated, Live, Dead
<1>2. Bound = {}
  BY <1>1 DEF Bound
<1>3. ProgressInv
  BY DEF Init, ProgressInv, DecidedPcs
<1> QED
  BY <1>1, <1>2, <1>3 DEF Init, UidMap!Init

(* Whatever the other handlers, the reaper and the clients do, each        *)
(* request to the arbiter acts as one indivisible step on a map from uids  *)
(* to parameters and a reserve, between its arrival and its response.      *)
THEOREM RequestsAreAtomic == Spec => ImplementsMap
<1>1. Init => UidMap!Init /\ ProgressInv
  BY SimulationInit
<1>2. IndInv /\ ProgressInv /\ [Next]_vars => ProgressInv'
  BY ProgressStep DEF IndInv
<1>3. IndInv /\ ProgressInv /\ [Next]_vars => [UidMap!Next]_UidMap!mapVars
  BY SimulationStep
<1> QED
  BY <1>1, <1>2, <1>3, Invariance, PTL DEF Spec, ImplementsMap, UidMap!Spec
=============================================================================
