------------------------------ MODULE Controller ------------------------------
(***************************************************************************)
(* The arbiter at work: one handler thread per client session serves the   *)
(* requests of client.c with the operations of controller.c, the reaper    *)
(* runs reserveDataDBClearUnused of dbase.c, and the clients, which are    *)
(* tasks of the kernel, drop and share the reserves they were given.       *)
(*                                                                         *)
(* A handler is named by its client.  pc[c] is the place of the handler of *)
(* c in the C code, "idle" between two requests.  A client has at most one *)
(* request outstanding, as in PAController/client.c, which reads the       *)
(* response before it does anything else.                                  *)
(***************************************************************************)
EXTENDS ReserveDatabase

CONSTANTS
    RootReserve,  \* id of the root reserve
    FailedId,     \* -1, what SYS_ROOT_RESERVE_ID returns when it fails
    NoRequest,    \* a handler that waits for a request
    NoReply       \* a handler that has not decided its response yet

VARIABLES
    pc,           \* where each handler is
    req,          \* the request it serves
    ptr,          \* its local variable record
    new_reserve,  \* its local variable new_reserve_id
    reply,        \* the response it will send
    logged,       \* reserves the arbiter holds and logged it could not put
    rpc,          \* where the reaper is
    cursor,       \* its place in dead_list
    clear_err,    \* err of reserveDataDBClearUnused is not 0
    is_empty      \* what it stored in *is_empty

handlerVars == <<pc, req, ptr, new_reserve, reply>>
reaperVars == <<rpc, cursor, clear_err, is_empty>>
vars == <<kernelVars, dbaseVars, handlerVars, logged, reaperVars>>

Errors == {"PA_NO_ERROR", "PA_BAD_PERMISSIONS", "PA_UID_NOT_FOUND",
           "PA_INVALID_INPUT", "PA_FAILURE", "PA_UID_EXISTS"}
Flags == {"none", "PA_RESERVE_GRANTED", "PA_USE_ROOT_RESERVE"}

(* cinder_get_root_reserve_id does not look at what the system call        *)
(* returns: its failure is an id like any other.                           *)
RootIds == {RootReserve, FailedId}

Requests ==
    [op : {"stat", "get", "remove"}, uid : Uids, par : {NoParams}]
        \cup [op : {"set", "add"}, uid : Uids, par : TapParams]

Replies ==
    [error : Errors, flags : Flags,
     rid : ReserveIds \cup RootIds \cup {NoReserve},
     par : TapParams \cup {NoParams}]

ASSUME SentinelsAssumption == NoRequest \notin Requests /\ NoReply \notin Replies

(* The responses of client.c; rid and par are NoReserve and NoParams in a  *)
(* response that has no such field, or has 0 in it.                        *)
Response(error, flags, rid, par) ==
    [error |-> error, flags |-> flags, rid |-> rid, par |-> par]

Status(error) == Response(error, "none", NoReserve, NoParams)
Granted(r) == Response("PA_NO_ERROR", "PA_RESERVE_GRANTED", r, NoParams)
UseRoot(r) == Response("PA_NO_ERROR", "PA_USE_ROOT_RESERVE", r, NoParams)
Params(par) == Response("PA_NO_ERROR", "none", NoReserve, par)

(* The parameters setTapParams and addReserveParamsForUID accept. *)
ValidParams(par) ==
    /\ par.type \in {"CINDER_TAP_RATE_CONSTANT", "CINDER_TAP_RATE_PROPORTIONAL"}
    /\ par.value >= 0
    /\ par.type = "CINDER_TAP_RATE_PROPORTIONAL" => par.value <= 100

HandlerPcs ==
    {"idle", "check", "lock", "lookup", "record_lock", "stat", "create_tap",
     "set_rate", "record_reserve", "delete_tap", "put_reserve", "get", "set",
     "record_params", "add", "remove", "record_unlock", "unlock", "respond"}

(* Where a handler holds a record's lock, and where the database's. *)
RecordPcs ==
    {"stat", "create_tap", "set_rate", "record_reserve", "delete_tap",
     "put_reserve", "get", "set", "record_params", "record_unlock"}
LockedPcs == RecordPcs \cup {"lookup", "record_lock", "add", "remove", "unlock"}

HandlerTypeOK ==
    /\ pc \in [Clients -> HandlerPcs]
    /\ req \in [Clients -> Requests \cup {NoRequest}]
    /\ ptr \in [Clients -> Records \cup {NULL}]
    /\ new_reserve \in [Clients -> ReserveIds \cup {NoReserve}]
    /\ reply \in [Clients -> Replies \cup {NoReply}]
    /\ logged \subseteq ReserveIds

ReaperTypeOK ==
    /\ rpc \in {"asleep", "scan", "put"}
    /\ cursor \in Nat \ {0}
    /\ clear_err \in BOOLEAN
    /\ is_empty \in BOOLEAN

TypeOK == KernelTypeOK /\ DatabaseTypeOK /\ HandlerTypeOK /\ ReaperTypeOK

Init ==
    /\ KernelInit
    /\ DatabaseInit
    /\ pc = [c \in Clients |-> "idle"]
    /\ req = [c \in Clients |-> NoRequest]
    /\ ptr = [c \in Clients |-> NULL]
    /\ new_reserve = [c \in Clients |-> NoReserve]
    /\ reply = [c \in Clients |-> NoReply]
    /\ logged = {}
    /\ rpc = "asleep"
    /\ cursor = 1
    /\ clear_err = FALSE
    /\ is_empty = FALSE
-----------------------------------------------------------------------------
(* The steps of a handler. *)

Goto(c, label) == pc' = [pc EXCEPT ![c] = label]
Answer(c, response) == reply' = [reply EXCEPT ![c] = response]

(* The request has been read: __do_handle_client dispatches it. *)
Receive(c) ==
    /\ pc[c] = "idle"
    /\ \E q \in Requests :
         /\ req' = [req EXCEPT ![c] = q]
         /\ Goto(c, IF q.op \in {"set", "add"} THEN "check" ELSE "lock")
    /\ UNCHANGED <<kernelVars, dbaseVars, ptr, new_reserve, reply, logged,
                   reaperVars>>

CheckParams(c) ==
    /\ pc[c] = "check"
    /\ IF ValidParams(req[c].par)
         THEN Goto(c, "lock") /\ UNCHANGED reply
         ELSE Goto(c, "respond") /\ Answer(c, Status("PA_INVALID_INPUT"))
    /\ UNCHANGED <<kernelVars, dbaseVars, req, ptr, new_reserve, logged,
                   reaperVars>>

LockDatabase(c) ==
    /\ pc[c] = "lock"
    /\ DBLock(c)
    /\ Goto(c, "lookup")
    /\ UNCHANGED <<kernelVars, req, ptr, new_reserve, reply, logged, reaperVars>>

(* HASH_FIND found nothing. *)
LookupMiss(c) ==
    /\ pc[c] = "lookup"
    /\ data[req[c].uid] = NULL
    /\ CASE req[c].op = "add"  -> Goto(c, "add") /\ UNCHANGED reply
         [] req[c].op = "stat" -> /\ Goto(c, "unlock")
                                  /\ \E r \in RootIds : Answer(c, UseRoot(r))
         [] OTHER -> Goto(c, "unlock") /\ Answer(c, Status("PA_UID_NOT_FOUND"))
    /\ UNCHANGED <<kernelVars, dbaseVars, req, ptr, new_reserve, logged,
                   reaperVars>>

(* HASH_FIND found the record of the uid. *)
LookupHit(c) ==
    /\ pc[c] = "lookup"
    /\ data[req[c].uid] # NULL
    /\ ptr' = [ptr EXCEPT ![c] = data[req[c].uid]]
    /\ CASE req[c].op = "add" ->
              Goto(c, "unlock") /\ Answer(c, Status("PA_UID_EXISTS"))
         [] req[c].op = "remove" -> Goto(c, "remove") /\ UNCHANGED reply
         [] OTHER -> Goto(c, "record_lock") /\ UNCHANGED reply
    /\ UNCHANGED <<kernelVars, dbaseVars, req, new_reserve, logged, reaperVars>>

LockRecord(c) ==
    /\ pc[c] = "record_lock"
    /\ RecordLock(c, ptr[c])
    /\ Goto(c, req[c].op)
    /\ UNCHANGED <<kernelVars, req, ptr, new_reserve, reply, logged, reaperVars>>

UnlockRecord(c) ==
    /\ pc[c] = "record_unlock"
    /\ RecordUnlock(ptr[c])
    /\ Goto(c, "unlock")
    /\ UNCHANGED <<kernelVars, req, ptr, new_reserve, reply, logged, reaperVars>>

(* The operation returns and its local pointer is gone. *)
UnlockDatabase(c) ==
    /\ pc[c] = "unlock"
    /\ DBUnlock
    /\ ptr' = [ptr EXCEPT ![c] = NULL]
    /\ Goto(c, "respond")
    /\ UNCHANGED <<kernelVars, req, new_reserve, reply, logged, reaperVars>>

(* The response is sent and the handler waits for the next request. *)
Respond(c) ==
    /\ pc[c] = "respond"
    /\ Goto(c, "idle")
    /\ Answer(c, NoReply)
    /\ req' = [req EXCEPT ![c] = NoRequest]
    /\ UNCHANGED <<kernelVars, dbaseVars, ptr, new_reserve, logged, reaperVars>>
-----------------------------------------------------------------------------
(* statReserve once the record is locked: make the reserve if there is     *)
(* none, then expose it to the client.                                     *)

StatCreateReserve(c) ==
    /\ pc[c] = "stat"
    /\ ~record[ptr[c]].reserve_created
    /\ \/ \E r \in ReserveIds :
            /\ CreateReserve(Arbiter, r)
            /\ new_reserve' = [new_reserve EXCEPT ![c] = r]
            /\ Goto(c, "create_tap")
            /\ UNCHANGED reply
       \/ /\ SyscallFails
          /\ Goto(c, "record_unlock")
          /\ Answer(c, Status("PA_FAILURE"))
          /\ UNCHANGED new_reserve
    /\ UNCHANGED <<dbaseVars, req, ptr, logged, reaperVars>>

StatCreateTap(c) ==
    /\ pc[c] = "create_tap"
    /\ \/ CreateTap(new_reserve[c]) /\ Goto(c, "set_rate") /\ UNCHANGED reply
       \/ /\ SyscallFails
          /\ Goto(c, "put_reserve")
          /\ Answer(c, Status("PA_FAILURE"))
    /\ UNCHANGED <<dbaseVars, req, ptr, new_reserve, logged, reaperVars>>

StatSetRate(c) ==
    /\ pc[c] = "set_rate"
    /\ \/ /\ TapSetRate(new_reserve[c], record[ptr[c]].par)
          /\ Goto(c, "record_reserve")
          /\ UNCHANGED reply
       \/ /\ SyscallFails
          /\ Goto(c, "delete_tap")
          /\ Answer(c, Status("PA_FAILURE"))
    /\ UNCHANGED <<dbaseVars, req, ptr, new_reserve, logged, reaperVars>>

StatRecordReserve(c) ==
    /\ pc[c] = "record_reserve"
    /\ SetRecordReserve(ptr[c], new_reserve[c])
    /\ new_reserve' = [new_reserve EXCEPT ![c] = NoReserve]
    /\ Goto(c, "stat")
    /\ UNCHANGED <<kernelVars, req, ptr, reply, logged, reaperVars>>

StatDeleteTap(c) ==
    /\ pc[c] = "delete_tap"
    /\ DeleteTap(new_reserve[c]) \/ SyscallFails
    /\ Goto(c, "put_reserve")
    /\ UNCHANGED <<dbaseVars, req, ptr, new_reserve, reply, logged, reaperVars>>

StatPutReserve(c) ==
    /\ pc[c] = "put_reserve"
    /\ \/ PutReserve(Arbiter, new_reserve[c]) /\ UNCHANGED logged
       \/ SyscallFails /\ logged' = logged \cup {new_reserve[c]}
    /\ new_reserve' = [new_reserve EXCEPT ![c] = NoReserve]
    /\ Goto(c, "record_unlock")
    /\ UNCHANGED <<dbaseVars, req, ptr, reply, reaperVars>>

StatExpose(c) ==
    /\ pc[c] = "stat"
    /\ record[ptr[c]].reserve_created
    /\ LET r == record[ptr[c]].reserve_id
       IN  \/ ExposeReserve(Arbiter, c, r) /\ Answer(c, Granted(r))
           \/ SyscallFails /\ Answer(c, Status("PA_FAILURE"))
    /\ Goto(c, "record_unlock")
    /\ UNCHANGED <<dbaseVars, req, ptr, new_reserve, logged, reaperVars>>
-----------------------------------------------------------------------------
(* The other operations. *)

GetTapParams(c) ==
    /\ pc[c] = "get"
    /\ Answer(c, Params(record[ptr[c]].par))
    /\ Goto(c, "record_unlock")
    /\ UNCHANGED <<kernelVars, dbaseVars, req, ptr, new_reserve, logged,
                   reaperVars>>

(* A failed system call returns -1, which is -EPERM to the caller: the     *)
(* response is then PA_BAD_PERMISSIONS.                                    *)
SetTapParams(c) ==
    /\ pc[c] = "set"
    /\ IF record[ptr[c]].reserve_created
         THEN \/ /\ TapSetRate(record[ptr[c]].reserve_id, req[c].par)
                 /\ Goto(c, "record_params")
                 /\ UNCHANGED reply
              \/ /\ SyscallFails
                 /\ Goto(c, "record_unlock")
                 /\ Answer(c, Status("PA_BAD_PERMISSIONS"))
         ELSE Goto(c, "record_params") /\ UNCHANGED <<kernelVars, reply>>
    /\ UNCHANGED <<dbaseVars, req, ptr, new_reserve, logged, reaperVars>>

SetRecord(c) ==
    /\ pc[c] = "record_params"
    /\ SetRecordParams(ptr[c], req[c].par)
    /\ Answer(c, Status("PA_NO_ERROR"))
    /\ Goto(c, "record_unlock")
    /\ UNCHANGED <<kernelVars, req, ptr, new_reserve, logged, reaperVars>>

(* reserveDataDBAddEntry fails when malloc or pthread_mutex_init does.  No *)
(* memory for the table of the hash ends the daemon: that is a run that    *)
(* stops here, and OutOfMemory of PowerArbiter.                            *)
AddEntry(c) ==
    /\ pc[c] = "add"
    /\ \/ /\ \E x \in Records : AddRecord(req[c].uid, x, req[c].par)
          /\ Answer(c, Status("PA_NO_ERROR"))
       \/ UNCHANGED dbaseVars /\ Answer(c, Status("PA_FAILURE"))
    /\ Goto(c, "unlock")
    /\ UNCHANGED <<kernelVars, req, ptr, new_reserve, logged, reaperVars>>

RemoveEntry(c) ==
    /\ pc[c] = "remove"
    /\ RemoveRecord(req[c].uid, ptr[c])
    /\ Answer(c, Status("PA_NO_ERROR"))
    /\ Goto(c, "unlock")
    /\ UNCHANGED <<kernelVars, req, ptr, new_reserve, logged, reaperVars>>

HandlerStep(c) ==
    \/ CheckParams(c) \/ LookupMiss(c) \/ LookupHit(c) \/ LockRecord(c)
    \/ UnlockRecord(c) \/ UnlockDatabase(c) \/ Respond(c)
    \/ StatCreateReserve(c) \/ StatCreateTap(c) \/ StatSetRate(c)
    \/ StatRecordReserve(c) \/ StatDeleteTap(c) \/ StatPutReserve(c)
    \/ StatExpose(c) \/ GetTapParams(c) \/ SetTapParams(c) \/ SetRecord(c)
    \/ AddEntry(c) \/ RemoveEntry(c)

Handler(c) == Receive(c) \/ LockDatabase(c) \/ HandlerStep(c)
-----------------------------------------------------------------------------
(* The reaper: one pass of reserveDataDBClearUnused over dead_list. *)

ReaperRecord == dead_list[cursor]
ReaperReserve == record[ReaperRecord].reserve_id
ReaperAtRecord == rpc = "scan" /\ cursor <= Len(dead_list)

(* The reaper is about to destroy the lock of its record. *)
ReaperDestroys ==
    \/ rpc = "put"
    \/ ReaperAtRecord /\ ~record[ReaperRecord].reserve_created

(* Variants: the arbiter does not count itself, or takes nobody for one. *)
SoleUserOffByOne(r) == NumReserveUsers(r) <= 2
SoleUserNever(r) == NumReserveUsers(r) = 0

(* cinder_get_num_reserve_users counts the arbiter itself. *)
SoleUser(r) == NumReserveUsers(r) = 1

ReaperLock ==
    /\ rpc = "asleep"
    /\ DBLock(Reaper)
    /\ rpc' = "scan"
    /\ clear_err' = FALSE
    /\ UNCHANGED <<kernelVars, handlerVars, logged, cursor, is_empty>>

ReaperDestroy ==
    /\ ReaperAtRecord
    /\ ~record[ReaperRecord].reserve_created
    /\ DestroyRecordLock(ReaperRecord)
    /\ cursor' = cursor + 1
    /\ UNCHANGED <<kernelVars, handlerVars, logged, rpc, clear_err, is_empty>>

(* The count may fail whoever asks, and the reaper goes on to the next.    *)
ReaperCountUsers ==
    /\ ReaperAtRecord
    /\ record[ReaperRecord].reserve_created
    /\ clear_err' \in BOOLEAN
    /\ ~clear_err' => ReserveInfo(Arbiter, ReaperReserve)
    /\ IF ~clear_err' /\ SoleUser(ReaperReserve)
         THEN rpc' = "put" /\ UNCHANGED cursor
         ELSE cursor' = cursor + 1 /\ UNCHANGED rpc
    /\ UNCHANGED <<kernelVars, dbaseVars, handlerVars, logged, is_empty>>

(* reserveRecordDestroy on a record with a reserve.  Its caller drops what *)
(* it returns, so a put that fails is tried again by the next pass.        *)
ReaperPut(ok) ==
    /\ rpc = "put"
    /\ IF ok THEN PutReserve(Arbiter, ReaperReserve) ELSE SyscallFails
    /\ DestroyRecordLock(ReaperRecord)
    /\ rpc' = "scan"
    /\ cursor' = cursor + 1
    /\ UNCHANGED <<handlerVars, logged, clear_err, is_empty>>

ReaperDone ==
    /\ rpc = "scan"
    /\ cursor > Len(dead_list)
    /\ is_empty' = (dead_list = <<>>)
    /\ DBUnlock
    /\ rpc' = "asleep"
    /\ cursor' = 1
    /\ UNCHANGED <<kernelVars, handlerVars, logged, clear_err>>

ReaperStep ==
    ReaperDestroy \/ ReaperCountUsers \/ (\E ok \in BOOLEAN : ReaperPut(ok))
        \/ ReaperDone

ReaperThread == ReaperLock \/ ReaperStep
-----------------------------------------------------------------------------
(* The clients as tasks: between two requests a client may put a reserve   *)
(* it holds or expose it to another client.                                *)

TaskPut(c) ==
    /\ pc[c] = "idle"
    /\ \E r \in ReserveIds : PutReserve(c, r)
    /\ UNCHANGED <<dbaseVars, handlerVars, logged, reaperVars>>

TaskExpose(c) ==
    /\ pc[c] = "idle"
    /\ \E r \in ReserveIds, d \in Clients : ExposeReserve(c, d, r)
    /\ UNCHANGED <<dbaseVars, handlerVars, logged, reaperVars>>

Next ==
    \/ \E c \in Clients : Handler(c) \/ TaskPut(c) \/ TaskExpose(c)
    \/ ReaperThread

Spec == Init /\ [][Next]_vars

(* A thread that can run does, a lock that is released again and again is  *)
(* acquired in the end, and the system calls of the reaper do not fail for *)
(* ever on one record.  That a thread goes on to run includes that neither *)
(* an exit of the hash nor a second destroy of a lock ended the daemon.    *)
Fairness ==
    /\ \A c \in Clients : WF_vars(HandlerStep(c)) /\ SF_vars(LockDatabase(c))
    /\ WF_vars(ReaperStep)
    /\ SF_vars(ReaperLock)
    /\ \A x \in Records :
          /\ SF_vars(ReaperCountUsers /\ ~clear_err' /\ ReaperRecord = x)
          /\ SF_vars(ReaperPut(TRUE) /\ ReaperRecord = x)

FairSpec == Spec /\ Fairness
-----------------------------------------------------------------------------
(* The handlers that use a record, and those that have locked it. *)
HasRecord(c) == pc[c] \in RecordPcs \cup {"record_lock", "remove"}
InRecord(c) == pc[c] \in RecordPcs

(* Mutual exclusion as the code relies on it: the holder of the database's *)
(* lock is exactly the thread inside the database, a record's lock is only *)
(* taken inside it, and by the handler whose pointer it is.                *)
LockInv ==
    /\ \A c \in Clients : pc[c] \in LockedPcs <=> dbase_lock = c
    /\ rpc # "asleep" <=> dbase_lock = Reaper
    /\ \A x \in Records, c \in Clients :
          data_lock[x] = c <=> InRecord(c) /\ ptr[c] = x
    /\ \A x \in Records : data_lock[x] # Reaper

(* What a handler's locals hold at each place: a request from its arrival  *)
(* to the response, a pointer only to a record that was allocated, and the *)
(* id of a reserve exactly while that reserve is being set up.             *)
SetupPcs ==
    {"create_tap", "set_rate", "record_reserve", "delete_tap", "put_reserve"}

LocalsInv ==
    \A c \in Clients :
        /\ req[c] = NoRequest <=> pc[c] = "idle"
        /\ pc[c] \in {"check", "set", "record_params", "add"} =>
              req[c].op \in {"set", "add"}
        /\ pc[c] = "record_lock" => req[c].op \in {"stat", "get", "set"}
        /\ ptr[c] # NULL => ptr[c] \in Allocated
        /\ HasRecord(c) => ptr[c] # NULL
        /\ pc[c] = "add" => data[req[c].uid] = NULL
        /\ pc[c] \in SetupPcs <=> new_reserve[c] # NoReserve
        /\ pc[c] \in SetupPcs => ~record[ptr[c]].reserve_created
        /\ reply[c] # NoReply => pc[c] # "idle"

(* A record has its parameters from its allocation on and its reserve when *)
(* reserve_created says so, and the reaper puts the reserve of a record it *)
(* has in its hands.                                                       *)
RecordsInv ==
    /\ \A x \in Allocated : record[x].par \in TapParams
    /\ \A x \in Records :
          record[x].reserve_created <=> record[x].reserve_id # NoReserve
    /\ rpc = "put" => /\ cursor <= Len(dead_list)
                      /\ record[ReaperRecord].reserve_created

(* A handler past its lookup works on the record the hash maps the uid to, *)
(* and on no record whose lock was destroyed: the record it found can      *)
(* neither be unhooked nor be cleaned by the reaper under it.              *)
HandlersHoldLiveRecords ==
    /\ \A c \in Clients : HasRecord(c) => ptr[c] = data[req[c].uid]
    /\ \A x \in Live : data_lock[x] # NoMutex

(* A record is in one place: under one uid, or once in the dead list       *)
(* (dbase.c:210, "only we access records in dead list").                   *)
RecordsInOnePlace ==
    /\ Live \cap Dead = {}
    /\ \A u, v \in Uids : data[u] = data[v] /\ data[u] # NULL => u = v
    /\ \A i, j \in DOMAIN dead_list : dead_list[i] = dead_list[j] => i = j

(* Nobody but the arbiter holds a reserve that is being set up, or one     *)
(* that the reaper found unused and is about to put: what it read from     *)
(* cinder_get_num_reserve_users is still true when it acts on it.          *)
SoleHolder ==
    /\ \A c \in Clients :
          new_reserve[c] # NoReserve => users[new_reserve[c]] = {Arbiter}
    /\ rpc = "put" => users[ReaperReserve] = {Arbiter}

(* The records and handlers that will put r. *)
HasReserve(x, r) ==
    x \in Allocated /\ record[x].reserve_created /\ record[x].reserve_id = r

Owners(r) ==
    {<<"record", x>> : x \in {y \in Records : HasReserve(y, r)}}
        \cup {<<"handler", c>> : c \in {d \in Clients : new_reserve[d] = r}}

Accounted(r) ==
    /\ \A x, y \in Owners(r) : x = y
    /\ Arbiter \in users[r] => r \in logged \/ Owners(r) # {}
    /\ r \in logged => Owners(r) = {}
    /\ r \notin minted => users[r] = {} /\ r \notin logged /\ Owners(r) = {}

(* No reserve is leaked without a word in the log, and none is put twice:  *)
(* a reserve the arbiter holds is in the hands of exactly one record or    *)
(* handler, unless statReserve logged that it could not put it back.  An   *)
(* id the kernel has not given out yet is in nobody's hands.               *)
ReservesAccountedFor == \A r \in ReserveIds : Accounted(r)

(* A handler set a new rate in the kernel and has not yet written it to x. *)
BetweenWrites(x) ==
    \E c \in Clients : pc[c] = "record_params" /\ ptr[c] = x

(* The arbiter holds the reserve of a mapped record, and as long as it does *)
(* the tap flows at the rate of the record.                                *)
TapMatches(x) ==
    LET r == record[x].reserve_id
    IN  record[x].reserve_created =>
          /\ x \in Live => Arbiter \in users[r]
          /\ Arbiter \in users[r] /\ ~BetweenWrites(x)
                => tap[r] = Rate(record[x].par)

(* The rate of the tap when a handler is about to write it to the record,  *)
(* or the tap's reserve.                                                   *)
WritesMatch(c) ==
    /\ pc[c] = "record_params" /\ record[ptr[c]].reserve_created
          => tap[record[ptr[c]].reserve_id] = Rate(req[c].par)
    /\ pc[c] = "record_reserve"
          => tap[new_reserve[c]] = Rate(record[ptr[c]].par)

(* The arbiter never lets go of a mapped uid's reserve, and the tap in the *)
(* kernel flows at the rate the database says, except between the two      *)
(* writes of the handler that changes it.                                  *)
KernelMatchesRecords ==
    /\ \A x \in Allocated : TapMatches(x)
    /\ \A c \in Clients : WritesMatch(c)

(* No record that is mapped, or that a handler works on, has lost its lock *)
(* to the reaper.                                                          *)
LocksStand ==
    /\ \A x \in Live : data_lock[x] # NoMutex
    /\ \A c \in Clients : HasRecord(c) => data_lock[ptr[c]] # NoMutex

(* The part of the invariant that also survives a record unhooked under    *)
(* the handler that works on it, as powerArbiterDestroy does.              *)
CoreInv ==
    /\ TypeOK
    /\ LockInv
    /\ LocalsInv
    /\ RecordsInv
    /\ RecordsInOnePlace
    /\ LocksStand
    /\ SoleHolder
    /\ ReservesAccountedFor

(* The invariant the proofs rest on: types, locals, locks and the places   *)
(* of records together, which no step of any thread can break.             *)
IndInv ==
    /\ CoreInv
    /\ HandlersHoldLiveRecords
    /\ KernelMatchesRecords

(* A client that is told PA_RESERVE_GRANTED does hold the reserve, and the *)
(* arbiter still does, when the response is sent, even if the mapping was  *)
(* removed and the reaper ran in between.                                  *)
GrantIsValid ==
    \A c \in Clients :
        reply[c] # NoReply /\ reply[c].flags = "PA_RESERVE_GRANTED" =>
            /\ reply[c].rid \in ReserveIds
            /\ {c, Arbiter} \subseteq users[reply[c].rid]

(* The arbiter lets go of a reserve only as the last task that holds it,   *)
(* so that a client never loses its reserve to the reaper.                 *)
NoPutWhileUsed ==
    [][\A r \in ReserveIds :
          Arbiter \in users[r] /\ Arbiter \notin users'[r] =>
              users[r] = {Arbiter}]_vars

(* dbase.c:40 "Actual removal of entries is done by the reaper",           *)
(* dbase.c:130 "the reaper thread will clean it up": a record put on the   *)
(* dead list leaves it in the end.                                         *)
DeadRecordsUnhooked == \A x \in Records : x \in Dead ~> x \notin Dead

(* Every request is answered. *)
RequestAnswered == \A c \in Clients : pc[c] # "idle" ~> pc[c] = "idle"

(* A removed mapping's reserve that no client holds any more is destroyed. *)
UnusedReserveReleased ==
    \A r \in ReserveIds :
        (/\ users[r] = {Arbiter}
         /\ \E x \in Dead : record[x].reserve_created
                              /\ record[x].reserve_id = r)
            ~> users[r] = {}
=============================================================================
