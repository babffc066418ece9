--------------------------- MODULE ReserveDatabase ---------------------------
(***************************************************************************)
(* The arbiter's in-memory database (dbase.c): a hash from uids to         *)
(* records, the list of records taken out of the hash and left for the     *)
(* reaper, the lock of the database and the lock of each record.           *)
(*                                                                         *)
(* Each operator is the body of one function of dbase.c, without the lock  *)
(* calls, which are operators of their own because the callers' steps      *)
(* differ.  A record is never freed in dbase.c, so a record is in use for  *)
(* ever once malloc returned it.                                           *)
(***************************************************************************)
EXTENDS CinderKernel, Sequences

CONSTANTS
    Uids,        \* keys of the hash
    Records,     \* what malloc may return in reserveRecordCreate
    Reaper,      \* the reaper thread
    NULL,        \* no record
    NoReserve,   \* reserve_id while reserve_created is 0
    NoParams,    \* contents of a record not yet allocated
    Free,        \* a lock nobody holds
    NoMutex      \* a lock not initialised yet, or destroyed

(* The daemon's threads that take these locks: the reaper and, for each    *)
(* client, the handler thread of its session, which bears its name.        *)
Threads == Clients \cup {Reaper}

ASSUME NULLAssumption == NULL \notin Records
ASSUME NoReserveAssumption == NoReserve \notin ReserveIds
ASSUME LockAssumption ==
    /\ Reaper \notin Clients
    /\ Free \notin Threads /\ NoMutex \notin Threads /\ Free # NoMutex

VARIABLES
    data,        \* dbase->data: the record of each uid, or NULL
    dead_list,   \* dbase->dead_list
    record,      \* the contents of each record
    dbase_lock,  \* holder of dbase->dbase_lock
    data_lock    \* holder of each record's data_lock

dbaseVars == <<data, dead_list, record, dbase_lock, data_lock>>

(* UIDReserveData: reserve_created is the Boolean of that name, and the    *)
(* tap is known by its reserve.                                            *)
RecordType ==
    [reserve_created : BOOLEAN, reserve_id : ReserveIds \cup {NoReserve},
     par : TapParams \cup {NoParams}]

(* A variant: the fields of a new record but par are what malloc left. *)
NewRecordUninitialised(par) ==
    [reserve_created |-> TRUE, reserve_id |-> NoReserve, par |-> par]

NewRecord(par) ==
    [reserve_created |-> FALSE, reserve_id |-> NoReserve, par |-> par]

Live == {data[u] : u \in Uids} \ {NULL}
Dead == {dead_list[i] : i \in DOMAIN dead_list}
Allocated == Live \cup Dead

DatabaseTypeOK ==
    /\ data \in [Uids -> Records \cup {NULL}]
    /\ dead_list \in Seq(Records)
    /\ record \in [Records -> RecordType]
    /\ dbase_lock \in Threads \cup {Free}
    /\ data_lock \in [Records -> Threads \cup {Free, NoMutex}]

(* reserveDataDBCreateEmpty *)
DatabaseInit ==
    /\ data = [u \in Uids |-> NULL]
    /\ dead_list = <<>>
    /\ record = [x \in Records |-> NewRecord(NoParams)]
    /\ dbase_lock = Free
    /\ data_lock = [x \in Records |-> NoMutex]

(* A variant: a lock that does not exclude. *)
DBLockShared(t) ==
    /\ dbase_lock' = t
    /\ UNCHANGED <<data, dead_list, record, data_lock>>

DBLock(t) ==
    /\ dbase_lock = Free
    /\ dbase_lock' = t
    /\ UNCHANGED <<data, dead_list, record, data_lock>>

(* A variant: a path out of the database that forgets the lock. *)
DBUnlockForgotten == UNCHANGED dbaseVars

DBUnlock ==
    /\ dbase_lock' = Free
    /\ UNCHANGED <<data, dead_list, record, data_lock>>

RecordLock(t, x) ==
    /\ data_lock[x] = Free
    /\ data_lock' = [data_lock EXCEPT ![x] = t]
    /\ UNCHANGED <<data, dead_list, record, dbase_lock>>

RecordUnlock(x) ==
    /\ data_lock' = [data_lock EXCEPT ![x] = Free]
    /\ UNCHANGED <<data, dead_list, record, dbase_lock>>

(* reserveRecordCreate and HASH_ADD for a uid that has no record; x is     *)
(* what malloc returned.                                                   *)
AddRecord(u, x, par) ==
    /\ x \in Records \ Allocated
    /\ record' = [record EXCEPT ![x] = NewRecord(par)]
    /\ data_lock' = [data_lock EXCEPT ![x] = Free]
    /\ data' = [data EXCEPT ![u] = x]
    /\ UNCHANGED <<dead_list, dbase_lock>>

(* A variant: list_add_tail alone. *)
RemoveRecordKeepsHash(u, x) ==
    /\ dead_list' = Append(dead_list, x)
    /\ UNCHANGED <<data, record, dbase_lock, data_lock>>

(* HASH_DELETE and list_add_tail of the record x found under u *)
RemoveRecord(u, x) ==
    /\ data' = [data EXCEPT ![u] = NULL]
    /\ dead_list' = Append(dead_list, x)
    /\ UNCHANGED <<record, dbase_lock, data_lock>>

(* A variant: the parameters are set in the kernel only. *)
SetRecordParamsLost(x, par) == UNCHANGED dbaseVars

SetRecordParams(x, par) ==
    /\ record' = [record EXCEPT ![x].par = par]
    /\ UNCHANGED <<data, dead_list, dbase_lock, data_lock>>

(* A variant: reserve_created is not set. *)
SetRecordReserveIdOnly(x, r) ==
    /\ record' = [record EXCEPT ![x].reserve_id = r]
    /\ UNCHANGED <<data, dead_list, dbase_lock, data_lock>>

SetRecordReserve(x, r) ==
    /\ record' = [record EXCEPT ![x] = [reserve_created |-> TRUE,
                                        reserve_id |-> r,
                                        par |-> @.par]]
    /\ UNCHANGED <<data, dead_list, dbase_lock, data_lock>>

(* The half of reserveRecordDestroy that is the record's own: its lock.    *)
(* The record stays on dead_list, so that a later pass may come here again *)
(* with the lock destroyed already, which POSIX leaves undefined.  Here    *)
(* pthread_mutex_destroy returns, with 0 or an error the code drops, and   *)
(* the lock stays destroyed; that it ends the daemon is                    *)
(* ReaperDestroysAgain of PowerArbiter.                                    *)
DestroyRecordLock(x) ==
    /\ data_lock' = [data_lock EXCEPT ![x] = NoMutex]
    /\ UNCHANGED <<data, dead_list, record, dbase_lock>>

(* assert() of reserveDataDBDestroy *)
DatabaseIsEmpty == Live = {} /\ dead_list = <<>>
=============================================================================
