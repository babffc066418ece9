------------------------ MODULE ControllerRefinement ------------------------
(***************************************************************************)
(* The database with its locks implements the map of UidReserveMap: each   *)
(* request takes effect at one step of its handler, whatever the other     *)
(* handlers, the reaper and the clients do.                                *)
(***************************************************************************)
EXTENDS Controller

(* NULL, no record, stands for "no mapping" too. *)
ASSUME UnmappedAssumption ==
    NULL \notin [par : TapParams, rid : ReserveIds \cup {NoReserve}]

(* The mapping of u as a client can learn it. *)
MapOf(u) ==
    IF data[u] = NULL THEN NULL
    ELSE [par |-> record[data[u]].par, rid |-> record[data[u]].reserve_id]

Bound == {record[x].reserve_id : x \in {y \in Allocated : record[y].reserve_created}}

UidMap == INSTANCE UidReserveMap WITH
    Unmapped <- NULL,
    map <- [u \in Uids |-> MapOf(u)],
    used <- Bound,
    call <- req,
    answer <- reply

(* statReserve, getTapParams, setTapParams, addReserveParamsForUID and     *)
(* removeReserveParamsForUID are linearizable: the handlers refine the     *)
(* atomic map.                                                             *)
ImplementsMap == UidMap!Spec
=============================================================================
