--------------------------- MODULE UidReserveMap ---------------------------
(***************************************************************************)
(* What the arbiter promises its clients, without locks, records, reaper   *)
(* or system calls: a map from uids to tap parameters and at most one      *)
(* reserve, on which every request acts in one indivisible step between    *)
(* its arrival and its response.                                           *)
(***************************************************************************)
CONSTANTS
    Clients, Uids, ReserveIds, TapParams,
    Requests,            \* records with the fields op, uid and par
    ValidParams(_),      \* the parameters a set or an add may store
    Status(_),           \* the response that only carries an error code
    Granted(_),          \* the response to a stat that exposed a reserve
    UseRoot(_),          \* the response to a stat of a uid without a mapping
    RootIds,             \* what it may give for the id of the root reserve
    Params(_),           \* the response to a successful get
    Unmapped, NoReserve, NoRequest, NoReply

VARIABLES
    map,      \* map[u]: Unmapped, or the parameters and the reserve of u
    used,     \* the reserves that were ever bound to a uid
    call,     \* the request of each client, or NoRequest
    answer    \* the response decided for it, or NoReply

mapVars == <<map, used, call, answer>>

Init ==
    /\ map = [u \in Uids |-> Unmapped]
    /\ used = {}
    /\ call = [c \in Clients |-> NoRequest]
    /\ answer = [c \in Clients |-> NoReply]

Pending(c, op) == call[c] # NoRequest /\ call[c].op = op /\ answer[c] = NoReply

Call(c) ==
    /\ call[c] = NoRequest
    /\ \E q \in Requests : call' = [call EXCEPT ![c] = q]
    /\ UNCHANGED <<map, used, answer>>

Return(c) ==
    /\ answer[c] # NoReply
    /\ call' = [call EXCEPT ![c] = NoRequest]
    /\ answer' = [answer EXCEPT ![c] = NoReply]
    /\ UNCHANGED <<map, used>>

Reply(c, response) ==
    /\ answer' = [answer EXCEPT ![c] = response]
    /\ UNCHANGED <<used, call>>

(* A stat of a mapped uid that has no reserve binds one never used before. *)
Bind(c) ==
    /\ Pending(c, "stat")
    /\ map[call[c].uid] # Unmapped
    /\ map[call[c].uid].rid = NoReserve
    /\ \E r \in ReserveIds \ used :
         /\ map' = [map EXCEPT ![call[c].uid].rid = r]
         /\ used' = used \cup {r}
    /\ UNCHANGED <<call, answer>>

Stat(c) ==
    /\ Pending(c, "stat")
    /\ LET entry == map[call[c].uid]
       IN  IF entry = Unmapped
             THEN \E r \in RootIds : Reply(c, UseRoot(r))
             ELSE \/ entry.rid # NoReserve /\ Reply(c, Granted(entry.rid))
                  \/ Reply(c, Status("PA_FAILURE"))
    /\ UNCHANGED map

Get(c) ==
    /\ Pending(c, "get")
    /\ Reply(c, IF map[call[c].uid] = Unmapped
                  THEN Status("PA_UID_NOT_FOUND")
                  ELSE Params(map[call[c].uid].par))
    /\ UNCHANGED map

RefuseParams(c) ==
    /\ Pending(c, "set") \/ Pending(c, "add")
    /\ ~ValidParams(call[c].par)
    /\ Reply(c, Status("PA_INVALID_INPUT"))
    /\ UNCHANGED map

(* Only a set that has to change the tap of a reserve can be refused by    *)
(* the kernel; it then stores nothing.                                     *)
Set(c) ==
    /\ Pending(c, "set")
    /\ ValidParams(call[c].par)
    /\ LET u == call[c].uid
       IN  IF map[u] = Unmapped
             THEN Reply(c, Status("PA_UID_NOT_FOUND")) /\ UNCHANGED map
             ELSE \/ /\ map' = [map EXCEPT ![u].par = call[c].par]
                     /\ Reply(c, Status("PA_NO_ERROR"))
                  \/ /\ map[u].rid # NoReserve
                     /\ Reply(c, Status("PA_BAD_PERMISSIONS"))
                     /\ UNCHANGED map

Add(c) ==
    /\ Pending(c, "add")
    /\ ValidParams(call[c].par)
    /\ LET u == call[c].uid
       IN  IF map[u] # Unmapped
             THEN Reply(c, Status("PA_UID_EXISTS")) /\ UNCHANGED map
             ELSE \/ /\ map' = [map EXCEPT ![u] = [par |-> call[c].par,
                                                   rid |-> NoReserve]]
                     /\ Reply(c, Status("PA_NO_ERROR"))
                  \/ Reply(c, Status("PA_FAILURE")) /\ UNCHANGED map

Remove(c) ==
    /\ Pending(c, "remove")
    /\ LET u == call[c].uid
       IN  /\ Reply(c, Status(IF map[u] = Unmapped THEN "PA_UID_NOT_FOUND"
                                                   ELSE "PA_NO_ERROR"))
           /\ map' = [map EXCEPT ![u] = Unmapped]

Next ==
    \E c \in Clients :
        \/ Call(c) \/ Bind(c) \/ Stat(c) \/ Get(c) \/ RefuseParams(c)
        \/ Set(c) \/ Add(c) \/ Remove(c) \/ Return(c)

Spec == Init /\ [][Next]_mapVars
=============================================================================
